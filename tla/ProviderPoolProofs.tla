------------------------- MODULE ProviderPoolProofs -------------------------
(***************************************************************************)
(* The list of provider connections, for every number of peers and of      *)
(* cells, every limit and every size of chunk, window and timeout: it      *)
(* stays well formed while the loop removes the cells it stands on, and to *)
(* every peer it is a slot of its own, as in Provider.                     *)
(***************************************************************************)
EXTENDS ProviderPool, ControlProofs, NaturalsOrder, FiniteSetTheorems

\* The cells of a list: n of them, no one twice.
Cells(n, f) ==
  /\ n \in Nat
  /\ f \in [1 .. n -> Cell]
  /\ \A i, j \in 1 .. n : f[i] = f[j] => i = j

\* What follows the cells before the i-th.
Entry(n, f, i) == IF i \in 1 .. n THEN f[i] ELSE NULL

\* The cells that are linked, in the order of the list.
Linked(n, f) ==
  /\ head = Entry(n, f, 1)
  /\ \A i \in 1 .. n : next[f[i]] = Entry(n, f, i + 1)

\* They are those that are allocated, and have a peer each.
Holding(n, f) ==
  /\ \A a \in Cell : conn[a] # NoConnection <=> \E i \in 1 .. n : a = f[i]
  /\ \A i, j \in 1 .. n : receiver[f[i]] = receiver[f[j]] => i = j

\* A walk has left the first k of them behind, and those only; between the
\* turns there is none.
Walked(n, f, k) ==
  /\ pc \in {"timeouts", "send"} =>
       /\ temp = Entry(n, f, k + 1)
       /\ \A i \in 1 .. n : receiver[f[i]] \in handled <=> i <= k
  /\ pc \in {"select", "packet"} => temp = NULL

ListAndWalk ==
  \E n \in Nat : \E f \in [1 .. n -> Cell], k \in 0 .. n :
    /\ Cells(n, f)
    /\ Linked(n, f)
    /\ Holding(n, f)
    /\ Walked(n, f, k)
    /\ n <= max_provider_connection

PoolTypeOK ==
  /\ max_provider_connection \in Nat
  /\ pc \in {"select", "packet", "timeouts", "send"}
  /\ next \in [Cell -> Cell \cup {NULL}]
  /\ receiver \in [Cell -> Peer \cup {NULL}]
  /\ conn \in [Cell -> ProviderConnection \cup {NoConnection}]

\* Every connection is sound, and not finished.
SoundConnections ==
  \A a \in Cell : conn[a] # NoConnection =>
    Sound(conn[a]) /\ conn[a].last_packet_acked < CHUNK_DATA_NUM

\* The inductive invariant.
IInv == PoolTypeOK /\ SoundConnections /\ ListAndWalk

-----------------------------------------------------------------------------
(* The list as the walks of connection.c see it.                           *)

\* They find the cells in order, then NULL.
LEMMA NthIsEntry ==
  ASSUME NEW n, NEW f, Cells(n, f), Linked(n, f)
  PROVE  \A m \in Nat : Nth[m] = Entry(n, f, m + 1)
<1> DEFINE Step(g) == [m \in Nat |-> IF m = 0 THEN head
                                     ELSE IF g[m - 1] = NULL THEN NULL
                                     ELSE next[g[m - 1]]]
           e == [m \in Nat |-> Entry(n, f, m + 1)]
<1>1. n \in Nat /\ \A i \in 1 .. n : f[i] \in Cell /\ f[i] # NULL
  BY PoolAssumption DEF Cells
<1>2. e = Step(e)
  <2>1. ASSUME NEW m \in Nat
        PROVE  e[m] = Step(e)[m]
    <3>1. CASE m = 0
      BY <3>1 DEF Linked
    <3>2. CASE m # 0
      <4>1. m - 1 \in Nat /\ e[m - 1] = Entry(n, f, m)
        BY <3>2
      <4>2. CASE m \in 1 .. n
        BY <1>1, <3>2, <4>1, <4>2 DEF Linked, Entry
      <4>3. CASE m \notin 1 .. n
        <5>1. m + 1 \notin 1 .. n
          BY <1>1, <3>2, <4>3
        <5> QED
          BY <3>2, <4>1, <4>3, <5>1 DEF Entry
      <4> QED
        BY <4>2, <4>3
    <3> QED
      BY <3>1, <3>2
  <2> HIDE DEF Entry
  <2> QED
    BY <2>1
<1>3. Nth = Step(Nth)
  BY <1>2 DEF Nth
<1>4. Nat \subseteq {m \in Nat : Nth[m] = e[m]}
  <2> DEFINE S == {m \in Nat : Nth[m] = e[m]}
  <2> HIDE DEF e
  <2>1. 0 \in S
    BY <1>2, <1>3
  <2>2. ASSUME NEW m \in Nat, m \in S
        PROVE  m + 1 \in S
    <3>1. m + 1 \in Nat /\ m + 1 # 0 /\ m + 1 - 1 = m
      OBVIOUS
    <3>2. Nth[m + 1] = Step(Nth)[m + 1] /\ e[m + 1] = Step(e)[m + 1]
      BY <1>2, <1>3
    <3> QED
      BY <2>2, <3>1, <3>2
  <2> HIDE DEF S
  <2> QED
    BY <2>1, <2>2, SetInduction DEF S
<1> QED
  BY <1>4

\* They find as many as are allocated.
LEMMA ListedCells ==
  ASSUME NEW n, NEW f, Cells(n, f), Linked(n, f), Holding(n, f)
  PROVE  /\ Listed = Allocated
         /\ IsFiniteSet(Allocated)
         /\ Cardinality(Allocated) = n
<1>1. n \in Nat /\ \A i \in 1 .. n : f[i] \in Cell /\ f[i] # NULL
  BY PoolAssumption DEF Cells
<1>2. \A a : a \in Allocated <=> \E i \in 1 .. n : a = f[i]
  BY <1>1 DEF Allocated, Holding
<1>3. IsFiniteSet(Allocated) /\ Cardinality(Allocated) <= Cardinality(Cell)
      /\ Cardinality(Cell) \in Nat
  BY PoolAssumption, FS_Subset, FS_CardinalityType DEF Allocated
<1>4. Cardinality(Allocated) = n
  <2>1. f \in [1 .. n -> Allocated]
    BY <1>2 DEF Cells
  <2>2. f \in Bijection(1 .. n, Allocated)
    BY <1>2, <2>1
    DEF Bijection, Injection, Surjection, IsInjective, Cells
  <2> QED
    BY <1>1, <2>2, FS_CountingElements DEF ExistsBijection
<1>5. Listed = Allocated
  <2>1. \A m \in Nat : Nth[m] = Entry(n, f, m + 1)
    BY NthIsEntry
  <2>2. ASSUME NEW m \in 0 .. Cardinality(Cell), Nth[m] # NULL
        PROVE  Nth[m] \in Allocated
    <3>1. m \in Nat
      BY <1>3
    <3>2. m + 1 \in 1 .. n /\ Nth[m] = f[m + 1]
      BY <2>1, <2>2, <3>1 DEF Entry
    <3> QED
      BY <1>2, <3>2
  <2>3. ASSUME NEW i \in 1 .. n
        PROVE  f[i] \in Listed
    <3>1. i - 1 \in Nat /\ i - 1 \in 0 .. Cardinality(Cell) /\ i - 1 + 1 = i
      BY <1>1, <1>3, <1>4
    <3>2. Nth[i - 1] = f[i]
      BY <2>1, <3>1 DEF Entry
    <3> QED
      BY <1>1, <3>1, <3>2 DEF Listed
  <2>4. Listed \subseteq Allocated
    BY <2>2 DEF Listed
  <2>5. Allocated \subseteq Listed
    BY <1>2, <2>3
  <2> QED
    BY <2>4, <2>5
<1> QED
  BY <1>3, <1>4, <1>5

\* What the invariant says of the list without its order.
ListIs ==
  /\ Listed = Allocated
  /\ IsFiniteSet(Allocated)
  /\ Cardinality(Allocated) <= max_provider_connection
  /\ Nth[Cardinality(Allocated)] = NULL
  /\ \A a, b \in Allocated : receiver[a] = receiver[b] => a = b

\* It follows from the invariant.
LEMMA ListIsWell == ListAndWalk => ListIs
<1> SUFFICES ASSUME ListAndWalk
             PROVE  ListIs
  OBVIOUS
<1>1. PICK n \in Nat : \E f \in [1 .. n -> Cell], k \in 0 .. n :
             /\ Cells(n, f)
             /\ Linked(n, f)
             /\ Holding(n, f)
             /\ Walked(n, f, k)
             /\ n <= max_provider_connection
  BY DEF ListAndWalk
<1>2. PICK f \in [1 .. n -> Cell] :
             Cells(n, f) /\ Linked(n, f) /\ Holding(n, f)
  BY <1>1
<1>3. Listed = Allocated /\ IsFiniteSet(Allocated) /\ Cardinality(Allocated) = n
  BY <1>2, ListedCells
<1>4. Nth[n] = NULL
  <2>1. n + 1 \notin 1 .. n
    OBVIOUS
  <2> QED
    BY <1>2, <2>1, NthIsEntry DEF Entry
<1>5. ASSUME NEW a \in Allocated, NEW b \in Allocated, receiver[a] = receiver[b]
      PROVE  a = b
  <2>1. PICK i \in 1 .. n : a = f[i]
    BY <1>2 DEF Allocated, Holding
  <2>2. PICK j \in 1 .. n : b = f[j]
    BY <1>2 DEF Allocated, Holding
  <2> QED
    BY <1>2, <1>5, <2>1, <2>2 DEF Holding
<1> QED
  BY <1>1, <1>3, <1>4, <1>5 DEF ListIs

-----------------------------------------------------------------------------
(* What the operations of connection.c do to the list.                     *)

\* add_provider_connection puts the cell in front.
Added(n, f, a) == [i \in 1 .. n + 1 |-> IF i = 1 THEN a ELSE f[i - 1]]

\* remove_provider_connection closes the gap.
Removed(n, f, j) == [i \in 1 .. n - 1 |-> IF i < j THEN f[i] ELSE f[i + 1]]

\* A step that changes no link and frees no cell keeps the list.
LEMMA KeptList ==
  ASSUME NEW n, NEW f, Cells(n, f), Linked(n, f), Holding(n, f),
         UNCHANGED <<head, next, receiver>>,
         \A a \in Cell : conn'[a] # NoConnection <=> conn[a] # NoConnection
  PROVE  Linked(n, f)' /\ Holding(n, f)'
BY DEF Linked, Holding

\* A cell that was free comes in front of the list.
LEMMA AddedList ==
  ASSUME NEW n, NEW f, Cells(n, f), Linked(n, f), Holding(n, f), PoolTypeOK,
         NEW a \in Cell \ Allocated, NEW p, NEW c, c # NoConnection,
         \A i \in 1 .. n : receiver[f[i]] # p,
         AddProviderConnection(a),
         receiver' = [receiver EXCEPT ![a] = p],
         conn' = [conn EXCEPT ![a] = c]
  PROVE  LET g == Added(n, f, a)
         IN  /\ Cells(n + 1, g)
             /\ Linked(n + 1, g)'
             /\ Holding(n + 1, g)'
<1> DEFINE g == Added(n, f, a)
<1>1. /\ n \in Nat
      /\ \A i \in 1 .. n : f[i] \in Cell /\ f[i] # a
      /\ \A i, j \in 1 .. n : f[i] = f[j] => i = j
  BY DEF Cells, Allocated, Holding
<1>2. /\ g[1] = a
      /\ \A i \in 1 .. n + 1 : i # 1 => i - 1 \in 1 .. n /\ g[i] = f[i - 1]
  BY <1>1 DEF Added
<1>3. g \in [1 .. n + 1 -> Cell]
  BY <1>1 DEF Added
<1> HIDE DEF g
<1>4. Cells(n + 1, g)
  <2>1. ASSUME NEW i \in 1 .. n + 1, NEW j \in 1 .. n + 1, g[i] = g[j]
        PROVE  i = j
    <3>1. CASE i = 1 \/ j = 1
      BY <1>1, <1>2, <2>1, <3>1
    <3>2. CASE i # 1 /\ j # 1
      <4>1. i - 1 = j - 1
        BY <1>1, <1>2, <2>1, <3>2
      <4> QED
        BY <4>1
    <3> QED
      BY <3>1, <3>2
  <2> QED
    BY <1>1, <1>3, <2>1 DEF Cells
<1>5. /\ head' = a
      /\ next'[a] = head
      /\ \A b \in Cell : b # a => /\ next'[b] = next[b]
                                  /\ receiver'[b] = receiver[b]
                                  /\ conn'[b] = conn[b]
      /\ receiver'[a] = p
      /\ conn'[a] # NoConnection
  BY DEF AddProviderConnection, PoolTypeOK
<1>6. Linked(n + 1, g)'
  <2>1. head' = Entry(n + 1, g, 1)
    BY <1>1, <1>2, <1>5 DEF Entry
  <2>2. ASSUME NEW i \in 1 .. n + 1
        PROVE  next'[g[i]] = Entry(n + 1, g, i + 1)
    <3>1. i + 1 \in 1 .. n + 1 => g[i + 1] = f[i] /\ i \in 1 .. n
      <4> SUFFICES ASSUME i + 1 \in 1 .. n + 1
                   PROVE  g[i + 1] = f[i] /\ i \in 1 .. n
        OBVIOUS
      <4>1. i + 1 # 1 /\ i + 1 - 1 = i
        OBVIOUS
      <4> QED
        BY <1>2, <4>1
    <3>2. i \in 1 .. n => i + 1 \in 1 .. n + 1
      BY <1>1
    <3>3. Entry(n + 1, g, i + 1) = Entry(n, f, i)
      BY <3>1, <3>2 DEF Entry
    <3>4. CASE i = 1
      BY <1>2, <1>5, <3>3, <3>4 DEF Linked
    <3>5. CASE i # 1
      <4>1. i - 1 \in 1 .. n /\ g[i] = f[i - 1] /\ i - 1 + 1 = i
        BY <1>2, <3>5
      <4>2. next'[g[i]] = next[f[i - 1]]
        BY <1>1, <1>5, <4>1
      <4>3. next[f[i - 1]] = Entry(n, f, i - 1 + 1)
        BY <4>1 DEF Linked
      <4> QED
        BY <3>3, <4>1, <4>2, <4>3
    <3> QED
      BY <3>4, <3>5
  <2> QED
    BY <2>1, <2>2 DEF Linked
<1>7. Holding(n + 1, g)'
  <2>1. ASSUME NEW b \in Cell
        PROVE  conn'[b] # NoConnection <=> \E i \in 1 .. n + 1 : b = g[i]
    <3>1. CASE b = a
      <4>1. 1 \in 1 .. n + 1
        BY <1>1
      <4> QED
        BY <1>2, <1>5, <3>1, <4>1
    <3>2. CASE b # a
      <4>1. conn'[b] # NoConnection <=> \E i \in 1 .. n : b = f[i]
        BY <1>5, <3>2 DEF Holding
      <4>2. ASSUME NEW i \in 1 .. n, b = f[i]
            PROVE  \E k \in 1 .. n + 1 : b = g[k]
        <5>1. i + 1 \in 1 .. n + 1 /\ i + 1 # 1 /\ i + 1 - 1 = i
          BY <1>1
        <5>2. g[i + 1] = f[i]
          BY <1>2, <5>1
        <5> QED
          BY <4>2, <5>1, <5>2
      <4>3. ASSUME NEW i \in 1 .. n + 1, b = g[i]
            PROVE  \E k \in 1 .. n : b = f[k]
        BY <1>2, <3>2, <4>3
      <4> QED
        BY <4>1, <4>2, <4>3
    <3> QED
      BY <3>1, <3>2
  <2>2. ASSUME NEW i \in 1 .. n + 1, NEW j \in 1 .. n + 1,
               receiver'[g[i]] = receiver'[g[j]]
        PROVE  i = j
    <3>1. \A k \in 1 .. n : receiver'[f[k]] = receiver[f[k]]
      BY <1>1, <1>5
    <3>2. CASE i = 1 \/ j = 1
      BY <1>2, <1>5, <2>2, <3>1, <3>2
    <3>3. CASE i # 1 /\ j # 1
      <4>1. /\ i - 1 \in 1 .. n /\ j - 1 \in 1 .. n
            /\ receiver[f[i - 1]] = receiver[f[j - 1]]
        BY <1>2, <2>2, <3>1, <3>3
      <4>2. i - 1 = j - 1
        BY <4>1 DEF Holding
      <4> QED
        BY <4>2
    <3> QED
      BY <3>2, <3>3
  <2> QED
    BY <2>1, <2>2 DEF Holding
<1> QED
  BY <1>4, <1>6, <1>7 DEF g

\* A cell leaves the list, and still links to what followed it.
LEMMA RemovedList ==
  ASSUME NEW n, NEW f, Cells(n, f), Linked(n, f), Holding(n, f), PoolTypeOK,
         NEW j \in 1 .. n, FinishProviderConnection(f[j])
  PROVE  LET g == Removed(n, f, j)
         IN  /\ Cells(n - 1, g)
             /\ Linked(n - 1, g)'
             /\ Holding(n - 1, g)'
             /\ next'[f[j]] = next[f[j]]
<1> DEFINE g == Removed(n, f, j)
<1>1. /\ n \in Nat /\ n - 1 \in Nat
      /\ \A i \in 1 .. n : f[i] \in Cell /\ f[i] # NULL
      /\ \A i, k \in 1 .. n : f[i] = f[k] => i = k
  BY PoolAssumption DEF Cells
<1>2. \A i \in 1 .. n - 1 : /\ i < j => i \in 1 .. n /\ g[i] = f[i]
                            /\ ~(i < j) => i + 1 \in 1 .. n /\ g[i] = f[i + 1]
  BY <1>1 DEF Removed
<1>3. g \in [1 .. n - 1 -> Cell]
  BY <1>1 DEF Removed
<1> HIDE DEF g
<1>4. Cells(n - 1, g)
  <2>1. ASSUME NEW i \in 1 .. n - 1, NEW k \in 1 .. n - 1, g[i] = g[k]
        PROVE  i = k
    BY <1>1, <1>2, <2>1
  <2> QED
    BY <1>1, <1>3, <2>1 DEF Cells
<1>5. /\ \A b \in Cell : b # f[j] => conn'[b] = conn[b] /\ receiver'[b] = receiver[b]
      /\ conn'[f[j]] = NoConnection
  BY <1>1 DEF FinishProviderConnection, PoolTypeOK
\* The links: only the cell before the one removed gets another.
<1>6. /\ head' = IF head = f[j] THEN next[f[j]] ELSE head
      /\ \A i \in 1 .. n : next'[f[i]] = IF head # f[j] /\ next[f[i]] = f[j]
                                           THEN next[f[j]] ELSE next[f[i]]
  <2>1. \A i \in 1 .. n : f[i] \in Listed
    <3>1. Listed = Allocated
      BY ListedCells
    <3> QED
      BY <1>1, <3>1 DEF Allocated, Holding
  <2> QED
    BY <1>1, <2>1 DEF FinishProviderConnection, RemoveProviderConnection
<1>7. /\ head = f[j] <=> j = 1
      /\ \A i \in 1 .. n : next[f[i]] = f[j] <=> i + 1 = j
  <2>1. 1 \in 1 .. n /\ head = f[1]
    BY <1>1 DEF Linked, Entry
  <2>2. ASSUME NEW i \in 1 .. n
        PROVE  next[f[i]] = f[j] <=> i + 1 = j
    BY <1>1 DEF Linked, Entry
  <2> QED
    BY <1>1, <2>1, <2>2
<1>8. /\ head' = IF j = 1 THEN Entry(n, f, 2) ELSE f[1]
      /\ \A i \in 1 .. n : next'[f[i]] = IF i + 1 = j THEN Entry(n, f, j + 1)
                                                      ELSE Entry(n, f, i + 1)
  <2>1. head' = IF j = 1 THEN Entry(n, f, 2) ELSE f[1]
    <3>1. 1 \in 1 .. n /\ head = f[1]
      BY <1>1 DEF Linked, Entry
    <3>2. next[f[j]] = Entry(n, f, j + 1)
      BY DEF Linked
    <3> QED
      BY <1>6, <1>7, <3>1, <3>2
  <2>2. ASSUME NEW i \in 1 .. n
        PROVE  next'[f[i]] = IF i + 1 = j THEN Entry(n, f, j + 1)
                                          ELSE Entry(n, f, i + 1)
    <3>1. i + 1 = j => j # 1
      BY <1>1
    <3>2. next[f[i]] = Entry(n, f, i + 1) /\ next[f[j]] = Entry(n, f, j + 1)
      BY DEF Linked
    <3> QED
      BY <1>6, <1>7, <3>1, <3>2
  <2> QED
    BY <2>1, <2>2
<1>9. Linked(n - 1, g)'
  <2>1. head' = Entry(n - 1, g, 1)
    <3>1. CASE j = 1
      BY <1>1, <1>2, <1>8, <3>1 DEF Entry
    <3>2. CASE j # 1
      BY <1>1, <1>2, <1>8, <3>2 DEF Entry
    <3> QED
      BY <3>1, <3>2
  <2>2. ASSUME NEW i \in 1 .. n - 1
        PROVE  next'[g[i]] = Entry(n - 1, g, i + 1)
    <3>1. Entry(n - 1, g, i + 1) = IF i + 1 < j THEN Entry(n, f, i + 1)
                                                ELSE Entry(n, f, i + 2)
      BY <1>1, <1>2 DEF Entry
    <3>2. CASE i + 1 < j
      <4>1. i \in 1 .. n /\ g[i] = f[i] /\ i + 1 # j
        BY <1>1, <1>2, <3>2
      <4> QED
        BY <1>8, <3>1, <3>2, <4>1
    <3>3. CASE i + 1 = j
      <4>1. i \in 1 .. n /\ g[i] = f[i] /\ j + 1 = i + 2
        BY <1>1, <1>2, <3>3
      <4> QED
        BY <1>8, <3>1, <3>3, <4>1
    <3>4. CASE i + 1 > j
      <4>1. /\ i + 1 \in 1 .. n /\ g[i] = f[i + 1]
            /\ i + 1 + 1 # j /\ i + 1 + 1 = i + 2 /\ ~(i + 1 < j)
        BY <1>1, <1>2, <3>4
      <4>2. next'[f[i + 1]] = Entry(n, f, i + 1 + 1)
        BY <1>8, <4>1
      <4> QED
        BY <3>1, <4>1, <4>2
    <3> QED
      BY <1>1, <3>2, <3>3, <3>4
  <2> QED
    BY <2>1, <2>2 DEF Linked
<1>10. \A i \in 1 .. n : i # j => \E k \in 1 .. n - 1 : f[i] = g[k]
  <2> SUFFICES ASSUME NEW i \in 1 .. n, i # j
               PROVE  \E k \in 1 .. n - 1 : f[i] = g[k]
    OBVIOUS
  <2>1. CASE i < j
    <3>1. i \in 1 .. n - 1 /\ g[i] = f[i]
      BY <1>1, <1>2, <2>1
    <3> QED
      BY <3>1
  <2>2. CASE i > j
    <3>1. i - 1 \in 1 .. n - 1 /\ ~(i - 1 < j) /\ i - 1 + 1 = i
      BY <1>1, <2>2
    <3>2. g[i - 1] = f[i]
      BY <1>2, <3>1
    <3> QED
      BY <3>1, <3>2
  <2> QED
    BY <1>1, <2>1, <2>2
<1>11. \A k \in 1 .. n - 1 : \E i \in 1 .. n : i # j /\ g[k] = f[i]
  <2> SUFFICES ASSUME NEW k \in 1 .. n - 1
               PROVE  \E i \in 1 .. n : i # j /\ g[k] = f[i]
    OBVIOUS
  <2>1. CASE k < j
    BY <1>1, <1>2, <2>1
  <2>2. CASE ~(k < j)
    <3>1. k + 1 \in 1 .. n /\ k + 1 # j /\ g[k] = f[k + 1]
      BY <1>1, <1>2, <2>2
    <3> QED
      BY <3>1
  <2> QED
    BY <2>1, <2>2
<1>12. Holding(n - 1, g)'
  <2>1. ASSUME NEW b \in Cell
        PROVE  conn'[b] # NoConnection <=> \E k \in 1 .. n - 1 : b = g[k]
    <3>1. CASE b = f[j]
      <4>1. \A k \in 1 .. n - 1 : b # g[k]
        BY <1>1, <1>11, <3>1
      <4> QED
        BY <1>5, <3>1, <4>1
    <3>2. CASE b # f[j]
      <4>1. conn'[b] # NoConnection <=> \E i \in 1 .. n : b = f[i]
        BY <1>5, <3>2 DEF Holding
      <4>2. (\E i \in 1 .. n : b = f[i]) <=> \E k \in 1 .. n - 1 : b = g[k]
        BY <1>10, <1>11, <3>2
      <4> QED
        BY <4>1, <4>2
    <3> QED
      BY <3>1, <3>2
  <2>2. ASSUME NEW i \in 1 .. n - 1, NEW k \in 1 .. n - 1,
               receiver'[g[i]] = receiver'[g[k]]
        PROVE  i = k
    <3>1. PICK x \in 1 .. n : x # j /\ g[i] = f[x]
      BY <1>11
    <3>2. PICK y \in 1 .. n : y # j /\ g[k] = f[y]
      BY <1>11
    <3>3. /\ receiver'[f[x]] = receiver[f[x]]
          /\ receiver'[f[y]] = receiver[f[y]]
      BY <1>1, <1>5, <3>1, <3>2
    <3>4. x = y
      BY <2>2, <3>1, <3>2, <3>3 DEF Holding
    <3> QED
      BY <1>4, <3>1, <3>2, <3>4 DEF Cells
  <2> QED
    BY <2>1, <2>2 DEF Holding
<1>13. next'[f[j]] = next[f[j]]
  BY <1>1, <1>6, <1>7
<1> QED
  BY <1>4, <1>9, <1>12, <1>13 DEF g

-----------------------------------------------------------------------------
(* What the invariant says of the walks.                                   *)

\* The list, its cells named.
LEMMA ListExists ==
  ASSUME ListAndWalk
  PROVE  \E n, f, k : /\ Cells(n, f) /\ Linked(n, f) /\ Holding(n, f)
                      /\ k \in 0 .. n /\ Walked(n, f, k)
                      /\ n <= max_provider_connection
BY DEF ListAndWalk

\* The list after a step, given its cells.
LEMMA ListFound ==
  ASSUME NEW n, NEW f, NEW k, Cells(n, f), k \in 0 .. n,
         Linked(n, f)', Holding(n, f)', Walked(n, f, k)',
         n <= max_provider_connection'
  PROVE  ListAndWalk'
BY DEF ListAndWalk, Cells

\* search_provider_connection finds the connection with the peer.
LEMMA SearchFinds ==
  ASSUME ListAndWalk, NEW p
  PROVE  SearchProviderConnection(p) = {a \in Allocated : receiver[a] = p}
<1>1. PICK n, f, k : Cells(n, f) /\ Linked(n, f) /\ Holding(n, f)
  BY ListExists
<1>2. Listed = Allocated /\ IsFiniteSet(Allocated) /\ Cardinality(Allocated) = n
  BY <1>1, ListedCells
<1>3. Cardinality(Allocated) <= Cardinality(Cell) /\ Cardinality(Cell) \in Nat
  BY PoolAssumption, FS_Subset, FS_CardinalityType DEF Allocated
<1>4. \A m \in Nat : Nth[m] = Entry(n, f, m + 1)
  BY <1>1, NthIsEntry
<1>5. ASSUME NEW m \in 0 .. Cardinality(Cell), Nth[m] # NULL
      PROVE  Nth[m] \in Allocated
  BY <1>2, <1>5 DEF Listed
<1>6. ASSUME NEW a \in Allocated, receiver[a] = p
      PROVE  a \in SearchProviderConnection(p)
  <2>1. n \in Nat
    BY <1>1 DEF Cells
  <2>2. PICK i \in 1 .. n : a = f[i]
    BY <1>1 DEF Holding, Allocated
  <2>3. i - 1 \in Nat /\ i - 1 \in 0 .. Cardinality(Cell) /\ i - 1 + 1 = i
    BY <1>2, <1>3, <2>1
  <2>4. Nth[i - 1] = a /\ a # NULL
    BY <1>4, <2>2, <2>3, PoolAssumption DEF Entry, Allocated
  <2>5. ASSUME NEW j \in 0 .. i - 1 - 1
        PROVE  receiver[Nth[j]] # p
    <3>1. j \in Nat /\ j + 1 \in 1 .. n /\ j + 1 # i
      BY <2>1
    <3>2. Nth[j] = f[j + 1]
      BY <1>4, <3>1 DEF Entry
    <3> QED
      BY <1>1, <1>6, <2>2, <3>1, <3>2 DEF Holding
  <2> QED
    BY <1>6, <2>3, <2>4, <2>5 DEF SearchProviderConnection
<1>7. SearchProviderConnection(p) \subseteq {a \in Allocated : receiver[a] = p}
  BY <1>5 DEF SearchProviderConnection
<1> QED
  BY <1>6, <1>7

\* The cell a walk stands on is allocated and its peer not yet handled; at
\* the end of the walk every peer with a connection is.
WalkIs ==
  pc \in {"timeouts", "send"} =>
    /\ temp # NULL => temp \in Allocated /\ receiver[temp] \notin handled
    /\ temp = NULL => \A a \in Allocated : receiver[a] \in handled

\* It follows from the invariant.
LEMMA WalkIsWell == ListAndWalk => WalkIs
<1> SUFFICES ASSUME ListAndWalk, pc \in {"timeouts", "send"}
             PROVE  /\ temp # NULL =>
                         temp \in Allocated /\ receiver[temp] \notin handled
                    /\ temp = NULL =>
                         \A a \in Allocated : receiver[a] \in handled
  BY DEF WalkIs
<1>1. PICK n, f, k : /\ Cells(n, f) /\ Holding(n, f)
                     /\ k \in 0 .. n /\ Walked(n, f, k)
  BY ListExists
<1>2. /\ n \in Nat
      /\ temp = Entry(n, f, k + 1)
      /\ \A i \in 1 .. n : receiver[f[i]] \in handled <=> i <= k
      /\ \A i \in 1 .. n : f[i] \in Cell /\ f[i] # NULL
  BY <1>1, PoolAssumption DEF Cells, Walked
<1>3. ASSUME temp # NULL
      PROVE  temp \in Allocated /\ receiver[temp] \notin handled
  <2>1. k + 1 \in 1 .. n /\ temp = f[k + 1]
    BY <1>2, <1>3 DEF Entry
  <2>2. ~(k + 1 <= k)
    BY <1>1
  <2> QED
    BY <1>1, <1>2, <2>1, <2>2 DEF Holding, Allocated
<1>4. ASSUME temp = NULL, NEW a \in Allocated
      PROVE  receiver[a] \in handled
  <2>1. PICK i \in 1 .. n : a = f[i]
    BY <1>1 DEF Holding, Allocated
  <2>2. k + 1 \notin 1 .. n
    BY <1>2, <1>4 DEF Entry
  <2>3. i <= k
    BY <1>1, <1>2, <2>2
  <2> QED
    BY <1>2, <2>1, <2>3
<1> QED
  BY <1>3, <1>4

\* A walk begins before the first cell.
LEMMA WalkStarts ==
  ASSUME NEW n, NEW f, Linked(n, f)', StartWalk, pc' \in {"timeouts", "send"},
         Cells(n, f)
  PROVE  Walked(n, f, 0)' /\ 0 \in 0 .. n
<1>1. temp' = Entry(n, f, 0 + 1) /\ handled' = {}
  BY DEF Linked, StartWalk
<1>2. \A i \in 1 .. n : ~(i <= 0)
  BY DEF Cells
<1> QED
  BY <1>1, <1>2 DEF Walked, Cells

-----------------------------------------------------------------------------
(* The initial state and the steps of the loop.                            *)

\* A connection that is sound and not finished, or none.
Lasting(c) == Sound(c) /\ c.last_packet_acked < CHUNK_DATA_NUM

\* A connection is not NoConnection.
LEMMA LastingIsConnection ==
  ASSUME NEW c, Lasting(c)
  PROVE  c # NoConnection
BY PoolAssumption DEF Lasting, Sound

\* A step that changes the connection of one cell.
LEMMA ConnectionSet ==
  ASSUME PoolTypeOK, SoundConnections,
         NEW a \in Cell, NEW c, c = NoConnection \/ Lasting(c),
         conn' = [conn EXCEPT ![a] = c]
  PROVE  /\ conn' \in [Cell -> ProviderConnection \cup {NoConnection}]
         /\ SoundConnections'
<1>1. c \in ProviderConnection \cup {NoConnection}
  BY DEF Lasting, Sound
<1>2. \A b \in Cell : conn'[b] = IF b = a THEN c ELSE conn[b]
  BY DEF PoolTypeOK
<1> QED
  BY <1>1, <1>2 DEF PoolTypeOK, SoundConnections, Lasting

\* init_connections leaves an empty list.
LEMMA InitInv ==
  ASSUME Init
  PROVE  IInv
<1>1. PoolTypeOK /\ SoundConnections
  BY PoolAssumption DEF Init, PoolTypeOK, SoundConnections
<1>2. ListAndWalk
  <2> DEFINE f == [i \in 1 .. 0 |-> NULL]
  <2>1. 0 \in Nat /\ 0 \in 0 .. 0 /\ \A i \in 1 .. 0 : FALSE
    OBVIOUS
  <2>2. f \in [1 .. 0 -> Cell]
    BY <2>1
  <2> HIDE DEF f
  <2>3. 0 <= max_provider_connection
    BY <1>1 DEF PoolTypeOK
  <2>4. Cells(0, f) /\ Linked(0, f) /\ Holding(0, f) /\ Walked(0, f, 0)
    BY <2>1, <2>2 DEF Init, Cells, Linked, Holding, Walked, Entry
  <2> QED
    BY <2>1, <2>2, <2>3, <2>4 DEF ListAndWalk
<1> QED
  BY <1>1, <1>2 DEF IInv

\* select returns, and time has passed.
LEMMA SelectInv ==
  ASSUME IInv, NEW dt \in {0, 1}, Select(dt)
  PROVE  IInv'
<1> USE DEF IInv
<1>1. ASSUME NEW a \in Cell
      PROVE  /\ conn'[a] # NoConnection <=> conn[a] # NoConnection
             /\ conn[a] # NoConnection => Lasting(conn'[a])
             /\ conn'[a] \in ProviderConnection \cup {NoConnection}
  <2>1. conn'[a] = IF conn[a] # NoConnection THEN Elapse(conn[a], dt)
                                             ELSE NoConnection
    BY DEF Select, Allocated
  <2>2. CASE conn[a] # NoConnection
    <3>1. Lasting(Elapse(conn[a], dt))
      BY <2>2, ElapseSound DEF SoundConnections, Lasting
    <3> QED
      BY <2>1, <2>2, <3>1, LastingIsConnection DEF Lasting, Sound
  <2>3. CASE conn[a] = NoConnection
    BY <2>1, <2>3
  <2> QED
    BY <2>2, <2>3
<1>2. PoolTypeOK'
  <2>1. conn' \in [Cell -> ProviderConnection \cup {NoConnection}]
    BY <1>1 DEF Select
  <2> QED
    BY <2>1 DEF PoolTypeOK, Select
<1>3. SoundConnections'
  BY <1>1 DEF SoundConnections, Lasting
<1>4. ListAndWalk'
  <2>1. PICK n, f, k : /\ Cells(n, f) /\ Linked(n, f) /\ Holding(n, f)
                       /\ k \in 0 .. n /\ Walked(n, f, k)
                       /\ n <= max_provider_connection
    BY ListExists
  <2>2. Linked(n, f)' /\ Holding(n, f)'
    BY <1>1, <2>1, KeptList DEF Select
  <2>3. Walked(n, f, k)' /\ n <= max_provider_connection'
    BY <2>1 DEF Select, Walked
  <2> QED
    BY <2>1, <2>2, <2>3, ListFound
<1> QED
  BY <1>2, <1>3, <1>4

\* A step that leaves the list and its connections as they are, and begins
\* a walk or ends the turn.
LEMMA ListUntouched ==
  ASSUME IInv, UNCHANGED <<max_provider_connection, list_vars>>,
         pc' \in {"select", "packet", "timeouts", "send"},
         pc' \in {"timeouts", "send"} => StartWalk,
         pc' \in {"select", "packet"} => temp' = NULL
  PROVE  IInv'
<1> USE DEF IInv
<1>1. PoolTypeOK' /\ SoundConnections'
  BY DEF PoolTypeOK, SoundConnections, list_vars
<1>2. PICK n, f, k : /\ Cells(n, f) /\ Linked(n, f) /\ Holding(n, f)
                     /\ k \in 0 .. n /\ Walked(n, f, k)
                     /\ n <= max_provider_connection
  BY ListExists
<1>3. Linked(n, f)' /\ Holding(n, f)'
  BY <1>2, KeptList DEF list_vars
<1>4. 0 \in 0 .. n /\ Walked(n, f, 0)'
  <2>1. CASE pc' \in {"timeouts", "send"}
    BY <1>2, <1>3, <2>1, WalkStarts
  <2>2. CASE pc' \in {"select", "packet"}
    BY <1>2, <2>2 DEF Walked, Cells
  <2> QED
    BY <2>1, <2>2
<1> QED
  BY <1>1, <1>2, <1>3, <1>4, ListFound

\* A GET is accepted: the limit is tested before the connection is made.
LEMMA AcceptGetInv ==
  ASSUME IInv, NEW p \in Peer, NEW chunk \in Chunk, AcceptGet(p, chunk)
  PROVE  IInv'
<1> USE DEF IInv
<1> DEFINE c == InitProviderConnection(chunk)
<1>1. Lasting(c)
  <2>1. c.last_packet_acked = 0
    BY DEF InitProviderConnection
  <2> QED
    BY <2>1, InitSound, ControlAssumption DEF Lasting
<1>2. c # NoConnection
  BY <1>1, LastingIsConnection
<1> HIDE DEF c
<1>3. PICK a \in Cell \ Allocated :
             /\ AddProviderConnection(a)
             /\ receiver' = [receiver EXCEPT ![a] = p]
             /\ conn' = [conn EXCEPT ![a] = c]
  BY DEF AcceptGet, c
<1>4. PICK n, f, k : /\ Cells(n, f) /\ Linked(n, f) /\ Holding(n, f)
                     /\ k \in 0 .. n /\ Walked(n, f, k)
                     /\ n <= max_provider_connection
  BY ListExists
<1>5. PoolTypeOK' /\ SoundConnections'
  <2>1. SoundConnections'
        /\ conn' \in [Cell -> ProviderConnection \cup {NoConnection}]
    BY <1>1, <1>3, ConnectionSet
  <2>2. head \in Cell \cup {NULL}
    BY <1>4 DEF Linked, Entry, Cells
  <2>3. /\ next' \in [Cell -> Cell \cup {NULL}]
        /\ receiver' \in [Cell -> Peer \cup {NULL}]
    BY <1>3, <2>2 DEF AddProviderConnection, PoolTypeOK
  <2> QED
    BY <2>1, <2>3 DEF PoolTypeOK, AcceptGet
<1>6. n \in Nat /\ n + 1 <= max_provider_connection
  <2>1. Listed = Allocated /\ Cardinality(Allocated) = n
    BY <1>4, ListedCells
  <2> QED
    BY <1>4, <2>1
    DEF AcceptGet, BelowLimit, GetProviderConnectionNumber, Cells, PoolTypeOK
<1>7. \A i \in 1 .. n : receiver[f[i]] # p
  <2>1. {b \in Allocated : receiver[b] = p} = {}
    BY SearchFinds DEF AcceptGet
  <2>2. \A i \in 1 .. n : f[i] \in Allocated
    BY <1>4 DEF Holding, Allocated, Cells
  <2> QED
    BY <2>1, <2>2
<1> DEFINE g == Added(n, f, a)
<1>8. Cells(n + 1, g) /\ Linked(n + 1, g)' /\ Holding(n + 1, g)'
  BY <1>2, <1>3, <1>4, <1>7, AddedList
<1> HIDE DEF g
<1>9. 0 \in 0 .. n + 1 /\ Walked(n + 1, g, 0)'
  BY <1>8, WalkStarts DEF AcceptGet
<1>10. n + 1 <= max_provider_connection'
  BY <1>6 DEF AcceptGet
<1>11. ListAndWalk'
  BY <1>8, <1>9, <1>10, ListFound
<1> QED
  BY <1>5, <1>11

\* A connection that is kept, with other fields, leaves the list as it is.
LEMMA BecomesKeepsList ==
  ASSUME PoolTypeOK, SoundConnections,
         NEW n, NEW f, Cells(n, f), Linked(n, f), Holding(n, f),
         NEW a \in Allocated, NEW c, Lasting(c), Becomes(a, c)
  PROVE  /\ Linked(n, f)' /\ Holding(n, f)'
         /\ SoundConnections'
         /\ next' \in [Cell -> Cell \cup {NULL}]
         /\ receiver' \in [Cell -> Peer \cup {NULL}]
         /\ conn' \in [Cell -> ProviderConnection \cup {NoConnection}]
<1>1. a \in Cell /\ conn[a] # NoConnection /\ c # NoConnection
  BY LastingIsConnection DEF Allocated
<1>2. \A b \in Cell : conn'[b] # NoConnection <=> conn[b] # NoConnection
  BY <1>1 DEF Becomes, PoolTypeOK
<1>3. Linked(n, f)' /\ Holding(n, f)'
  BY <1>2, KeptList DEF Becomes
<1>4. /\ conn' \in [Cell -> ProviderConnection \cup {NoConnection}]
      /\ SoundConnections'
  BY <1>1, ConnectionSet DEF Becomes
<1> QED
  BY <1>3, <1>4 DEF Becomes, PoolTypeOK

\* One that is finished leaves the list without it.
LEMMA FinishKeepsTypes ==
  ASSUME PoolTypeOK, SoundConnections, NEW n, NEW f, Cells(n, f), Linked(n, f),
         NEW j \in 1 .. n, FinishProviderConnection(f[j])
  PROVE  /\ SoundConnections'
         /\ next' \in [Cell -> Cell \cup {NULL}]
         /\ receiver' \in [Cell -> Peer \cup {NULL}]
         /\ conn' \in [Cell -> ProviderConnection \cup {NoConnection}]
<1>1. f[j] \in Cell
  BY DEF Cells
<1>2. /\ conn' \in [Cell -> ProviderConnection \cup {NoConnection}]
      /\ SoundConnections'
  BY <1>1, ConnectionSet DEF FinishProviderConnection
<1>3. /\ next' \in [Cell -> Cell \cup {NULL}]
      /\ receiver' \in [Cell -> Peer \cup {NULL}]
  BY <1>1 DEF FinishProviderConnection, RemoveProviderConnection, PoolTypeOK
<1> QED
  BY <1>2, <1>3

\* An ACK: the connection goes on, or its chunk is sent completely.
LEMMA ReceiveAckInv ==
  ASSUME IInv, NEW p \in Peer, NEW ack_number \in 0 .. CHUNK_DATA_NUM,
         ReceiveAck(p, ack_number)
  PROVE  IInv'
<1> USE DEF IInv
<1>1. PICK a \in SearchProviderConnection(p) :
             LET c == ProviderControlByAck(conn[a], ack_number)
             IN  IF c.last_packet_acked = CHUNK_DATA_NUM
                   THEN FinishProviderConnection(a)
                   ELSE Becomes(a, c)
  BY DEF ReceiveAck
<1> DEFINE c == ProviderControlByAck(conn[a], ack_number)
<1>2. a \in Allocated /\ a \in Cell /\ Sound(conn[a])
  BY SearchFinds DEF Allocated, SoundConnections
<1>3. Sound(c)
  BY <1>2, ProviderControlByAckSound
<1>4. /\ c.last_packet_acked = CHUNK_DATA_NUM => FinishProviderConnection(a)
      /\ c.last_packet_acked # CHUNK_DATA_NUM => Becomes(a, c)
  BY <1>1
<1> HIDE DEF c
<1>5. PICK n, f, k : /\ Cells(n, f) /\ Linked(n, f) /\ Holding(n, f)
                     /\ k \in 0 .. n /\ Walked(n, f, k)
                     /\ n <= max_provider_connection
  BY ListExists
<1>6. /\ pc' = "timeouts" /\ StartWalk
      /\ max_provider_connection' = max_provider_connection
  BY DEF ReceiveAck
<1>7. CASE c.last_packet_acked = CHUNK_DATA_NUM
  <2>1. PICK j \in 1 .. n : a = f[j]
    BY <1>2, <1>5 DEF Holding, Allocated
  <2>2. FinishProviderConnection(f[j])
    BY <1>4, <1>7, <2>1
  <2>3. PoolTypeOK' /\ SoundConnections'
    BY <1>5, <1>6, <2>2, FinishKeepsTypes DEF PoolTypeOK
  <2> DEFINE g == Removed(n, f, j)
  <2>4. Cells(n - 1, g) /\ Linked(n - 1, g)' /\ Holding(n - 1, g)'
    BY <1>5, <2>2, RemovedList
  <2> HIDE DEF g
  <2>5. 0 \in 0 .. n - 1 /\ Walked(n - 1, g, 0)'
    BY <1>6, <2>4, WalkStarts
  <2>6. n - 1 <= max_provider_connection'
    BY <1>5, <1>6 DEF Cells, PoolTypeOK
  <2> QED
    BY <2>3, <2>4, <2>5, <2>6, ListFound
<1>8. CASE c.last_packet_acked # CHUNK_DATA_NUM
  <2>1. Lasting(c)
    <3>1. c.last_packet_acked \in 0 .. CHUNK_DATA_NUM
      BY <1>3 DEF Sound, ProviderConnection
    <3> QED
      BY <1>3, <1>8, <3>1, ControlAssumption DEF Lasting
  <2>2. /\ Linked(n, f)' /\ Holding(n, f)'
        /\ SoundConnections'
        /\ next' \in [Cell -> Cell \cup {NULL}]
        /\ receiver' \in [Cell -> Peer \cup {NULL}]
        /\ conn' \in [Cell -> ProviderConnection \cup {NoConnection}]
    BY <1>2, <1>4, <1>5, <1>8, <2>1, BecomesKeepsList
  <2>3. PoolTypeOK'
    BY <1>6, <2>2 DEF PoolTypeOK
  <2>4. 0 \in 0 .. n /\ Walked(n, f, 0)'
    BY <1>5, <1>6, <2>2, WalkStarts
  <2> QED
    BY <1>5, <1>6, <2>2, <2>3, <2>4, ListFound
<1> QED
  BY <1>7, <1>8

\* A walk goes on from a cell whose connection is kept.
LEMMA WalkGoesOn ==
  ASSUME IInv, pc \in {"timeouts", "send"}, temp # NULL,
         NEW c, Lasting(c), Becomes(temp, c), StepOn,
         UNCHANGED <<max_provider_connection, pc>>
  PROVE  IInv'
<1> USE DEF IInv
<1>1. PICK n, f, k : /\ Cells(n, f) /\ Linked(n, f) /\ Holding(n, f)
                     /\ k \in 0 .. n /\ Walked(n, f, k)
                     /\ n <= max_provider_connection
  BY ListExists
<1>2. /\ n \in Nat /\ k + 1 \in 1 .. n
      /\ temp = f[k + 1] /\ temp \in Allocated
  <2>1. temp = Entry(n, f, k + 1)
    BY <1>1 DEF Walked
  <2> QED
    BY <1>1, <2>1 DEF Entry, Cells, Allocated, Holding
<1>3. /\ Linked(n, f)' /\ Holding(n, f)'
      /\ SoundConnections'
      /\ next' \in [Cell -> Cell \cup {NULL}]
      /\ receiver' \in [Cell -> Peer \cup {NULL}]
      /\ conn' \in [Cell -> ProviderConnection \cup {NoConnection}]
  BY <1>1, <1>2, BecomesKeepsList
<1>4. PoolTypeOK'
  BY <1>3 DEF PoolTypeOK
<1>5. k + 1 \in 0 .. n /\ Walked(n, f, k + 1)'
  <2>1. temp' = Entry(n, f, k + 1 + 1)
    BY <1>1, <1>2, <1>3 DEF Linked, StepOn
  <2>2. ASSUME NEW i \in 1 .. n
        PROVE  receiver'[f[i]] \in handled' <=> i <= k + 1
    <3>1. receiver'[f[i]] = receiver[f[i]] /\ handled' = handled \cup {receiver[f[k + 1]]}
      BY <1>2 DEF Becomes, StepOn
    <3>2. receiver[f[i]] \in handled <=> i <= k
      BY <1>1 DEF Walked
    <3>3. receiver[f[i]] = receiver[f[k + 1]] <=> i = k + 1
      BY <1>1, <1>2 DEF Holding
    <3> QED
      BY <1>1, <1>2, <3>1, <3>2, <3>3
  <2> QED
    BY <1>1, <1>2, <2>1, <2>2 DEF Walked
<1> QED
  BY <1>1, <1>3, <1>4, <1>5, ListFound

\* A timer of a connection fires or not, or the connection is released and
\* the walk goes on from the cell that was freed.
LEMMA ProviderTimeoutInv ==
  ASSUME IInv, ProviderTimeout
  PROVE  IInv'
<1> USE DEF IInv
<1>1. /\ pc = "timeouts" /\ pc' = pc /\ temp # NULL /\ StepOn
      /\ max_provider_connection' = max_provider_connection
  BY DEF ProviderTimeout
<1>2. temp \in Allocated /\ receiver[temp] \notin handled
  BY <1>1, WalkIsWell DEF WalkIs
<1>3. Lasting(conn[temp])
  BY <1>2 DEF Allocated, SoundConnections, Lasting
<1>4. CASE ~ReceiverCrashed(conn[temp])
  <2> DEFINE c == ProviderControlByTimeout(conn[temp])
  <2>1. Lasting(c)
    BY <1>3, ProviderControlByTimeoutSound DEF Lasting
  <2>2. Becomes(temp, c)
    BY <1>4 DEF ProviderTimeout
  <2> HIDE DEF c
  <2> QED
    BY <1>1, <2>1, <2>2, WalkGoesOn
<1>5. CASE ReceiverCrashed(conn[temp])
  <2>1. FinishProviderConnection(temp)
    BY <1>5 DEF ProviderTimeout
  <2>2. PICK n, f, k : /\ Cells(n, f) /\ Linked(n, f) /\ Holding(n, f)
                       /\ k \in 0 .. n /\ Walked(n, f, k)
                       /\ n <= max_provider_connection
    BY ListExists
  <2>3. n \in Nat /\ k + 1 \in 1 .. n /\ temp = f[k + 1]
    <3>1. temp = Entry(n, f, k + 1)
      BY <1>1, <2>2 DEF Walked
    <3> QED
      BY <1>1, <2>2, <3>1 DEF Entry, Cells
  <2>4. FinishProviderConnection(f[k + 1])
    BY <2>1, <2>3
  <2>5. PoolTypeOK' /\ SoundConnections'
    BY <1>1, <2>2, <2>3, <2>4, FinishKeepsTypes DEF PoolTypeOK
  <2> DEFINE g == Removed(n, f, k + 1)
  <2>6. /\ Cells(n - 1, g) /\ Linked(n - 1, g)' /\ Holding(n - 1, g)'
        /\ next'[f[k + 1]] = next[f[k + 1]]
    BY <2>2, <2>3, <2>4, RemovedList
  <2>7. \A i \in 1 .. n - 1 :
          /\ i <= k => i \in 1 .. n /\ g[i] = f[i]
          /\ ~(i <= k) => i + 1 \in 1 .. n /\ g[i] = f[i + 1]
    BY <2>2, <2>3 DEF Removed
  <2> HIDE DEF g
  <2>8. temp' = Entry(n - 1, g, k + 1)
    <3>1. temp' = Entry(n, f, k + 1 + 1)
      BY <1>1, <2>2, <2>3, <2>6 DEF StepOn, Linked
    <3>2. k + 1 \in 1 .. n - 1 => g[k + 1] = f[k + 1 + 1]
      BY <2>2, <2>3, <2>7
    <3> QED
      BY <2>2, <2>3, <3>1, <3>2 DEF Entry
  <2>9. ASSUME NEW i \in 1 .. n - 1
        PROVE  receiver'[g[i]] \in handled' <=> i <= k
    <3>1. /\ handled' = handled \cup {receiver[f[k + 1]]}
          /\ \A b \in Cell : b # f[k + 1] => receiver'[b] = receiver[b]
      BY <1>1, <2>3, <2>4 DEF StepOn, FinishProviderConnection, PoolTypeOK
    <3>2. PICK x \in 1 .. n : x # k + 1 /\ g[i] = f[x] /\ (x <= k <=> i <= k)
      BY <2>2, <2>3, <2>7
    <3>3. f[x] \in Cell /\ f[x] # f[k + 1] /\ receiver[f[x]] # receiver[f[k + 1]]
      BY <2>2, <2>3, <3>2 DEF Cells, Holding
    <3>4. receiver[f[x]] \in handled <=> x <= k
      BY <1>1, <2>2 DEF Walked
    <3> QED
      BY <3>1, <3>2, <3>3, <3>4
  <2>10. k \in 0 .. n - 1 /\ Walked(n - 1, g, k)'
    BY <1>1, <2>2, <2>3, <2>8, <2>9 DEF Walked
  <2>11. n - 1 <= max_provider_connection'
    BY <1>1, <2>2, <2>3 DEF PoolTypeOK
  <2> QED
    BY <2>5, <2>6, <2>10, <2>11, ListFound
<1> QED
  BY <1>4, <1>5

\* A connection sends one packet, if its window allows it.
LEMMA ProviderSendsInv ==
  ASSUME IInv, ProviderSends
  PROVE  IInv'
<1> USE DEF IInv
<1>1. /\ pc = "send" /\ pc' = pc /\ temp # NULL /\ StepOn
      /\ max_provider_connection' = max_provider_connection
  BY DEF ProviderSends
<1>2. temp \in Allocated
  BY <1>1, WalkIsWell DEF WalkIs
<1>3. Lasting(conn[temp])
  BY <1>2 DEF Allocated, SoundConnections, Lasting
<1> DEFINE c == IF CanSend(conn[temp]) THEN SendDataPacket(conn[temp])
                                       ELSE conn[temp]
<1>4. Lasting(c)
  BY <1>3, SendDataPacketSound DEF Lasting
<1>5. Becomes(temp, c)
  BY DEF ProviderSends
<1> HIDE DEF c
<1> QED
  BY <1>1, <1>4, <1>5, WalkGoesOn

\* The invariant of the list holds in every state of every run of the loop.
THEOREM Invariance == Spec => []IInv
<1>1. Init => IInv
  BY InitInv
<1>2. IInv /\ [Next]_vars => IInv'
  <2> SUFFICES ASSUME IInv, [Next]_vars
               PROVE  IInv'
    OBVIOUS
  <2>1. ASSUME NEW dt \in {0, 1}, Select(dt)
        PROVE  IInv'
    BY <2>1, SelectInv
  <2>2. ASSUME NEW p \in Peer, NEW chunk \in Chunk, AcceptGet(p, chunk)
        PROVE  IInv'
    BY <2>2, AcceptGetInv
  <2>3. CASE IgnorePacket
    BY <2>3, ListUntouched DEF IgnorePacket
  <2>4. ASSUME NEW p \in Peer, NEW n \in 0 .. CHUNK_DATA_NUM, ReceiveAck(p, n)
        PROVE  IInv'
    BY <2>4, ReceiveAckInv
  <2>5. CASE ProviderTimeout
    BY <2>5, ProviderTimeoutInv
  <2>6. CASE EndTimeouts
    BY <2>6, ListUntouched DEF EndTimeouts
  <2>7. CASE ProviderSends
    BY <2>7, ProviderSendsInv
  <2>8. CASE EndTurn
    BY <2>8, ListUntouched DEF EndTurn
  <2>9. CASE UNCHANGED vars
    <3>1. PoolTypeOK' /\ SoundConnections'
      BY <2>9 DEF IInv, PoolTypeOK, SoundConnections, vars, list_vars
    <3>2. PICK n, f, k : /\ Cells(n, f) /\ Linked(n, f) /\ Holding(n, f)
                         /\ k \in 0 .. n /\ Walked(n, f, k)
                         /\ n <= max_provider_connection
      BY ListExists DEF IInv
    <3>3. /\ Linked(n, f)' /\ Holding(n, f)' /\ Walked(n, f, k)'
          /\ n <= max_provider_connection'
      BY <2>9, <3>2 DEF Linked, Holding, Walked, vars, list_vars
    <3>4. ListAndWalk'
      BY <3>2, <3>3, ListFound
    <3> QED
      BY <3>1, <3>4 DEF IInv
  <2> QED
    BY <2>1, <2>2, <2>3, <2>4, <2>5, <2>6, <2>7, <2>8, <2>9 DEF Next
<1> QED
  BY <1>1, <1>2, PTL DEF Spec

\* However the loop adds and removes connections, and frees the one it stands
\* on, the list has all that are allocated and no other, it ends, no peer has
\* two, and there are no more than max_conn.
THEOREM ListStaysWellFormed == Spec => []ListWellFormed
<1>1. IInv => ListWellFormed
  BY ListIsWell DEF IInv, ListIs, ListWellFormed
<1> QED
  BY <1>1, Invariance, PTL

-----------------------------------------------------------------------------
(* The slots.  The functions of control.c that Slot(p) uses are those of   *)
(* this module: nothing in them depends on the loop.                       *)

\* Time.
LEMMA SameElapse ==
  ASSUME NEW p, NEW c, NEW dt
  PROVE  Slot(p)!Elapse(c, dt) = Elapse(c, dt)
BY DEF Slot!Elapse, Elapse, Slot!Older, Older

\* init_provider_connection.
LEMMA SameInit ==
  ASSUME NEW p, NEW chunk
  PROVE  Slot(p)!InitProviderConnection(chunk) = InitProviderConnection(chunk)
BY DEF Slot!InitProviderConnection, InitProviderConnection, Slot!SLOW_START,
       SLOW_START, Slot!RTT_NOT_START, RTT_NOT_START

\* connection_scale_down.
LEMMA SameScaleDown ==
  ASSUME NEW p, NEW c
  PROVE  Slot(p)!ConnectionScaleDown(c) = ConnectionScaleDown(c)
BY DEF Slot!ConnectionScaleDown, ConnectionScaleDown,
       Slot!SlowStartDecrease, SlowStartDecrease,
       Slot!CongestionControlDecrease, CongestionControlDecrease,
       Slot!ChangeConnectionStatus, ChangeConnectionStatus,
       Slot!ChangeWindowSizeTo, ChangeWindowSizeTo,
       Slot!HalvedThreshold, HalvedThreshold, Slot!SLOW_START, SLOW_START,
       Slot!CONGESTION_AVOIDANCE, CONGESTION_AVOIDANCE

\* provider_control_by_ack.
LEMMA SameAck ==
  ASSUME NEW p, NEW c, NEW n
  PROVE  Slot(p)!ProviderControlByAck(c, n) = ProviderControlByAck(c, n)
<1>1. Slot(p)!SetRTT(c, n) = SetRTT(c, n)
  BY DEF Slot!SetRTT, SetRTT, Slot!RTT_NOT_START, RTT_NOT_START
<1>2. \A s : Slot(p)!DuplicateAck(s) = DuplicateAck(s)
  BY SameScaleDown
  DEF Slot!DuplicateAck, DuplicateAck, Slot!ResetSenderBuffer, ResetSenderBuffer
<1>3. \A s : Slot(p)!NewAck(s, n) = NewAck(s, n)
  BY DEF Slot!NewAck, NewAck, Slot!ConnectionScaleUp, ConnectionScaleUp,
         Slot!SlowStartIncrease, SlowStartIncrease,
         Slot!CongestionControlIncrease, CongestionControlIncrease,
         Slot!ChangeConnectionStatus, ChangeConnectionStatus,
         Slot!ChangeWindowSizeTo, ChangeWindowSizeTo,
         Slot!SLOW_START, SLOW_START,
         Slot!CONGESTION_AVOIDANCE, CONGESTION_AVOIDANCE
<1> QED
  BY <1>1, <1>2, <1>3
  DEF Slot!ProviderControlByAck, ProviderControlByAck, Slot!InWindow, InWindow

\* provider_control_by_timeout.
LEMMA SameTimeout ==
  ASSUME NEW p, NEW c
  PROVE  /\ Slot(p)!ProviderControlByTimeout(c) = ProviderControlByTimeout(c)
         /\ Slot(p)!ReceiverCrashed(c) = ReceiverCrashed(c)
BY SameScaleDown
DEF Slot!ProviderControlByTimeout, ProviderControlByTimeout,
    Slot!ResetSenderBuffer, ResetSenderBuffer, Slot!ReceiverCrashed,
    ReceiverCrashed

\* send_data_packet.
LEMMA SameSend ==
  ASSUME NEW p, NEW c
  PROVE  /\ Slot(p)!CanSend(c) = CanSend(c)
         /\ Slot(p)!SendDataPacket(c) = SendDataPacket(c)
BY DEF Slot!CanSend, CanSend, Slot!SendDataPacket, SendDataPacket,
       Slot!RTT_NOT_START, RTT_NOT_START

\* The slot of a peer is the cell allocated for it, or empty.
SlotIs ==
  \A p \in Peer :
    /\ \A a \in Allocated : receiver[a] = p => ConnectionOf(p) = conn[a]
    /\ (\A a \in Allocated : receiver[a] # p) => ConnectionOf(p) = NoConnection

\* It follows from the invariant.
LEMMA SlotIsWell == ListAndWalk => SlotIs
<1> SUFFICES ASSUME ListAndWalk, NEW p \in Peer
             PROVE  /\ \A a \in Allocated :
                         receiver[a] = p => ConnectionOf(p) = conn[a]
                    /\ (\A a \in Allocated : receiver[a] # p)
                         => ConnectionOf(p) = NoConnection
  BY DEF SlotIs
<1>1. /\ Listed = Allocated
      /\ \A a, b \in Allocated : receiver[a] = receiver[b] => a = b
  BY ListIsWell DEF ListIs
<1>2. ASSUME NEW a \in Allocated, receiver[a] = p
      PROVE  ConnectionOf(p) = conn[a]
  <2> DEFINE b == CHOOSE x \in Listed : receiver[x] = p
  <2>1. b \in Listed /\ receiver[b] = p
    BY <1>1, <1>2
  <2>2. b = a
    BY <1>1, <1>2, <2>1
  <2> QED
    BY <1>1, <1>2, <2>2 DEF ConnectionOf
<1>3. ASSUME \A a \in Allocated : receiver[a] # p
      PROVE  ConnectionOf(p) = NoConnection
  BY <1>1, <1>3 DEF ConnectionOf
<1> QED
  BY <1>2, <1>3

\* What happens to a cell of another peer does not change the slot.
LEMMA SlotKept ==
  ASSUME SlotIs, SlotIs', NEW p \in Peer, NEW a,
         \A b \in Cell : b # a => conn'[b] = conn[b] /\ receiver'[b] = receiver[b],
         a \in Allocated => receiver[a] # p,
         a \in Allocated' => receiver'[a] # p
  PROVE  ConnectionOf(p)' = ConnectionOf(p)
<1>1. CASE \A b \in Allocated : receiver[b] # p
  <2>1. \A b \in Allocated' : receiver'[b] # p
    BY <1>1 DEF Allocated
  <2> QED
    BY <1>1, <2>1 DEF SlotIs
<1>2. CASE \E b \in Allocated : receiver[b] = p
  <2>1. PICK b \in Allocated : receiver[b] = p
    BY <1>2
  <2>2. b # a /\ conn'[b] = conn[b] /\ receiver'[b] = p /\ b \in Allocated'
    BY <2>1 DEF Allocated
  <2> QED
    BY <2>1, <2>2 DEF SlotIs
<1> QED
  BY <1>1, <1>2

\* Nor does a step that changes no cell.
LEMMA SlotSame ==
  ASSUME SlotIs, SlotIs', NEW p \in Peer, UNCHANGED list_vars
  PROVE  ConnectionOf(p)' = ConnectionOf(p)
<1>1. CASE \A b \in Allocated : receiver[b] # p
  <2>1. \A b \in Allocated' : receiver'[b] # p
    BY <1>1 DEF Allocated, list_vars
  <2> QED
    BY <1>1, <2>1 DEF SlotIs
<1>2. CASE \E b \in Allocated : receiver[b] = p
  <2>1. PICK b \in Allocated : receiver[b] = p
    BY <1>2
  <2>2. b \in Allocated' /\ receiver'[b] = p /\ conn'[b] = conn[b]
    BY <2>1 DEF Allocated, list_vars
  <2> QED
    BY <2>1, <2>2 DEF SlotIs
<1> QED
  BY <1>1, <1>2

\* A step of the loop, as the slot of p sees it.
SlotStep(p) == [Slot(p)!Next]_(Slot(p)!vars)

\* To a slot it does not concern, a packet is one that is ignored.
LEMMA SlotIgnores ==
  ASSUME NEW p \in Peer, pc = "packet", pc' = "timeouts", StartWalk,
         ConnectionOf(p)' = ConnectionOf(p)
  PROVE  SlotStep(p)
<1>1. PhaseOf(p) = "packet" /\ PhaseOf(p)' = "timeouts"
  BY DEF PhaseOf, StartWalk
<1>2. Slot(p)!IgnorePacket
  BY <1>1 DEF Slot!IgnorePacket
<1> QED
  BY <1>2 DEF SlotStep, Slot!Next

\* Time passes for every slot.
LEMMA SelectSlot ==
  ASSUME IInv, SlotIs, SlotIs', NEW dt \in {0, 1}, Select(dt), NEW p \in Peer
  PROVE  SlotStep(p)
<1>1. PhaseOf(p) = "select" /\ PhaseOf(p)' = "packet"
  BY DEF PhaseOf, Select
<1>2. \A a \in Cell : /\ receiver'[a] = receiver[a]
                      /\ conn[a] # NoConnection =>
                           /\ conn'[a] # NoConnection
                           /\ conn'[a] = Elapse(conn[a], dt)
                      /\ conn[a] = NoConnection => conn'[a] = NoConnection
  <2> SUFFICES ASSUME NEW a \in Cell, conn[a] # NoConnection
               PROVE  Elapse(conn[a], dt) # NoConnection
    BY DEF Select, Allocated
  <2>1. Lasting(Elapse(conn[a], dt))
    BY ElapseSound DEF IInv, SoundConnections, Lasting
  <2> QED
    BY <2>1, LastingIsConnection
<1>3. ConnectionOf(p)' = IF ConnectionOf(p) # NoConnection
                           THEN Elapse(ConnectionOf(p), dt) ELSE ConnectionOf(p)
  <2>1. CASE \A b \in Allocated : receiver[b] # p
    <3>1. \A b \in Allocated' : receiver'[b] # p
      BY <1>2, <2>1 DEF Allocated
    <3> QED
      BY <2>1, <3>1 DEF SlotIs
  <2>2. CASE \E b \in Allocated : receiver[b] = p
    <3>1. PICK b \in Allocated : receiver[b] = p
      BY <2>2
    <3>2. b \in Allocated' /\ receiver'[b] = p
          /\ conn[b] # NoConnection /\ conn'[b] = Elapse(conn[b], dt)
      BY <1>2, <3>1 DEF Allocated
    <3> QED
      BY <3>1, <3>2 DEF SlotIs
  <2> QED
    BY <2>1, <2>2
<1>4. Slot(p)!Select(dt)
  BY <1>1, <1>3, SameElapse DEF Slot!Select, Slot!Connected
<1> QED
  BY <1>4 DEF SlotStep, Slot!Next

\* A GET fills the slot of the peer that sent it.
LEMMA AcceptGetSlot ==
  ASSUME IInv, SlotIs, SlotIs', NEW o \in Peer, NEW chunk \in Chunk,
         AcceptGet(o, chunk), NEW p \in Peer
  PROVE  SlotStep(p)
<1> DEFINE c == InitProviderConnection(chunk)
<1>1. PICK a \in Cell \ Allocated :
             /\ receiver' = [receiver EXCEPT ![a] = o]
             /\ conn' = [conn EXCEPT ![a] = c]
  BY DEF AcceptGet
<1>2. c # NoConnection
  <2>1. Sound(c)
    BY InitSound
  <2> QED
    BY <2>1, PoolAssumption DEF Sound
<1> HIDE DEF c
<1>3. /\ \A b \in Cell : b # a => conn'[b] = conn[b] /\ receiver'[b] = receiver[b]
      /\ a \in Allocated' /\ receiver'[a] = o /\ conn'[a] = c
  BY <1>1, <1>2 DEF IInv, PoolTypeOK, Allocated
<1>4. pc = "packet" /\ pc' = "timeouts" /\ StartWalk
  BY DEF AcceptGet
<1>5. CASE p # o
  <2>1. ConnectionOf(p)' = ConnectionOf(p)
    BY <1>1, <1>3, <1>5, SlotKept
  <2> QED
    BY <1>4, <2>1, SlotIgnores
<1>6. CASE p = o
  <2>1. ConnectionOf(p) = NoConnection
    <3>1. {b \in Allocated : receiver[b] = p} = {}
      BY <1>6, SearchFinds DEF AcceptGet, IInv
    <3> QED
      BY <3>1 DEF SlotIs
  <2>2. ConnectionOf(p)' = c
    BY <1>3, <1>6 DEF SlotIs
  <2>3. PhaseOf(p) = "packet" /\ PhaseOf(p)' = "timeouts"
    BY <1>4 DEF PhaseOf, StartWalk
  <2>4. Slot(p)!AcceptGet(chunk)
    BY <2>1, <2>2, <2>3, SameInit DEF Slot!AcceptGet, Slot!Connected, c
  <2> QED
    BY <2>4 DEF SlotStep, Slot!Next
<1> QED
  BY <1>5, <1>6

\* A step on the connection of cell a: nothing else changes, and the cell
\* keeps its peer or is free.
LEMMA OneCell ==
  ASSUME PoolTypeOK, NEW a \in Allocated, NEW c,
         \/ FinishProviderConnection(a) /\ c = NoConnection
         \/ Becomes(a, c)
  PROVE  /\ \A b \in Cell : b # a => conn'[b] = conn[b] /\ receiver'[b] = receiver[b]
         /\ conn'[a] = c
         /\ c # NoConnection => receiver'[a] = receiver[a]
BY DEF FinishProviderConnection, Becomes, PoolTypeOK, Allocated

\* The slots of the other peers stay as they are, and that of its peer has
\* what the cell has.
LEMMA OneSlot ==
  ASSUME IInv, SlotIs, SlotIs', NEW a \in Allocated, NEW c,
         \/ FinishProviderConnection(a) /\ c = NoConnection
         \/ Becomes(a, c),
         NEW p \in Peer
  PROVE  /\ p # receiver[a] => ConnectionOf(p)' = ConnectionOf(p)
         /\ p = receiver[a] => /\ ConnectionOf(p) = conn[a]
                               /\ ConnectionOf(p)' = c
<1>1. /\ \A b \in Cell : b # a => conn'[b] = conn[b] /\ receiver'[b] = receiver[b]
      /\ conn'[a] = c
      /\ c # NoConnection => receiver'[a] = receiver[a]
  BY OneCell DEF IInv
<1>2. ASSUME p # receiver[a]
      PROVE  ConnectionOf(p)' = ConnectionOf(p)
  <2>1. a \in Allocated' => receiver'[a] # p
    BY <1>1, <1>2 DEF Allocated
  <2> QED
    BY <1>1, <1>2, <2>1, SlotKept
<1>3. ASSUME p = receiver[a]
      PROVE  ConnectionOf(p) = conn[a] /\ ConnectionOf(p)' = c
  <2>1. ConnectionOf(p) = conn[a]
    BY <1>3 DEF SlotIs
  <2>2. CASE c # NoConnection
    <3>1. a \in Allocated' /\ receiver'[a] = p
      BY <1>1, <1>3, <2>2 DEF Allocated
    <3> QED
      BY <1>1, <2>1, <3>1 DEF SlotIs
  <2>3. CASE c = NoConnection
    <3>1. \A b \in Allocated : b # a => receiver[b] # p
      BY <1>3, ListIsWell DEF IInv, ListIs
    <3>2. \A b \in Allocated' : receiver'[b] # p
      BY <1>1, <2>3, <3>1 DEF Allocated
    <3> QED
      BY <2>1, <2>3, <3>2 DEF SlotIs
  <2> QED
    BY <2>2, <2>3, <2>1
<1> QED
  BY <1>2, <1>3

\* An ACK concerns the slot of the peer that sent it.
LEMMA ReceiveAckSlot ==
  ASSUME IInv, SlotIs, SlotIs', NEW o \in Peer,
         NEW n \in 0 .. CHUNK_DATA_NUM, ReceiveAck(o, n), NEW p \in Peer
  PROVE  SlotStep(p)
<1>1. PICK a \in SearchProviderConnection(o) :
             LET c == ProviderControlByAck(conn[a], n)
             IN  IF c.last_packet_acked = CHUNK_DATA_NUM
                   THEN FinishProviderConnection(a)
                   ELSE Becomes(a, c)
  BY DEF ReceiveAck
<1> DEFINE c == ProviderControlByAck(conn[a], n)
           d == IF c.last_packet_acked = CHUNK_DATA_NUM THEN NoConnection ELSE c
<1>2. a \in Allocated /\ receiver[a] = o
  BY SearchFinds DEF IInv
<1>3. (FinishProviderConnection(a) /\ d = NoConnection) \/ Becomes(a, d)
  BY <1>1
<1> HIDE DEF d
<1>4. /\ p # o => ConnectionOf(p)' = ConnectionOf(p)
      /\ p = o => ConnectionOf(p) = conn[a] /\ ConnectionOf(p)' = d
  BY <1>2, <1>3, OneSlot
<1>5. pc = "packet" /\ pc' = "timeouts" /\ StartWalk
  BY DEF ReceiveAck
<1>6. CASE p # o
  BY <1>4, <1>5, <1>6, SlotIgnores
<1>7. CASE p = o
  <2>1. PhaseOf(p) = "packet" /\ PhaseOf(p)' = "timeouts"
    BY <1>5 DEF PhaseOf, StartWalk
  <2>2. ConnectionOf(p) # NoConnection
    BY <1>2, <1>4, <1>7 DEF Allocated
  <2>3. Slot(p)!ProviderControlByAck(ConnectionOf(p), n) = c
    BY <1>4, <1>7, SameAck
  <2>4. ConnectionOf(p)' = IF c.last_packet_acked = CHUNK_DATA_NUM
                             THEN NoConnection ELSE c
    BY <1>4, <1>7 DEF d
  <2> HIDE DEF c
  <2>5. Slot(p)!ReceiveAck(n)
    BY <2>1, <2>2, <2>3, <2>4 DEF Slot!ReceiveAck, Slot!Connected
  <2> QED
    BY <2>5 DEF SlotStep, Slot!Next
<1> QED
  BY <1>6, <1>7

\* A step of a walk concerns the peer of the cell it stands on, which had
\* its part of the turn ahead and now has it behind.
LEMMA WalkPhases ==
  ASSUME IInv, pc \in {"timeouts", "send"}, pc' = pc, temp # NULL, StepOn,
         NEW p
  PROVE  /\ temp \in Allocated
         /\ p # receiver[temp] => PhaseOf(p)' = PhaseOf(p)
         /\ p = receiver[temp] => PhaseOf(p) = pc /\ PhaseOf(p)' = After(pc)
<1>1. temp \in Allocated /\ receiver[temp] \notin handled
  BY WalkIsWell DEF IInv, WalkIs
<1>2. handled' = handled \cup {receiver[temp]}
  BY DEF StepOn
<1> QED
  BY <1>1, <1>2 DEF PhaseOf

\* The timers of one connection are those of its slot.
LEMMA ProviderTimeoutSlot ==
  ASSUME IInv, SlotIs, SlotIs', ProviderTimeout, NEW p \in Peer
  PROVE  SlotStep(p)
<1> DEFINE d == IF ReceiverCrashed(conn[temp]) THEN NoConnection
                ELSE ProviderControlByTimeout(conn[temp])
<1>1. pc = "timeouts" /\ pc' = pc /\ temp # NULL /\ StepOn
  BY DEF ProviderTimeout
<1>2. /\ temp \in Allocated
      /\ p # receiver[temp] => PhaseOf(p)' = PhaseOf(p)
      /\ p = receiver[temp] => PhaseOf(p) = "timeouts" /\ PhaseOf(p)' = "send"
  BY <1>1, WalkPhases DEF After
<1>3. (FinishProviderConnection(temp) /\ d = NoConnection) \/ Becomes(temp, d)
  BY DEF ProviderTimeout
<1> HIDE DEF d
<1>4. /\ p # receiver[temp] => ConnectionOf(p)' = ConnectionOf(p)
      /\ p = receiver[temp] => /\ ConnectionOf(p) = conn[temp]
                               /\ ConnectionOf(p)' = d
  BY <1>2, <1>3, OneSlot
<1>5. CASE p # receiver[temp]
  BY <1>2, <1>4, <1>5 DEF SlotStep, Slot!vars
<1>6. CASE p = receiver[temp]
  <2>1. ConnectionOf(p) # NoConnection
    BY <1>2, <1>4, <1>6 DEF Allocated
  <2>2. Slot(p)!ProvidersTimeout
    BY <1>2, <1>4, <1>6, <2>1, SameTimeout
    DEF Slot!ProvidersTimeout, Slot!Connected, d
  <2> QED
    BY <2>2 DEF SlotStep, Slot!Next
<1> QED
  BY <1>5, <1>6

\* The packet of one connection is that of its slot.
LEMMA ProviderSendsSlot ==
  ASSUME IInv, SlotIs, SlotIs', ProviderSends, NEW p \in Peer
  PROVE  SlotStep(p)
<1> DEFINE d == IF CanSend(conn[temp]) THEN SendDataPacket(conn[temp])
                                       ELSE conn[temp]
<1>1. pc = "send" /\ pc' = pc /\ temp # NULL /\ StepOn
  BY DEF ProviderSends
<1>2. /\ temp \in Allocated
      /\ p # receiver[temp] => PhaseOf(p)' = PhaseOf(p)
      /\ p = receiver[temp] => PhaseOf(p) = "send" /\ PhaseOf(p)' = "select"
  BY <1>1, WalkPhases DEF After
<1>3. Becomes(temp, d)
  BY DEF ProviderSends
<1> HIDE DEF d
<1>4. /\ p # receiver[temp] => ConnectionOf(p)' = ConnectionOf(p)
      /\ p = receiver[temp] => /\ ConnectionOf(p) = conn[temp]
                               /\ ConnectionOf(p)' = d
  BY <1>2, <1>3, OneSlot
<1>5. CASE p # receiver[temp]
  BY <1>2, <1>4, <1>5 DEF SlotStep, Slot!vars
<1>6. CASE p = receiver[temp]
  <2>1. ConnectionOf(p) # NoConnection
    BY <1>2, <1>4, <1>6 DEF Allocated
  <2>2. Slot(p)!AllProviderConnectionSendData
    BY <1>2, <1>4, <1>6, <2>1, SameSend
    DEF Slot!AllProviderConnectionSendData, Slot!Connected, d
  <2> QED
    BY <2>2 DEF SlotStep, Slot!Next
<1> QED
  BY <1>5, <1>6

\* The end of a walk is the part of the turn of the slots that are empty.
LEMMA EndOfWalk ==
  ASSUME IInv, SlotIs, SlotIs', pc \in {"timeouts", "send"}, temp = NULL,
         UNCHANGED list_vars, handled' = {}, pc' = After(pc), NEW p \in Peer
  PROVE  SlotStep(p)
<1>1. ConnectionOf(p)' = ConnectionOf(p)
  BY SlotSame
<1>2. PhaseOf(p)' = After(pc)
  BY DEF PhaseOf, After
<1>3. CASE p \in handled
  <2>1. PhaseOf(p) = After(pc)
    BY <1>3 DEF PhaseOf
  <2> QED
    BY <1>1, <1>2, <2>1 DEF SlotStep, Slot!vars
<1>4. CASE p \notin handled
  <2>1. ConnectionOf(p) = NoConnection
    <3>1. \A a \in Allocated : receiver[a] # p
      BY <1>4, WalkIsWell DEF IInv, WalkIs
    <3> QED
      BY <3>1 DEF SlotIs
  <2>2. PhaseOf(p) = pc
    BY <1>4 DEF PhaseOf
  <2>3. CASE pc = "timeouts"
    <3>1. Slot(p)!ProvidersTimeout
      BY <1>1, <1>2, <2>1, <2>2, <2>3
      DEF Slot!ProvidersTimeout, Slot!Connected, After
    <3> QED
      BY <3>1 DEF SlotStep, Slot!Next
  <2>4. CASE pc = "send"
    <3>1. Slot(p)!AllProviderConnectionSendData
      BY <1>1, <1>2, <2>1, <2>2, <2>4
      DEF Slot!AllProviderConnectionSendData, Slot!Connected, After
    <3> QED
      BY <3>1 DEF SlotStep, Slot!Next
  <2> QED
    BY <2>3, <2>4
<1> QED
  BY <1>3, <1>4

\* Every step of the loop is a step of each slot, or none.
LEMMA SlotsStep ==
  ASSUME IInv, SlotIs, SlotIs', Next, NEW p \in Peer
  PROVE  SlotStep(p)
<1>1. ASSUME NEW dt \in {0, 1}, Select(dt)
      PROVE  SlotStep(p)
  BY <1>1, SelectSlot
<1>2. ASSUME NEW o \in Peer, NEW chunk \in Chunk, AcceptGet(o, chunk)
      PROVE  SlotStep(p)
  BY <1>2, AcceptGetSlot
<1>3. CASE IgnorePacket
  <2>1. ConnectionOf(p)' = ConnectionOf(p)
    BY <1>3, SlotSame DEF IgnorePacket
  <2> QED
    BY <1>3, <2>1, SlotIgnores DEF IgnorePacket
<1>4. ASSUME NEW o \in Peer, NEW n \in 0 .. CHUNK_DATA_NUM, ReceiveAck(o, n)
      PROVE  SlotStep(p)
  BY <1>4, ReceiveAckSlot
<1>5. CASE ProviderTimeout
  BY <1>5, ProviderTimeoutSlot
<1>6. CASE EndTimeouts
  BY <1>6, EndOfWalk DEF EndTimeouts, StartWalk, After
<1>7. CASE ProviderSends
  BY <1>7, ProviderSendsSlot
<1>8. CASE EndTurn
  BY <1>8, EndOfWalk DEF EndTurn, After
<1> QED
  BY <1>1, <1>2, <1>3, <1>4, <1>5, <1>6, <1>7, <1>8 DEF Next

\* Every turn runs the timers of every connection once and then lets it send
\* once, whatever becomes of the others: for each peer the list implements
\* the one slot of Provider.
THEOREM EveryPeerHasASlot == Spec => SlotForEveryPeer
<1>1. Init => \A p \in Peer : Slot(p)!Init
  <2> SUFFICES ASSUME Init, NEW p \in Peer
               PROVE  Slot(p)!Init
    OBVIOUS
  <2>1. ConnectionOf(p) = NoConnection
    <3>1. SlotIs
      BY InitInv, SlotIsWell DEF IInv
    <3> QED
      BY <3>1 DEF SlotIs, Allocated, Init
  <2> QED
    BY <2>1 DEF Slot!Init, PhaseOf, Init
<1>2. IInv => SlotIs
  BY SlotIsWell DEF IInv
<1>3. IInv /\ SlotIs /\ SlotIs' /\ [Next]_vars
        => [\A p \in Peer : [Slot(p)!Next]_(Slot(p)!vars)]_vars
  BY SlotsStep DEF SlotStep
<1> QED
  BY <1>1, <1>2, <1>3, Invariance, PTL DEF Spec, SlotForEveryPeer

\* So the windows are respected in every connection of the list: what
\* send_data_packet calls an error happens in none of them.
THEOREM EveryWindowIsRespected ==
  Spec => [](\A p \in Peer : Slot(p)!WindowRespected)
<1>1. IInv => \A p \in Peer : Slot(p)!WindowRespected
  <2> SUFFICES ASSUME IInv, NEW p \in Peer
               PROVE  Slot(p)!WindowRespected
    OBVIOUS
  <2>1. ConnectionOf(p) # NoConnection => Lasting(ConnectionOf(p))
    BY SlotIsWell DEF IInv, SlotIs, SoundConnections, Lasting, Allocated
  <2> QED
    BY <2>1 DEF Slot!WindowRespected, Slot!Connected, Lasting, Sound
<1> QED
  BY <1>1, Invariance, PTL

=============================================================================
