-------------------------- MODULE SimulatorProofs ---------------------------
(***************************************************************************)
(* What holds of the network simulator for any number of routers, any      *)
(* connected map and any packets: the routing tables lead along shortest   *)
(* ways, select never waits longer than the first packet of a queue, and   *)
(* the packets of a flow keep their order: the simulator implements Links. *)
(***************************************************************************)
EXTENDS Simulator, NaturalsOrder, FiniteSetTheorems, SequenceTheorems

\* What is in a queue: a packet, and how long it waits.
Entry == [packet : Packet, txTime : Nat]

LoopTypeOK ==
  /\ pc \in {"tables", "select", "run"}
  /\ socket \in Seq(Packet)
  /\ queue \in [Router -> [Router -> Seq(Entry)]]
  /\ runRouters \in Seq(Router)
  /\ sleepSeconds \in Nat \cup {Undefined}
  /\ sent \in 0 .. MaxPackets

\* select waits no longer than for the first packets of router a.
Awaited(a) ==
  \A b \in Router : queue[a][b] # <<>> =>
    /\ sleepSeconds # Undefined
    /\ sleepSeconds <= queue[a][b][1].txTime

ToRun(a) == \E k \in 1 .. Len(runRouters) : runRouters[k] = a

\* The packets of every router are awaited, or the router is still to run.
NobodyForgotten ==
  /\ \A a \in Router : Awaited(a) \/ ToRun(a)
  /\ pc # "run" => runRouters = <<>>

LoopInv == LoopTypeOK /\ NobodyForgotten

-----------------------------------------------------------------------------
(* Queues.                                                                 *)

\* The numbers among the constants.
LEMMA Numbers ==
  /\ N \in Nat \ {0}
  /\ INFINITY \in Nat
  /\ N + 1 < INFINITY
  /\ Size \subseteq Nat \ {0}
  /\ Latency \in Nat
  /\ MaxPackets \in Nat
  /\ Undefined \notin Nat
BY SimulatorAssumption DEF INFINITY

\* A flow is from a router to another one.
LEMMA FlowsAreOfRouters ==
  ASSUME NEW f \in Flow
  PROVE  f[1] \in Router /\ f[2] \in Router /\ f[1] # f[2]
BY SimulatorAssumption

\* The packets of a queue have a total size.
LEMMA TotalSizeIsNat ==
  ASSUME NEW q \in Seq(Entry)
  PROVE  TotalSize(q) \in Nat
<1> DEFINE n == Len(q)
           Total(f) == f = [k \in 0 .. n |->
                              IF k = 0 THEN 0
                              ELSE f[k - 1] + q[k].packet.size]
           step == [k \in 1 .. n |-> [x \in Nat |-> x + q[k].packet.size]]
<1>1. n \in Nat
  BY LenProperties
<1>2. \A k \in 1 .. n : q[k].packet.size \in Nat
  <2> TAKE k \in 1 .. n
  <2>1. q[k] \in Entry
    BY <1>1, ElementOfSeq
  <2> QED
    BY <2>1, Numbers DEF Entry, Packet
<1>3. step \in [1 .. n -> [Nat -> Nat]]
  BY <1>2
<1>4. PICK f \in [0 .. n -> Nat] :
        f[0] = 0 /\ \A k \in 1 .. n : f[k] = step[k][f[k - 1]]
  <2>1. Iterates(n, Nat, 0, step)
    <3> HIDE DEF step, n
    <3> QED
      BY <1>1, <1>3, Recursion
  <2> QED
    BY <2>1 DEF Iterates
<1>5. Total(f)
  <2>1. \A k \in 1 .. n : step[k][f[k - 1]] = f[k - 1] + q[k].packet.size
    BY <1>1
  <2>2. \A k \in 0 .. n : f[k] = IF k = 0 THEN 0
                                 ELSE f[k - 1] + q[k].packet.size
    <3> HIDE DEF step
    <3> QED
      BY <1>1, <1>4, <2>1
  <2> HIDE DEF n
  <2> QED
    BY <2>2
<1>6. TotalSize(q) = (CHOOSE g : Total(g))[n]
  BY DEF TotalSize
<1>7. Total(CHOOSE g : Total(g))
  BY <1>5
<1> DEFINE h == CHOOSE g : Total(g)
<1> HIDE DEF h
<1>8. h = [k \in 0 .. n |-> IF k = 0 THEN 0 ELSE h[k - 1] + q[k].packet.size]
  BY <1>7 DEF h
<1> DEFINE Good == {k \in Nat : k <= n => h[k] \in Nat}
<1>9. 0 \in Good
  BY <1>1, <1>8
<1>10. \A k \in Nat : k \in Good => k + 1 \in Good
  <2> SUFFICES ASSUME NEW k \in Nat, k \in Good, k + 1 <= n
               PROVE  h[k + 1] \in Nat
    OBVIOUS
  <2>1. h[k] \in Nat /\ k + 1 \in 1 .. n
    BY <1>1
  <2>2. h[k + 1] = h[k] + q[k + 1].packet.size
    BY <1>1, <1>8, <2>1
  <2> QED
    BY <1>2, <2>1, <2>2
<1>11. n \in Good
  <2> HIDE DEF Good
  <2> QED
    BY <1>1, <1>9, <1>10, SetInduction
<1> QED
  BY <1>1, <1>6, <1>11 DEF h

\* A packet that is put in a queue waits there, as the last one, or is dropped.
LEMMA EnQKeeps ==
  ASSUME NEW q \in Seq(Entry), NEW packet \in Packet
  PROVE  /\ EnQ(q, packet) \in Seq(Entry)
         /\ \/ EnQ(q, packet) = q
            \/ \E e \in Entry : e.packet = packet /\ EnQ(q, packet) = Append(q, e)
<1> DEFINE wait == Latency + packet.size + TotalSize(q)
           e == [packet |-> packet, txTime |-> wait]
<1>1. packet.size \in Nat
  BY Numbers DEF Packet
<1>2. wait \in Nat
  BY <1>1, TotalSizeIsNat, Numbers
<1>3. e \in Entry
  <2> HIDE DEF wait
  <2> QED
    BY <1>2 DEF Entry
<1>4. Append(q, e) \in Seq(Entry)
  <2> HIDE DEF e
  <2> QED
    BY <1>3, AppendProperties
<1>5. e.packet = packet
  OBVIOUS
<1>6. EnQ(q, packet) = q \/ EnQ(q, packet) = Append(q, e)
  BY DEF EnQ
<1> HIDE DEF e
<1> QED
  BY <1>3, <1>4, <1>5, <1>6

\* Whether b passes a packet on to c.
Passes(b, c, packet) ==
  packet.flow[2] # b /\ routingTable[b][packet.flow[2]] = c

\* A run of QueueAt: the queue after the first k packets.
QueueAtRun(b, c, q, packets, h) ==
  /\ h \in [0 .. Len(packets) -> Seq(Entry)]
  /\ h[0] = q
  /\ \A k \in 1 .. Len(packets) :
       h[k] = IF Passes(b, c, packets[k]) THEN EnQ(h[k - 1], packets[k])
                                          ELSE h[k - 1]

\* QueueAt is the end of its run.
LEMMA QueueAtHasRun ==
  ASSUME NEW b, NEW c, NEW q \in Seq(Entry), NEW packets \in Seq(Packet)
  PROVE  \E h : /\ QueueAtRun(b, c, q, packets, h)
               /\ QueueAt(b, c, q, packets) = h[Len(packets)]
<1> DEFINE n == Len(packets)
           S == Seq(Entry)
           After(x, k) == IF Passes(b, c, packets[k]) THEN EnQ(x, packets[k])
                                                      ELSE x
           Enqueued(f) == f = [k \in 0 .. n |-> IF k = 0 THEN q
                                                ELSE After(f[k - 1], k)]
           step == [k \in 1 .. n |-> [x \in S |-> After(x, k)]]
<1>1. n \in Nat
  BY LenProperties
<1>2. \A k \in 1 .. n : \A x \in S : After(x, k) \in S
  <2> TAKE k \in 1 .. n
  <2>1. packets[k] \in Packet
    BY <1>1, ElementOfSeq
  <2> QED
    BY <2>1, EnQKeeps
<1>3. step \in [1 .. n -> [S -> S]]
  <2> HIDE DEF After, n, S
  <2> QED
    BY <1>2
<1>4. PICK f \in [0 .. n -> S] :
        f[0] = q /\ \A k \in 1 .. n : f[k] = step[k][f[k - 1]]
  <2>1. Iterates(n, S, q, step)
    <3>1. q \in S
      OBVIOUS
    <3> HIDE DEF step, n, S
    <3> QED
      BY <1>1, <1>3, <3>1, Recursion
  <2> QED
    BY <2>1 DEF Iterates
<1> HIDE DEF S
<1>5. \A k \in 1 .. n : f[k] = After(f[k - 1], k)
  <2>1. \A k \in 1 .. n : k - 1 \in 0 .. n
    BY <1>1
  <2>2. \A k \in 1 .. n : step[k][f[k - 1]] = After(f[k - 1], k)
    <3> HIDE DEF After
    <3> QED
      BY <1>1, <1>4, <2>1
  <2> HIDE DEF step
  <2> QED
    BY <1>4, <2>2
<1>6. Enqueued(f)
  <2> HIDE DEF n, After
  <2>1. \A k \in 0 .. n : f[k] = IF k = 0 THEN q ELSE After(f[k - 1], k)
    BY <1>1, <1>4, <1>5
  <2> QED
    BY <1>4, <2>1
<1> DEFINE h == CHOOSE g : Enqueued(g)
<1>7. QueueAt(b, c, q, packets) = h[n]
  BY DEF QueueAt, Passes
<1>8. Enqueued(h)
  <2> HIDE DEF Enqueued
  <2> QED
    BY <1>6
<1> HIDE DEF h
<1>9. h[0] = q /\ \A k \in 1 .. n : h[k] = After(h[k - 1], k)
  <2>1. \A k \in 0 .. n : h[k] = IF k = 0 THEN q ELSE After(h[k - 1], k)
    <3> HIDE DEF n, After
    <3> QED
      BY <1>8
  <2> HIDE DEF n, After
  <2> QED
    BY <1>1, <2>1
<1> DEFINE Good == {k \in Nat : k <= n => h[k] \in S}
<1>10. 0 \in Good
  <2>1. q \in S
    BY DEF S
  <2> HIDE DEF After, n
  <2> QED
    BY <1>9, <2>1
<1>11. \A k \in Nat : k \in Good => k + 1 \in Good
  <2> SUFFICES ASSUME NEW k \in Nat, k \in Good, k + 1 <= n
               PROVE  h[k + 1] \in S
    OBVIOUS
  <2>1. h[k] \in S /\ k + 1 \in 1 .. n /\ k + 1 - 1 = k
    BY <1>1
  <2> HIDE DEF After, n
  <2> QED
    BY <1>2, <1>9, <2>1
<1>12. \A k \in 0 .. n : h[k] \in S
  <2>1. Nat \subseteq Good
    <3> HIDE DEF Good
    <3> QED
      BY <1>10, <1>11, SetInduction
  <2> QED
    BY <1>1, <2>1
<1>13. h \in [0 .. n -> S]
  <2>1. h = [k \in 0 .. n |-> h[k]]
    <3> HIDE DEF After, n
    <3> QED
      BY <1>8
  <2> HIDE DEF Enqueued, n
  <2> QED
    BY <1>12, <2>1
<1>14. QueueAtRun(b, c, q, packets, h)
  BY <1>9, <1>13 DEF QueueAtRun, S
<1> QED
  BY <1>7, <1>14

\* The packets that b receives leave a queue a queue, and do not change it
\* if all of them are for b.
LEMMA QueueAtKeeps ==
  ASSUME NEW b, NEW c, NEW q \in Seq(Entry), NEW packets \in Seq(Packet)
  PROVE  /\ QueueAt(b, c, q, packets) \in Seq(Entry)
         /\ (\A k \in DOMAIN packets : packets[k].flow[2] = b)
              => QueueAt(b, c, q, packets) = q
<1> DEFINE n == Len(packets)
<1>1. n \in Nat /\ DOMAIN packets = 1 .. n
  BY LenProperties
<1>2. PICK h : /\ QueueAtRun(b, c, q, packets, h)
               /\ QueueAt(b, c, q, packets) = h[n]
  BY QueueAtHasRun
<1>3. h[n] \in Seq(Entry)
  BY <1>1, <1>2 DEF QueueAtRun
<1>4. ASSUME \A k \in DOMAIN packets : packets[k].flow[2] = b
      PROVE  h[n] = q
  <2> DEFINE Good == {k \in Nat : k <= n => h[k] = q}
  <2>1. 0 \in Good
    BY <1>2 DEF QueueAtRun
  <2>2. \A k \in Nat : k \in Good => k + 1 \in Good
    <3> SUFFICES ASSUME NEW k \in Nat, k \in Good, k + 1 <= n
                 PROVE  h[k + 1] = q
      OBVIOUS
    <3>1. h[k] = q /\ k + 1 \in 1 .. n /\ k + 1 - 1 = k
      BY <1>1
    <3>2. ~Passes(b, c, packets[k + 1])
      BY <1>1, <1>4, <3>1 DEF Passes
    <3> QED
      BY <1>2, <3>1, <3>2 DEF QueueAtRun
  <2>3. n \in Good
    <3> HIDE DEF Good
    <3> QED
      BY <1>1, <2>1, <2>2, SetInduction
  <2> QED
    BY <1>1, <2>3
<1> QED
  BY <1>2, <1>3, <1>4

\* The packets that are due are the first of a queue, the others stay in it.
LEMMA ReadyIsFirst ==
  ASSUME NEW q \in Seq(Entry)
  PROVE  /\ Ready(q) \in Seq(Entry)
         /\ Rest(q) \in Seq(Entry)
         /\ Packets(Ready(q)) \in Seq(Packet)
         /\ DOMAIN Packets(Ready(q)) = DOMAIN Ready(q)
<1> DEFINE n == Len(q)
           due == {k \in DOMAIN q : \A i \in 1 .. k : q[i].txTime = 0}
           m == Cardinality(due)
<1>1. n \in Nat /\ DOMAIN q = 1 .. n
  BY LenProperties
<1>2. m \in Nat /\ m <= n
  <2>1. IsFiniteSet(1 .. n) /\ Cardinality(1 .. n) = n
    BY <1>1, FS_Interval
  <2>2. due \subseteq 1 .. n
    BY <1>1
  <2> HIDE DEF due, n
  <2> QED
    BY <2>1, <2>2, FS_Subset, FS_CardinalityType
<1>3. Ready(q) = SubSeq(q, 1, m)
  BY DEF Ready
<1> HIDE DEF m
<1>4. Ready(q) \in Seq(Entry) /\ Len(Ready(q)) = m
  BY <1>1, <1>2, <1>3, SubSeqProperties
<1>5. Rest(q) \in Seq(Entry)
  BY <1>1, <1>2, <1>4, SubSeqProperties DEF Rest
<1>6. \A e \in Entry : e.packet \in Packet
  BY DEF Entry
<1>7. Packets(Ready(q)) = [k \in 1 .. m |-> Ready(q)[k].packet]
  BY <1>4, LenProperties DEF Packets
<1>8. \A k \in 1 .. m : Ready(q)[k].packet \in Packet
  BY <1>4, <1>6, ElementOfSeq
<1>9. DOMAIN Ready(q) = 1 .. m
  BY <1>4, LenProperties
<1> QED
  BY <1>2, <1>4, <1>5, <1>7, <1>8, <1>9

\* The first packet of a queue that has one has an instant.
LEMMA FirstHasTime ==
  ASSUME NEW q \in Seq(Entry), q # <<>>
  PROVE  q[1].txTime \in Nat
<1>1. q[1] \in Entry
  BY EmptySeq, LenProperties, ElementOfSeq
<1> QED
  BY <1>1 DEF Entry

\* The wait of a router is no longer than that of any first packet.
LEMMA WaitIsShortest ==
  ASSUME NEW queues \in [Router -> Seq(Entry)]
  PROVE  /\ WaitOf(queues) \in Nat \cup {Undefined}
         /\ \A b \in Router : queues[b] # <<>> =>
              /\ WaitOf(queues) # Undefined
              /\ WaitOf(queues) <= queues[b][1].txTime
<1> DEFINE waits == {q[1].txTime : q \in Range(queues) \ {<<>>}}
<1>1. \A b \in Router : queues[b] # <<>> => queues[b][1].txTime \in waits
  BY DEF Range
<1>2. waits \subseteq Nat
  <2> SUFFICES ASSUME NEW q \in Range(queues), q # <<>>
               PROVE  q[1].txTime \in Nat
    OBVIOUS
  <2>1. q \in Seq(Entry)
    BY DEF Range
  <2> QED
    BY <2>1, FirstHasTime
<1>3. WaitOf(queues) = IF waits = {} THEN Undefined ELSE Min(waits)
  BY DEF WaitOf
<1> HIDE DEF waits
<1>4. waits # {} => Min(waits) \in waits /\ \A w \in waits : Min(waits) <= w
  <2> SUFFICES ASSUME waits # {}
               PROVE  Min(waits) \in waits /\ \A w \in waits : Min(waits) <= w
    OBVIOUS
  <2>1. \E x \in waits : \A y \in waits : x <= y
    BY <1>2, Smallest
  <2> QED
    BY <2>1 DEF Min
<1> QED
  BY <1>1, <1>2, <1>3, <1>4, Numbers

\* A sequence has the elements of n others.
HasAllOf(s, S, n, seqs) ==
  /\ s \in Seq(S)
  /\ \A k \in 1 .. n : \A j \in 1 .. Len(seqs[k]) :
       \E i \in 1 .. Len(s) : s[i] = seqs[k][j]

\* The elements of sequences are those of the sequence made of them.
LEMMA FlattenSeqHas ==
  ASSUME NEW S, NEW n \in Nat \ {0}, NEW seqs \in [1 .. n -> Seq(S)]
  PROVE  HasAllOf(FlattenSeq(seqs), S, n, seqs)
<1> DEFINE Flat(f) == f = [k \in 1 .. n |-> IF k = 1 THEN seqs[k]
                                            ELSE f[k - 1] \o seqs[k]]
           step == [k \in 1 .. n |-> [x \in Seq(S) |-> x \o seqs[k]]]
<1>1. seqs \in Seq(Seq(S)) /\ Len(seqs) = n
  OBVIOUS
<1>2. step \in [1 .. n -> [Seq(S) -> Seq(S)]]
  <2>1. \A k \in 1 .. n : \A x \in Seq(S) : x \o seqs[k] \in Seq(S)
    BY ConcatProperties
  <2> QED
    BY <2>1
<1>3. PICK f \in [0 .. n -> Seq(S)] :
        f[0] = <<>> /\ \A k \in 1 .. n : f[k] = step[k][f[k - 1]]
  <2>1. Iterates(n, Seq(S), <<>>, step)
    <3>1. <<>> \in Seq(S)
      BY EmptySeq
    <3> HIDE DEF step
    <3> QED
      BY <1>2, <3>1, Recursion
  <2> QED
    BY <2>1 DEF Iterates
<1>4. Flat([k \in 1 .. n |-> f[k]])
  <2>1. \A k \in 1 .. n : f[k] = f[k - 1] \o seqs[k]
    <3>1. \A k \in 1 .. n : k - 1 \in 0 .. n
      OBVIOUS
    <3>2. \A k \in 1 .. n : f[k - 1] \in Seq(S)
      BY <3>1
    <3>3. \A k \in 1 .. n : step[k][f[k - 1]] = f[k - 1] \o seqs[k]
      BY <3>2
    <3> QED
      BY <1>3, <3>3
  <2>2. f[1] = seqs[1]
    <3>1. 1 \in 1 .. n /\ 1 - 1 = 0
      OBVIOUS
    <3>2. f[1] = <<>> \o seqs[1] /\ seqs[1] \in Seq(S)
      BY <1>3, <2>1, <3>1
    <3> QED
      BY <3>2, ConcatEmptySeq
  <2>3. \A k \in 1 .. n : k # 1 => k - 1 \in 1 .. n
    OBVIOUS
  <2> DEFINE g == [k \in 1 .. n |-> f[k]]
  <2>4. \A k \in 1 .. n : g[k] = IF k = 1 THEN seqs[k] ELSE g[k - 1] \o seqs[k]
    BY <2>1, <2>2, <2>3
  <2>5. DOMAIN g = 1 .. n /\ g = [k \in 1 .. n |-> g[k]]
    OBVIOUS
  <2> HIDE DEF g
  <2>6. g = [k \in 1 .. n |-> IF k = 1 THEN seqs[k] ELSE g[k - 1] \o seqs[k]]
    BY <2>4, <2>5
  <2> QED
    BY <2>6 DEF g
<1> DEFINE h == CHOOSE g : Flat(g)
<1>5. FlattenSeq(seqs) = h[n]
  BY <1>1 DEF FlattenSeq
<1>6. Flat(h)
  <2> HIDE DEF Flat
  <2> QED
    BY <1>4
<1> HIDE DEF h
<1>7. \A k \in 1 .. n : h[k] = IF k = 1 THEN seqs[k] ELSE h[k - 1] \o seqs[k]
  BY <1>6
<1> DEFINE Has(m) == /\ h[m] \in Seq(S)
                     /\ \A k \in 1 .. m : \A j \in 1 .. Len(seqs[k]) :
                          \E i \in 1 .. Len(h[m]) : h[m][i] = seqs[k][j]
           Good == {m \in Nat : m + 1 <= n => Has(m + 1)}
<1>8. 0 \in Good
  <2>1. h[1] = seqs[1] /\ seqs[1] \in Seq(S)
    BY <1>7
  <2>2. Has(1)
    BY <2>1
  <2> HIDE DEF Has
  <2> QED
    BY <2>2
<1>9. \A m \in Nat : m \in Good => m + 1 \in Good
  <2> SUFFICES ASSUME NEW m \in Nat, m + 2 <= n, Has(m + 1)
               PROVE  Has(m + 2)
    <3>1. ASSUME NEW m \in Nat
          PROVE  /\ m + 1 + 1 = m + 2
                 /\ m + 1 \in Nat
                 /\ m + 2 <= n => m + 1 <= n
      OBVIOUS
    <3> HIDE DEF Has
    <3> QED
      BY <3>1
  <2>1. Has(m + 1)
    OBVIOUS
  <2>2. h[m + 2] = h[m + 1] \o seqs[m + 2]
    <3> HIDE DEF Has
    <3> DEFINE k == m + 2
    <3>1. k \in 1 .. n /\ k # 1 /\ k - 1 = m + 1 /\ k = m + 2
      OBVIOUS
    <3> HIDE DEF k
    <3>2. h[k] = h[k - 1] \o seqs[k]
      BY <1>7, <3>1
    <3> QED
      BY <3>1, <3>2
  <2>3. h[m + 1] \in Seq(S) /\ seqs[m + 2] \in Seq(S)
    BY <2>1
  <2> DEFINE a == Len(h[m + 1])
             b == Len(seqs[m + 2])
  <2>4. /\ h[m + 2] \in Seq(S)
        /\ a \in Nat /\ b \in Nat
        /\ Len(h[m + 2]) = a + b
        /\ \A i \in 1 .. a : h[m + 2][i] = h[m + 1][i]
        /\ \A i \in 1 .. b : h[m + 2][a + i] = seqs[m + 2][i]
    <3>1. a \in Nat /\ b \in Nat
      BY <2>3, LenProperties
    <3>2. h[m + 2] \in Seq(S) /\ Len(h[m + 2]) = a + b
      BY <2>2, <2>3, ConcatProperties
    <3>3. \A i \in 1 .. a + b : h[m + 2][i] = IF i <= a THEN h[m + 1][i]
                                               ELSE seqs[m + 2][i - a]
      BY <2>2, <2>3, ConcatProperties
    <3> HIDE DEF a, b
    <3>4. \A i \in 1 .. a : i \in 1 .. a + b /\ i <= a
      BY <3>1
    <3>5. \A i \in 1 .. a : h[m + 2][i] = h[m + 1][i]
      BY <3>3, <3>4
    <3>6. ASSUME NEW i \in 1 .. b
          PROVE  h[m + 2][a + i] = seqs[m + 2][i]
      <4> DEFINE c == a + i
      <4>1. c = a + i /\ c \in 1 .. a + b /\ ~(c <= a) /\ c - a = i
        BY <3>1
      <4> HIDE DEF c
      <4>2. h[m + 2][c] = seqs[m + 2][c - a]
        BY <3>3, <4>1
      <4> QED
        BY <4>1, <4>2
    <3> QED
      BY <3>1, <3>2, <3>5, <3>6
  <2> SUFFICES ASSUME NEW k \in 1 .. m + 2, NEW j \in 1 .. Len(seqs[k])
               PROVE  \E i \in 1 .. Len(h[m + 2]) : h[m + 2][i] = seqs[k][j]
    BY <2>4
  <2>5. CASE k = m + 2
    <3>1. j \in 1 .. b
      BY <2>5
    <3> HIDE DEF a, b
    <3>2. a + j \in 1 .. a + b
      BY <2>4, <3>1
    <3> QED
      BY <2>4, <2>5, <3>1, <3>2
  <2>6. CASE k # m + 2
    <3>1. k \in 1 .. m + 1
      BY <2>6
    <3>2. PICK i \in 1 .. a : h[m + 1][i] = seqs[k][j]
      BY <2>1, <3>1
    <3> HIDE DEF a, b
    <3>3. i \in 1 .. a + b
      BY <2>4
    <3> QED
      BY <2>4, <3>2, <3>3
  <2> QED
    BY <2>5, <2>6
<1>10. n - 1 \in Nat /\ n - 1 + 1 = n
  OBVIOUS
<1>11. Has(n)
  <2>1. n - 1 \in Good
    <3> HIDE DEF Good
    <3> QED
      BY <1>8, <1>9, <1>10, SetInduction
  <2> HIDE DEF Has
  <2> QED
    BY <1>10, <2>1
<1> QED
  BY <1>5, <1>11 DEF HasAllOf

\* A router that receives a packet it has to queue runs again.
LEMMA PassedHas ==
  ASSUME LoopTypeOK, NEW self \in Router
  PROVE  /\ Passed(self) \in Seq(Router)
         /\ \A b \in Router : \A k \in DOMAIN Ready(queue[self][b]) :
              Ready(queue[self][b])[k].packet.flow[2] # b =>
                \E i \in 1 .. Len(Passed(self)) : Passed(self)[i] = b
<1> DEFINE others(b) == {k \in DOMAIN Ready(queue[self][b]) :
                           Ready(queue[self][b])[k].packet.flow[2] # b}
           times(b) == Cardinality(others(b))
           seqs == [b \in Router |-> [k \in 1 .. times(b) |-> b]]
<1>1. \A b \in Router : times(b) \in Nat /\ (others(b) # {} => times(b) # 0)
  <2> TAKE b \in Router
  <2>1. Ready(queue[self][b]) \in Seq(Entry)
    BY ReadyIsFirst DEF LoopTypeOK
  <2>2. IsFiniteSet(1 .. Len(Ready(queue[self][b])))
    BY <2>1, LenProperties, FS_Interval
  <2>3. others(b) \subseteq 1 .. Len(Ready(queue[self][b]))
    BY <2>1, LenProperties
  <2>4. IsFiniteSet(others(b))
    <3> HIDE DEF others
    <3> QED
      BY <2>2, <2>3, FS_Subset
  <2> HIDE DEF others
  <2> QED
    BY <2>4, FS_CardinalityType, FS_EmptySet
<1>2. N \in Nat \ {0} /\ Router = 1 .. N
  BY Numbers DEF Router
<1>3. seqs \in [1 .. N -> Seq(Router)]
  <2> HIDE DEF times
  <2> SUFFICES ASSUME NEW b \in Router
               PROVE  [k \in 1 .. times(b) |-> b] \in Seq(Router)
    BY <1>2
  <2> QED
    BY <1>1
<1>4. Passed(self) = FlattenSeq(seqs)
  BY DEF Passed
<1>5. /\ FlattenSeq(seqs) \in Seq(Router)
      /\ \A b \in 1 .. N : \A j \in 1 .. Len(seqs[b]) :
           \E i \in 1 .. Len(FlattenSeq(seqs)) : FlattenSeq(seqs)[i] = seqs[b][j]
  <2>1. HasAllOf(FlattenSeq(seqs), Router, N, seqs)
    <3> HIDE DEF seqs
    <3> QED
      BY <1>2, <1>3, FlattenSeqHas
  <2> HIDE DEF seqs
  <2> QED
    BY <2>1 DEF HasAllOf
<1>6. ASSUME NEW b \in Router, others(b) # {}
      PROVE  \E i \in 1 .. Len(Passed(self)) : Passed(self)[i] = b
  <2> HIDE DEF others
  <2>1. 1 \in 1 .. times(b)
    BY <1>1, <1>6
  <2> HIDE DEF times
  <2>2. Len(seqs[b]) = times(b) /\ seqs[b][1] = b
    <3>1. seqs[b] = [k \in 1 .. times(b) |-> b]
      OBVIOUS
    <3>2. ASSUME NEW t \in Nat, NEW s, s = [k \in 1 .. t |-> b]
          PROVE  Len(s) = t /\ (1 \in 1 .. t => s[1] = b)
      BY <3>2
    <3> HIDE DEF seqs
    <3> QED
      BY <1>1, <2>1, <3>1, <3>2
  <2> HIDE DEF seqs
  <2>3. \E i \in 1 .. Len(FlattenSeq(seqs)) : FlattenSeq(seqs)[i] = seqs[b][1]
    BY <1>2, <1>5, <2>1, <2>2
  <2> QED
    BY <1>4, <2>2, <2>3
<1> QED
  BY <1>4, <1>5, <1>6

-----------------------------------------------------------------------------
(* The steps of the loop.                                                  *)

\* Every router is among all of them.
LEMMA AllAreToRun ==
  /\ AllRouters \in Seq(Router)
  /\ Len(AllRouters) = N
  /\ \A a \in Router : a \in 1 .. N /\ AllRouters[a] = a
BY Numbers DEF AllRouters, Router

\* At the start there is nothing to wait for.
LEMMA InitLoop == Init => LoopInv
BY Numbers, EmptySeq DEF Init, LoopInv, LoopTypeOK, NobodyForgotten, Awaited

\* Nothing of the loop changes while the tables are computed.
LEMMA TablesKeepLoop ==
  ASSUME LoopInv, Visit \/ FillTable
  PROVE  LoopInv'
<1>1. /\ UNCHANGED loop_vars
      /\ pc' \in {"tables", "select"}
      /\ pc = "tables"
  BY DEF Visit, FillTable, loop_vars
<1> QED
  BY <1>1 DEF LoopInv, LoopTypeOK, NobodyForgotten, Awaited, ToRun, loop_vars

\* A packet that waits in the socket changes nothing else.
LEMMA SendKeepsLoop ==
  ASSUME LoopInv, NEW f \in Flow, NEW size \in Size, Send(f, size)
  PROVE  LoopInv'
<1> DEFINE packet == [flow |-> f, number |-> sent + 1, size |-> size]
<1>1. sent + 1 \in 1 .. MaxPackets
  BY Numbers DEF LoopInv, LoopTypeOK, Send
<1>2. packet \in Packet
  BY <1>1 DEF Packet
<1>3. socket' \in Seq(Packet)
  <2>1. socket' = Append(socket, packet)
    BY DEF Send
  <2> HIDE DEF packet
  <2> QED
    BY <1>2, <2>1, AppendProperties DEF LoopInv, LoopTypeOK
<1>4. UNCHANGED <<pc, queue, runRouters, sleepSeconds>> /\ sent' \in 0 .. MaxPackets
  BY <1>1 DEF Send
<1> QED
  BY <1>3, <1>4 DEF LoopInv, LoopTypeOK, NobodyForgotten, Awaited, ToRun

\* After a packet came every router is to run.
LEMMA ReceiveKeepsLoop ==
  ASSUME LoopInv, Receive
  PROVE  LoopInv'
<1> DEFINE packet == Head(socket)
           self   == packet.flow[1]
<1>1. /\ socket # <<>>
      /\ pc' = "run"
      /\ socket' = Tail(socket)
      /\ queue' = [queue EXCEPT ![self] =
                     [c \in Router |-> QueueAt(self, c, @[c], <<packet>>)]]
      /\ runRouters' = <<self>> \o AllRouters
      /\ sleepSeconds' = Undefined
      /\ sent' = sent
  BY DEF Receive
<1>2. packet \in Packet /\ socket' \in Seq(Packet)
  BY <1>1, HeadTailProperties DEF LoopInv, LoopTypeOK
<1>3. self \in Router
  <2>1. packet.flow \in Flow
    BY <1>2 DEF Packet
  <2> QED
    BY <2>1, FlowsAreOfRouters
<1>4. <<packet>> \in Seq(Packet)
  BY <1>2
<1> HIDE DEF packet
<1> HIDE DEF self
<1>5. queue' \in [Router -> [Router -> Seq(Entry)]]
  <2> DEFINE row == [c \in Router |-> QueueAt(self, c, queue[self][c], <<packet>>)]
  <2>1. \A c \in Router : queue[self][c] \in Seq(Entry)
    BY <1>3 DEF LoopInv, LoopTypeOK
  <2>2. row \in [Router -> Seq(Entry)]
    BY <1>4, <2>1, QueueAtKeeps
  <2>3. queue' = [queue EXCEPT ![self] = row]
    BY <1>1
  <2> HIDE DEF row
  <2> QED
    BY <2>2, <2>3 DEF LoopInv, LoopTypeOK
<1>6. <<self>> \in Seq(Router) /\ Len(<<self>>) = 1
  BY <1>3
<1>7. /\ runRouters' \in Seq(Router)
      /\ Len(runRouters') = 1 + N
      /\ \A i \in 1 .. 1 + N :
           runRouters'[i] = IF i <= 1 THEN <<self>>[i] ELSE AllRouters[i - 1]
  <2>1. ASSUME NEW s \in Seq(Router), Len(s) = 1
        PROVE  /\ s \o AllRouters \in Seq(Router)
               /\ Len(s \o AllRouters) = 1 + N
               /\ \A i \in 1 .. 1 + N : (s \o AllRouters)[i] =
                    IF i <= 1 THEN s[i] ELSE AllRouters[i - 1]
    <3> DEFINE all == AllRouters
    <3>1. all \in Seq(Router) /\ Len(all) = N
      BY AllAreToRun
    <3> HIDE DEF all
    <3>2. /\ s \o all \in Seq(Router)
          /\ Len(s \o all) = Len(s) + Len(all)
          /\ \A i \in 1 .. Len(s) + Len(all) : (s \o all)[i] =
               IF i <= Len(s) THEN s[i] ELSE all[i - Len(s)]
      BY <3>1, ConcatProperties
    <3> QED
      BY <2>1, <3>1, <3>2 DEF all
  <2> QED
    BY <1>1, <1>6, <2>1, Zenon
<1>8. ASSUME NEW a \in Router
      PROVE  ToRun(a)'
  <2> DEFINE i == a + 1
  <2>1. i \in 1 .. 1 + N /\ ~(i <= 1) /\ i - 1 = a
    BY AllAreToRun, Numbers
  <2> HIDE DEF i
  <2>2. runRouters'[i] = a
    BY <1>7, <2>1, AllAreToRun
  <2> QED
    BY <1>7, <2>1, <2>2 DEF ToRun
<1> QED
  BY <1>1, <1>2, <1>5, <1>7, <1>8 DEF LoopInv, LoopTypeOK, NobodyForgotten

\* After select every router is to run.
LEMMA WakeKeepsLoop ==
  ASSUME LoopInv, Wake
  PROVE  LoopInv'
<1>1. /\ pc' = "run"
      /\ runRouters' = AllRouters
      /\ sleepSeconds' = Undefined
      /\ UNCHANGED <<socket, queue, sent>>
  BY DEF Wake
<1>2. \A a \in Router : ToRun(a)'
  BY <1>1, AllAreToRun DEF ToRun
<1> QED
  BY <1>1, <1>2, AllAreToRun DEF LoopInv, LoopTypeOK, NobodyForgotten

\* Nobody is forgotten when nobody is to run.
LEMMA NothingToRunKeepsLoop ==
  ASSUME LoopInv, NothingToRun
  PROVE  LoopInv'
BY DEF LoopInv, LoopTypeOK, NobodyForgotten, Awaited, ToRun, NothingToRun

\* All waits become shorter together.
LEMMA TickKeepsLoop ==
  ASSUME LoopInv, Tick
  PROVE  LoopInv'
<1> DEFINE older(q) == [k \in DOMAIN q |-> [q[k] EXCEPT !.txTime = Sooner(@)]]
<1>1. /\ pc = "select"
      /\ sleepSeconds # 0
      /\ sleepSeconds' = IF sleepSeconds = Undefined THEN Undefined
                                                     ELSE sleepSeconds - 1
      /\ queue' = [a \in Router |-> [b \in Router |-> older(queue[a][b])]]
      /\ UNCHANGED <<pc, socket, runRouters, sent>>
  BY DEF Tick
<1>2. ASSUME NEW q \in Seq(Entry)
      PROVE  /\ older(q) \in Seq(Entry)
             /\ older(q) # <<>> => q # <<>>
             /\ q # <<>> => /\ q[1].txTime \in Nat
                            /\ older(q)[1].txTime = Sooner(q[1].txTime)
  <2>1. \A e \in Entry : /\ e.txTime \in Nat
                         /\ [e EXCEPT !.txTime = Sooner(@)] \in Entry
                         /\ [e EXCEPT !.txTime = Sooner(@)].txTime = Sooner(e.txTime)
    BY DEF Entry, Sooner
  <2> DEFINE n == Len(q)
             later(e) == [e EXCEPT !.txTime = Sooner(@)]
  <2>2. n \in Nat /\ DOMAIN q = 1 .. n /\ (q # <<>> => 1 \in 1 .. n)
    BY EmptySeq, LenProperties
  <2>3. \A k \in 1 .. n : q[k] \in Entry
    BY ElementOfSeq
  <2>4. older(q) = [k \in 1 .. n |-> later(q[k])]
    BY <2>2
  <2>5. \A k \in 1 .. n : later(q[k]) \in Entry
    BY <2>1, <2>3
  <2>6. q # <<>> => q[1].txTime \in Nat /\ later(q[1]).txTime = Sooner(q[1].txTime)
    BY <2>1, <2>2, <2>3
  <2> HIDE DEF n, later, older
  <2>7. older(q) \in Seq(Entry) /\ Len(older(q)) = n
    BY <2>2, <2>4, <2>5
  <2>8. older(q) # <<>> => q # <<>>
    BY <2>2, <2>7, EmptySeq, LenProperties DEF n
  <2>9. q # <<>> => older(q)[1] = later(q[1])
    BY <2>2, <2>4
  <2> QED
    BY <2>6, <2>7, <2>8, <2>9
<1> HIDE DEF older
<1>3. \A a, b \in Router : queue[a][b] \in Seq(Entry)
  BY DEF LoopInv, LoopTypeOK
<1>4. queue' \in [Router -> [Router -> Seq(Entry)]]
  BY <1>1, <1>2, <1>3
<1>5. sleepSeconds' \in Nat \cup {Undefined}
  BY <1>1 DEF LoopInv, LoopTypeOK
<1>6. ASSUME NEW a \in Router
      PROVE  Awaited(a)'
  <2>1. Awaited(a)
    BY <1>1 DEF LoopInv, NobodyForgotten, ToRun
  <2> SUFFICES ASSUME NEW b \in Router, queue'[a][b] # <<>>
               PROVE  /\ sleepSeconds' # Undefined
                      /\ sleepSeconds' <= queue'[a][b][1].txTime
    BY DEF Awaited
  <2>2. queue'[a][b] = older(queue[a][b])
    BY <1>1
  <2>3. /\ queue[a][b] # <<>>
        /\ queue[a][b][1].txTime \in Nat
        /\ queue'[a][b][1].txTime = Sooner(queue[a][b][1].txTime)
    BY <1>2, <1>3, <2>2
  <2>4. sleepSeconds \in Nat /\ sleepSeconds <= queue[a][b][1].txTime
    BY <2>1, <2>3 DEF Awaited, LoopInv, LoopTypeOK
  <2> QED
    BY <1>1, <2>3, <2>4, Numbers DEF Sooner
<1> QED
  BY <1>1, <1>4, <1>5, <1>6 DEF LoopInv, LoopTypeOK, NobodyForgotten

\* The shorter of two waits.
LEMMA SleepForIsShorter ==
  ASSUME sleepSeconds \in Nat \cup {Undefined}, NEW w \in Nat \cup {Undefined}
  PROVE  /\ SleepFor(w) \in Nat \cup {Undefined}
         /\ w # Undefined => SleepFor(w) # Undefined /\ SleepFor(w) <= w
         /\ sleepSeconds # Undefined =>
              SleepFor(w) # Undefined /\ SleepFor(w) <= sleepSeconds
BY Numbers DEF SleepFor, Shorter

\* The router that runs is awaited from then on.  Of the others one that has
\* to queue a packet is to run again, and the rest keep their queues.
LEMMA RunKeepsLoop ==
  ASSUME LoopInv, Run
  PROVE  LoopInv'
<1> DEFINE self  == Head(runRouters)
           ready == [b \in Router |-> Ready(queue[self][b])]
           kept  == [b \in Router |-> Rest(queue[self][b])]
           w     == WaitOf(kept)
<1>1. /\ pc = "run"
      /\ runRouters # <<>>
      /\ queue' = [a \in Router |->
                     IF a = self THEN kept
                     ELSE [c \in Router |->
                             QueueAt(a, c, queue[a][c], Packets(ready[a]))]]
      /\ runRouters' = Tail(runRouters) \o Passed(self)
      /\ sleepSeconds' = SleepFor(w)
      /\ UNCHANGED <<pc, socket, sent>>
  BY DEF Run
<1>2. /\ self \in Router
      /\ Tail(runRouters) \in Seq(Router)
      /\ Len(runRouters) \in Nat \ {0}
      /\ Len(Tail(runRouters)) = Len(runRouters) - 1
      /\ \A k \in 1 .. Len(runRouters) - 1 : Tail(runRouters)[k] = runRouters[k + 1]
      /\ self = runRouters[1]
  BY <1>1, EmptySeq, HeadTailProperties DEF LoopInv, LoopTypeOK
<1> HIDE DEF self
<1>3. \A a, b \in Router : queue[a][b] \in Seq(Entry)
  BY DEF LoopInv, LoopTypeOK
<1>4. \A b \in Router : /\ ready[b] = Ready(queue[self][b])
                        /\ Packets(ready[b]) \in Seq(Packet)
                        /\ DOMAIN Packets(ready[b]) = DOMAIN ready[b]
                        /\ kept[b] \in Seq(Entry)
  BY <1>2, <1>3, ReadyIsFirst
<1>5. kept \in [Router -> Seq(Entry)]
  BY <1>4
<1>6. /\ w \in Nat \cup {Undefined}
      /\ \A b \in Router : kept[b] # <<>> =>
           w # Undefined /\ w <= kept[b][1].txTime
  <2> HIDE DEF kept
  <2>1. /\ WaitOf(kept) \in Nat \cup {Undefined}
        /\ \A b \in Router : kept[b] # <<>> =>
             /\ WaitOf(kept) # Undefined
             /\ WaitOf(kept) <= kept[b][1].txTime
    BY <1>5, WaitIsShortest, Zenon
  <2> QED
    BY <2>1
<1> HIDE DEF ready, kept, w
<1>7. queue' \in [Router -> [Router -> Seq(Entry)]]
  <2>1. \A a, c \in Router : QueueAt(a, c, queue[a][c], Packets(ready[a])) \in Seq(Entry)
    BY <1>3, <1>4, QueueAtKeeps
  <2> QED
    BY <1>1, <1>5, <2>1
<1>8. /\ sleepSeconds' \in Nat \cup {Undefined}
      /\ w # Undefined => sleepSeconds' # Undefined /\ sleepSeconds' <= w
      /\ sleepSeconds # Undefined =>
           sleepSeconds' # Undefined /\ sleepSeconds' <= sleepSeconds
  BY <1>1, <1>6, SleepForIsShorter DEF LoopInv, LoopTypeOK
<1>9. /\ Passed(self) \in Seq(Router)
      /\ \A b \in Router : \A k \in DOMAIN ready[b] :
           ready[b][k].packet.flow[2] # b =>
             \E i \in 1 .. Len(Passed(self)) : Passed(self)[i] = b
  <2>1. /\ Passed(self) \in Seq(Router)
        /\ \A b \in Router : \A k \in DOMAIN Ready(queue[self][b]) :
             Ready(queue[self][b])[k].packet.flow[2] # b =>
               \E i \in 1 .. Len(Passed(self)) : Passed(self)[i] = b
    BY <1>2, PassedHas DEF LoopInv
  <2>2. \A b \in Router : ready[b] = Ready(queue[self][b])
    BY <1>4
  <2> QED
    BY <2>1, <2>2, Zenon
<1>10. /\ runRouters' \in Seq(Router)
       /\ \A i \in 1 .. Len(Tail(runRouters)) :
            \E j \in 1 .. Len(runRouters') : runRouters'[j] = Tail(runRouters)[i]
       /\ \A i \in 1 .. Len(Passed(self)) :
            \E j \in 1 .. Len(runRouters') : runRouters'[j] = Passed(self)[i]
  <2>1. ASSUME NEW s \in Seq(Router), NEW t \in Seq(Router)
        PROVE  /\ s \o t \in Seq(Router)
               /\ \A i \in 1 .. Len(s) :
                    \E j \in 1 .. Len(s \o t) : (s \o t)[j] = s[i]
               /\ \A i \in 1 .. Len(t) :
                    \E j \in 1 .. Len(s \o t) : (s \o t)[j] = t[i]
    <3>1. /\ Len(s) \in Nat
          /\ Len(t) \in Nat
          /\ s \o t \in Seq(Router)
          /\ Len(s \o t) = Len(s) + Len(t)
          /\ \A i \in 1 .. Len(s) + Len(t) : (s \o t)[i] =
               IF i <= Len(s) THEN s[i] ELSE t[i - Len(s)]
      BY LenProperties, ConcatProperties
    <3>2. \A i \in 1 .. Len(s) :
            i \in 1 .. Len(s \o t) /\ (s \o t)[i] = s[i]
      BY <3>1
    <3>3. ASSUME NEW i \in 1 .. Len(t)
          PROVE  \E j \in 1 .. Len(s \o t) : (s \o t)[j] = t[i]
      <4> DEFINE j == Len(s) + i
      <4>1. j \in 1 .. Len(s) + Len(t) /\ ~(j <= Len(s)) /\ j - Len(s) = i
        BY <3>1
      <4> HIDE DEF j
      <4>2. (s \o t)[j] = t[i]
        BY <3>1, <4>1
      <4> QED
        BY <3>1, <4>1, <4>2
    <3> QED
      BY <3>1, <3>2, <3>3
  <2> QED
    <3> DEFINE s == Tail(runRouters)
               t == Passed(self)
    <3>1. runRouters' = s \o t /\ s \in Seq(Router) /\ t \in Seq(Router)
      BY <1>1, <1>2, <1>9
    <3> HIDE DEF s, t
    <3>2. /\ runRouters' \in Seq(Router)
          /\ \A i \in 1 .. Len(s) :
               \E j \in 1 .. Len(runRouters') : runRouters'[j] = s[i]
          /\ \A i \in 1 .. Len(t) :
               \E j \in 1 .. Len(runRouters') : runRouters'[j] = t[i]
      BY <2>1, <3>1
    <3> QED
      BY <3>2 DEF s, t
<1>11. ASSUME NEW a \in Router
       PROVE  Awaited(a)' \/ ToRun(a)'
  <2>1. CASE a = self
    <3>1. queue'[a] = kept
      BY <1>1, <2>1
    <3>2. \A b \in Router : kept[b] # <<>> => kept[b][1].txTime \in Nat
      <4> SUFFICES ASSUME NEW b \in Router, kept[b] # <<>>
                   PROVE  kept[b][1].txTime \in Nat
        OBVIOUS
      <4>1. kept[b] \in Seq(Entry)
        BY <1>5
      <4> QED
        BY <4>1, FirstHasTime
    <3> QED
      BY <1>6, <1>8, <3>1, <3>2 DEF Awaited
  <2>2. CASE a # self /\ ToRun(a)
    <3>1. PICK k \in 1 .. Len(runRouters) : runRouters[k] = a
      BY <2>2 DEF ToRun
    <3>2. k # 1
      BY <1>2, <2>2, <3>1
    <3>3. k - 1 \in 1 .. Len(runRouters) - 1 /\ k - 1 + 1 = k
      BY <1>2, <3>2
    <3>4. Tail(runRouters)[k - 1] = a
      BY <1>2, <3>1, <3>3
    <3> QED
      BY <1>2, <1>10, <3>3, <3>4 DEF ToRun
  <2>3. CASE a # self /\ Awaited(a)
    <3>1. CASE \E k \in DOMAIN ready[a] : ready[a][k].packet.flow[2] # a
      BY <1>9, <1>10, <3>1 DEF ToRun
    <3>2. CASE \A k \in DOMAIN ready[a] : ready[a][k].packet.flow[2] = a
      <4>1. \A k \in DOMAIN Packets(ready[a]) : Packets(ready[a])[k].flow[2] = a
        BY <1>4, <3>2 DEF Packets
      <4>2. \A c \in Router : queue'[a][c] = queue[a][c]
        BY <1>1, <1>3, <1>4, <2>3, <4>1, QueueAtKeeps
      <4>3. ASSUME NEW c \in Router, queue[a][c] # <<>>
            PROVE  queue[a][c][1].txTime \in Nat
        <5>1. queue[a][c] \in Seq(Entry)
          BY <1>3
        <5> QED
          BY <4>3, <5>1, FirstHasTime
      <4>4. sleepSeconds \in Nat \cup {Undefined}
        BY DEF LoopInv, LoopTypeOK
      <4>5. Awaited(a)'
        <5> SUFFICES ASSUME NEW c \in Router, queue'[a][c] # <<>>
                     PROVE  /\ sleepSeconds' # Undefined
                            /\ sleepSeconds' <= queue'[a][c][1].txTime
          BY DEF Awaited
        <5>1. /\ sleepSeconds # Undefined
              /\ sleepSeconds <= queue[a][c][1].txTime
          BY <2>3, <4>2 DEF Awaited
        <5> QED
          BY <1>8, <4>2, <4>3, <4>4, <5>1
      <4> QED
        BY <4>5
    <3> QED
      BY <3>1, <3>2
  <2> QED
    BY <2>1, <2>2, <2>3 DEF LoopInv, NobodyForgotten
<1> QED
  BY <1>1, <1>7, <1>8, <1>10, <1>11 DEF LoopInv, LoopTypeOK, NobodyForgotten

\* Every step of the simulator keeps the packets awaited.
LEMMA StepKeepsLoop == LoopInv /\ [Next]_vars => LoopInv'
<1> SUFFICES ASSUME LoopInv, [Next]_vars
             PROVE  LoopInv'
  OBVIOUS
<1>1. CASE \E f \in Flow, size \in Size : Send(f, size)
  BY <1>1, SendKeepsLoop
<1>2. CASE Visit \/ FillTable
  BY <1>2, TablesKeepLoop
<1>3. CASE Receive
  BY <1>3, ReceiveKeepsLoop
<1>4. CASE Wake
  BY <1>4, WakeKeepsLoop
<1>5. CASE Run
  BY <1>5, RunKeepsLoop
<1>6. CASE NothingToRun
  BY <1>6, NothingToRunKeepsLoop
<1>7. CASE Tick
  BY <1>7, TickKeepsLoop
<1>8. CASE UNCHANGED vars
  BY <1>8 DEF vars, loop_vars, LoopInv, LoopTypeOK, NobodyForgotten, Awaited, ToRun
<1> QED
  BY <1>1, <1>2, <1>3, <1>4, <1>5, <1>6, <1>7, <1>8 DEF Next, Progress

\* select never waits longer than the first packet of any queue, though a
\* router may be given packets by others after it ran.
THEOREM SelectIsInTime == Spec => []NeverOversleeps
<1>1. LoopInv => NeverOversleeps
  BY EmptySeq DEF LoopInv, NobodyForgotten, Awaited, ToRun, NeverOversleeps
<1> QED
  BY <1>1, InitLoop, StepKeepsLoop, PTL DEF Spec

-----------------------------------------------------------------------------
(* Ways: the routers within a number of links.                             *)

\* Links go both ways.
LEMMA NeighboursAreMutual ==
  ASSUME NEW a \in Router
  PROVE  /\ Neighbours(a) \subseteq Router
         /\ a \notin Neighbours(a)
         /\ \A b \in Neighbours(a) : a \in Neighbours(b)
         /\ \A b \in Router : b # a /\ {a, b} \in topo => b \in Neighbours(a)
<1>1. \A b : {a, b} = {b, a}
  OBVIOUS
<1> QED
  BY <1>1, Zenon DEF Neighbours

\* The neighbours of a set of routers.
Around(X) == UNION {Neighbours(b) : b \in X}

\* The routers within n links are those within n - 1 and their neighbours.
LEMMA BallIs ==
  ASSUME NEW a \in Router
  PROVE  /\ Ball(a)[0] = {a}
         /\ \A n \in 0 .. N : Ball(a)[n] \subseteq Router
         /\ \A n \in 1 .. N :
              Ball(a)[n] = Ball(a)[n - 1] \cup Around(Ball(a)[n - 1])
<1> DEFINE S == SUBSET Router
           Within(f) == f = [n \in 0 .. N |->
                               IF n = 0 THEN {a}
                               ELSE f[n - 1] \cup Around(f[n - 1])]
           step == [n \in 1 .. N |-> [X \in S |-> X \cup Around(X)]]
<1>1. N \in Nat
  BY Numbers
<1>2. \A X \in S : X \cup Around(X) \in S
  BY NeighboursAreMutual DEF Around
<1>3. step \in [1 .. N -> [S -> S]]
  <2> HIDE DEF S
  <2> QED
    BY <1>2
<1>4. PICK f \in [0 .. N -> S] :
        f[0] = {a} /\ \A n \in 1 .. N : f[n] = step[n][f[n - 1]]
  <2>1. Iterates(N, S, {a}, step)
    <3>1. {a} \in S
      OBVIOUS
    <3> HIDE DEF step, S
    <3> QED
      BY <1>1, <1>3, <3>1, Recursion
  <2> QED
    BY <2>1 DEF Iterates
<1> HIDE DEF S
<1>5. Within(f)
  <2>1. \A n \in 1 .. N : f[n - 1] \in S
    BY <1>1
  <2>2. \A n \in 1 .. N : f[n] = f[n - 1] \cup Around(f[n - 1])
    BY <1>4, <2>1
  <2>3. \A n \in 0 .. N : f[n] = IF n = 0 THEN {a}
                                 ELSE f[n - 1] \cup Around(f[n - 1])
    <3> HIDE DEF step
    <3> QED
      BY <1>1, <1>4, <2>2
  <2> QED
    BY <2>3
<1> DEFINE h == CHOOSE g : Within(g)
<1>6. Ball(a) = h
  BY DEF Ball, Around
<1>7. Within(h)
  <2> HIDE DEF Within
  <2> QED
    BY <1>5
<1> HIDE DEF h
<1>8. \A n \in 0 .. N : h[n] = IF n = 0 THEN {a}
                               ELSE h[n - 1] \cup Around(h[n - 1])
  BY <1>7
<1>9. /\ h[0] = {a}
      /\ \A n \in 1 .. N : h[n] = h[n - 1] \cup Around(h[n - 1])
  <2>1. 0 \in 0 .. N
    BY <1>1
  <2>2. \A n \in 1 .. N : n \in 0 .. N /\ n # 0
    BY <1>1
  <2> QED
    BY <1>8, <2>1, <2>2
<1> DEFINE Good == {n \in Nat : n <= N => h[n] \in S}
<1>10. 0 \in Good
  BY <1>1, <1>9 DEF S
<1>11. \A n \in Nat : n \in Good => n + 1 \in Good
  <2> SUFFICES ASSUME NEW n \in Nat, n \in Good, n + 1 <= N
               PROVE  h[n + 1] \in S
    OBVIOUS
  <2>1. h[n] \in S
    BY <1>1
  <2> DEFINE k == n + 1
  <2>2. k = n + 1 /\ k \in 1 .. N /\ k - 1 = n
    BY <1>1
  <2> HIDE DEF k
  <2>3. h[k] = h[n] \cup Around(h[n])
    BY <1>9, <2>2
  <2> QED
    BY <1>2, <2>1, <2>2, <2>3
<1>12. \A n \in 0 .. N : h[n] \in S
  <2>1. Nat \subseteq Good
    <3> HIDE DEF Good
    <3> QED
      BY <1>10, <1>11, SetInduction
  <2> QED
    BY <1>1, <2>1
<1> QED
  BY <1>6, <1>9, <1>12 DEF S

\* What is within m links is within more.
LEMMA BallGrows ==
  ASSUME NEW a \in Router, NEW m \in Nat, NEW n \in m .. N
  PROVE  Ball(a)[m] \subseteq Ball(a)[n]
<1> DEFINE Good == {k \in Nat : m + k <= N => Ball(a)[m] \subseteq Ball(a)[m + k]}
<1>1. 0 \in Good
  OBVIOUS
<1>2. \A k \in Nat : k \in Good => k + 1 \in Good
  <2> SUFFICES ASSUME NEW k \in Nat, k \in Good, m + (k + 1) <= N
               PROVE  Ball(a)[m] \subseteq Ball(a)[m + (k + 1)]
    OBVIOUS
  <2>1. m + (k + 1) \in 1 .. N /\ m + (k + 1) - 1 = m + k /\ m + k <= N
    BY Numbers
  <2>2. Ball(a)[m + (k + 1)] = Ball(a)[m + k] \cup Around(Ball(a)[m + k])
    BY <2>1, BallIs
  <2> QED
    BY <2>1, <2>2
<1>3. n - m \in Good
  <2> HIDE DEF Good
  <2>1. n - m \in Nat
    OBVIOUS
  <2> QED
    BY <1>1, <1>2, <2>1, SetInduction
<1> QED
  BY <1>3, Numbers

\* What is within m links of a neighbour is within one more.
LEMMA BallBehind ==
  ASSUME NEW p \in Router, NEW u \in Neighbours(p), NEW v \in Router,
         NEW m \in Nat, m + 1 <= N, v \in Ball(u)[m]
  PROVE  v \in Ball(p)[m + 1]
<1>1. u \in Router
  BY NeighboursAreMutual
<1> DEFINE Good == {k \in Nat : k + 1 <= N => Ball(u)[k] \subseteq Ball(p)[k + 1]}
<1>2. 0 \in Good
  <2> SUFFICES ASSUME 0 + 1 <= N
               PROVE  Ball(u)[0] \subseteq Ball(p)[0 + 1]
    OBVIOUS
  <2>1. Ball(u)[0] = {u} /\ Ball(p)[0] = {p}
    BY <1>1, BallIs
  <2>2. 1 \in 1 .. N /\ 1 - 1 = 0 /\ 0 + 1 = 1
    BY Numbers
  <2>3. Ball(p)[1] = Ball(p)[0] \cup Around(Ball(p)[0])
    BY <2>2, BallIs
  <2> QED
    BY <2>1, <2>2, <2>3 DEF Around
<1>3. \A k \in Nat : k \in Good => k + 1 \in Good
  <2> SUFFICES ASSUME NEW k \in Nat, k \in Good, k + 2 <= N
               PROVE  Ball(u)[k + 1] \subseteq Ball(p)[k + 2]
    BY Numbers
  <2>1. Ball(u)[k] \subseteq Ball(p)[k + 1]
    BY Numbers
  <2>2. k + 1 \in 1 .. N /\ k + 1 - 1 = k /\ k + 2 \in 1 .. N /\ k + 2 - 1 = k + 1
    BY Numbers
  <2>3. Ball(u)[k + 1] = Ball(u)[k] \cup Around(Ball(u)[k])
    BY <1>1, <2>2, BallIs
  <2>4. Ball(p)[k + 2] = Ball(p)[k + 1] \cup Around(Ball(p)[k + 1])
    BY <2>2, BallIs
  <2> QED
    BY <2>1, <2>3, <2>4 DEF Around
<1>4. m \in Good
  <2> HIDE DEF Good
  <2> QED
    BY <1>2, <1>3, SetInduction
<1> QED
  BY <1>4

-----------------------------------------------------------------------------
(* createTable.                                                            *)

\* The search of router self: it has visited the routers dn, the others are
\* no nearer than those, every distance comes from a predecessor that was
\* visited, and a router that was visited has told its neighbours.
Searched(self, dn, d, pred) ==
  /\ d[self] = 0
  /\ \A v \in Router \ {self} : d[v] # INFINITY =>
       pred[v] \in dn /\ v \in Neighbours(pred[v]) /\ d[v] = d[pred[v]] + 1
  /\ \A u \in dn : \A w \in Neighbours(u) : d[w] <= d[u] + 1
  /\ \A u \in dn, w \in Router \ dn : d[u] <= d[w]
  /\ \A v \in Router : d[v] # INFINITY => d[v] <= Cardinality(dn)

\* The types of the search.
SearchTypes(dn, d, pred) ==
  /\ dn \subseteq Router
  /\ d \in [Router -> 0 .. INFINITY]
  /\ pred \in [Router -> Router \cup {Undefined}]

\* There are as many routers as N says.
LEMMA RoutersAreN == IsFiniteSet(Router) /\ Cardinality(Router) = N
BY Numbers, FS_Interval DEF Router

\* A router is found that is nearest of those not visited.
LEMMA NextVertexIsNearest ==
  ASSUME SearchTypes(done, distance, predecessor), done # Router
  PROVE  LET next == CHOOSE v \in Router : IsNextVertex(v)
         IN  /\ next \in Router \ done
             /\ \A w \in Router \ done : distance[next] <= distance[w]
<1>1. /\ \A v \in Router : distance[v] \in Nat
      /\ Router \ done # {}
      /\ Router \subseteq Nat
  <2>1. \A v \in Router : distance[v] \in Nat
    BY Numbers DEF SearchTypes
  <2>2. Router \ done # {}
    BY DEF SearchTypes
  <2>3. Router \subseteq Nat
    BY Numbers DEF Router
  <2> QED
    BY <2>1, <2>2, <2>3
<1> DEFINE D == {distance[v] : v \in Router \ done}
<1>2. PICK m \in D : \A y \in D : m <= y
  <2>1. D \subseteq Nat /\ D # {}
    BY <1>1
  <2> HIDE DEF D
  <2> QED
    BY <2>1, Smallest
<1> DEFINE V == {v \in Router \ done : distance[v] = m}
<1>3. PICK x \in V : \A y \in V : x <= y
  <2>1. V \subseteq Nat /\ V # {}
    BY <1>1, <1>2
  <2> HIDE DEF V
  <2> QED
    BY <2>1, Smallest
<1>4. \A w \in Router \ done : m \in Nat /\ m <= distance[w]
  BY <1>1, <1>2
<1>5. IsNextVertex(x)
  <2> SUFFICES ASSUME NEW w \in Router \ done
               PROVE  \/ distance[x] < distance[w]
                      \/ distance[x] = distance[w] /\ x <= w
    BY <1>3 DEF IsNextVertex
  <2>1. distance[x] = m /\ m \in Nat /\ distance[w] \in Nat /\ m <= distance[w]
    BY <1>1, <1>3, <1>4
  <2>2. distance[w] = m => x <= w
    BY <1>3
  <2> QED
    BY <2>1, <2>2
<1> DEFINE next == CHOOSE v \in Router : IsNextVertex(v)
<1>6. next \in Router /\ IsNextVertex(next)
  BY <1>3, <1>5
<1> HIDE DEF next
<1>7. \A w \in Router \ done : distance[next] <= distance[w]
  BY <1>1, <1>6 DEF IsNextVertex
<1> QED
  BY <1>6, <1>7 DEF IsNextVertex, next

\* A visit goes on with the search.
LEMMA VisitSearches ==
  ASSUME SearchTypes(done, distance, predecessor),
         NEW self \in Router,
         Searched(self, done, distance, predecessor),
         Visit
  PROVE  /\ SearchTypes(done', distance', predecessor')
         /\ Searched(self, done', distance', predecessor')
<1> DEFINE next   == CHOOSE v \in Router : IsNextVertex(v)
           weight == distance[next] + 1
           nearer == {v \in Neighbours(next) : distance[v] > weight}
<1>1. /\ done # Router
      /\ done' = done \cup {next}
      /\ distance' = [v \in Router |-> IF v \in nearer THEN weight
                                                       ELSE distance[v]]
      /\ predecessor' = [v \in Router |-> IF v \in nearer THEN next
                                                      ELSE predecessor[v]]
  BY DEF Visit
<1>2. /\ next \in Router \ done
      /\ \A w \in Router \ done : distance[next] <= distance[w]
  BY <1>1, NextVertexIsNearest
<1> HIDE DEF next
<1>3. /\ Neighbours(next) \subseteq Router
      /\ next \notin Neighbours(next)
  BY <1>2, NeighboursAreMutual
<1>4. /\ \A v \in Router : distance[v] \in Nat /\ distance[v] <= INFINITY
      /\ weight \in Nat
      /\ done \subseteq Router
      /\ INFINITY \in Nat
  BY <1>2, Numbers DEF SearchTypes
<1>5. \A v \in nearer : /\ v \in Router
                        /\ v \in Neighbours(next)
                        /\ distance[v] > weight
                        /\ weight < INFINITY
                        /\ distance[next] # INFINITY
  BY <1>2, <1>3, <1>4
<1>6. \A u \in done : distance[u] <= distance[next] /\ u \notin nearer
  BY <1>2, <1>4, <1>5 DEF Searched
<1>7. next \notin nearer /\ self \notin nearer
  BY <1>3, <1>4, <1>5 DEF Searched
<1>8. \A v \in Router : /\ v \in nearer => distance'[v] = weight /\ predecessor'[v] = next
                        /\ v \notin nearer => /\ distance'[v] = distance[v]
                                              /\ predecessor'[v] = predecessor[v]
  BY <1>1
<1>9. SearchTypes(done', distance', predecessor')
  <2>1. done' \subseteq Router
    BY <1>1, <1>2, <1>4
  <2>2. distance' \in [Router -> 0 .. INFINITY]
    <3>1. \A v \in Router : IF v \in nearer THEN weight \in 0 .. INFINITY
                                           ELSE distance[v] \in 0 .. INFINITY
      BY <1>4, <1>5
    <3> HIDE DEF nearer, weight
    <3> QED
      BY <1>1, <3>1
  <2>3. predecessor' \in [Router -> Router \cup {Undefined}]
    <3> HIDE DEF nearer
    <3> QED
      BY <1>1, <1>2 DEF SearchTypes
  <2> QED
    BY <2>1, <2>2, <2>3 DEF SearchTypes
<1>10. /\ Cardinality(done) \in Nat
       /\ Cardinality(done') = Cardinality(done) + 1
  <2>1. IsFiniteSet(done)
    BY <1>4, RoutersAreN, FS_Subset
  <2> QED
    BY <1>1, <1>2, <2>1, FS_AddElement, FS_CardinalityType
<1> DEFINE w == weight
<1>11. w = weight /\ w = distance[next] + 1 /\ w \in Nat
  BY <1>4
<1> HIDE DEF nearer, weight, w
<1>12. ASSUME NEW v \in Router \ {self}, distance'[v] # INFINITY
       PROVE  /\ predecessor'[v] \in done'
              /\ v \in Neighbours(predecessor'[v])
              /\ distance'[v] = distance'[predecessor'[v]] + 1
  <2>1. CASE v \in nearer
    BY <1>1, <1>2, <1>5, <1>7, <1>8, <1>11, <2>1
  <2>2. CASE v \notin nearer
    <3>1. distance'[v] = distance[v] /\ predecessor'[v] = predecessor[v]
      BY <1>8, <2>2
    <3>2. /\ predecessor[v] \in done
          /\ v \in Neighbours(predecessor[v])
          /\ distance[v] = distance[predecessor[v]] + 1
      BY <1>12, <3>1 DEF Searched
    <3>3. distance'[predecessor[v]] = distance[predecessor[v]]
      BY <1>4, <1>6, <1>8, <3>2
    <3> QED
      BY <1>1, <3>1, <3>2, <3>3
  <2> QED
    BY <2>1, <2>2
<1>13. ASSUME NEW u \in done', NEW x \in Neighbours(u)
       PROVE  distance'[x] <= distance'[u] + 1
  <2>1. u \in Router /\ x \in Router
    BY <1>1, <1>2, <1>4, NeighboursAreMutual
  <2>2. distance'[u] = distance[u] /\ distance[u] \in Nat /\ distance[x] \in Nat
    BY <1>1, <1>4, <1>6, <1>7, <1>8, <2>1
  <2>3. distance'[x] <= distance[x] /\ distance'[x] \in Nat
    BY <1>4, <1>5, <1>8, <1>11, <2>1, <2>2
  <2>4. CASE u \in done
    <3>1. distance[x] <= distance[u] + 1
      BY <2>4 DEF Searched
    <3> QED
      BY <2>2, <2>3, <3>1
  <2>5. CASE u = next
    <3>1. x \notin nearer => distance[x] <= w
      BY <1>4, <1>11, <2>2, <2>5 DEF nearer
    <3> QED
      BY <1>8, <1>11, <2>1, <2>2, <2>5, <3>1
  <2> QED
    BY <1>1, <2>4, <2>5
<1>14. ASSUME NEW u \in done', NEW x \in Router \ done'
       PROVE  distance'[u] <= distance'[x]
  <2>1. u \in Router /\ x \in Router \ done
    BY <1>1, <1>2, <1>4
  <2>2. distance'[u] = distance[u] /\ distance[u] \in Nat /\ distance[x] \in Nat
    BY <1>1, <1>4, <1>6, <1>7, <1>8, <2>1
  <2>3. distance[next] \in Nat /\ distance[u] <= distance[next]
    BY <1>1, <1>2, <1>4, <1>6
  <2>4. distance[next] <= distance'[x] /\ distance'[x] \in Nat
    BY <1>2, <1>8, <1>11, <2>1, <2>2, <2>3
  <2> QED
    BY <2>2, <2>3, <2>4
<1>15. ASSUME NEW v \in Router, distance'[v] # INFINITY
       PROVE  distance'[v] <= Cardinality(done')
  <2>1. CASE v \in nearer
    <3>1. distance[next] # INFINITY /\ distance'[v] = distance[next] + 1
      BY <1>5, <1>8, <1>11, <2>1
    <3>2. distance[next] <= Cardinality(done) /\ distance[next] \in Nat
      BY <1>2, <1>4, <3>1 DEF Searched
    <3> QED
      BY <1>10, <3>1, <3>2
  <2>2. CASE v \notin nearer
    <3>1. distance[v] <= Cardinality(done) /\ distance'[v] = distance[v]
      BY <1>8, <1>15, <2>2 DEF Searched
    <3> QED
      BY <1>4, <1>10, <3>1
  <2> QED
    BY <2>1, <2>2
<1>16. distance'[self] = 0
  BY <1>7, <1>8 DEF Searched
<1> QED
  BY <1>9, <1>12, <1>13, <1>14, <1>15, <1>16 DEF Searched

\* The search of the next router begins.
LEMMA StartSearches ==
  ASSUME NEW self \in Router, SearchTypes(done, distance, predecessor),
         Start(self), predecessor' = predecessor
  PROVE  /\ SearchTypes(done', distance', predecessor')
         /\ Searched(self, done', distance', predecessor')
<1>1. /\ done' = {}
      /\ distance' = [v \in Router |-> IF v = self THEN 0 ELSE INFINITY]
  BY DEF Start
<1>2. SearchTypes(done', distance', predecessor')
  BY <1>1, Numbers DEF SearchTypes
<1>3. Cardinality({}) = 0
  BY FS_EmptySet
<1> QED
  BY <1>1, <1>2, <1>3, Numbers DEF Searched

\* All routers are visited, by the search of router self.
Complete(self, dn, d, pred) ==
  /\ SearchTypes(dn, d, pred)
  /\ Searched(self, dn, d, pred)
  /\ dn = Router

\* As the map is connected, every router has a distance then, and but for
\* self a predecessor that is nearer by a link.
LEMMA AllAreReached ==
  ASSUME topo \in Topology, NEW self \in Router, NEW dn, NEW d, NEW pred,
         Complete(self, dn, d, pred)
  PROVE  /\ d[self] = 0
         /\ \A v \in Router : d[v] \in 0 .. N
         /\ \A v \in Router \ {self} :
              /\ pred[v] \in Router
              /\ v \in Neighbours(pred[v])
              /\ d[v] = d[pred[v]] + 1
         /\ \A u \in Router : \A w \in Neighbours(u) : d[w] <= d[u] + 1
<1>1. \A v \in Router : d[v] \in Nat
  BY Numbers DEF Complete, SearchTypes
<1> DEFINE part == {v \in Router : d[v] # INFINITY}
<1>2. part # {} /\ part \subseteq Router
  BY Numbers DEF Complete, Searched
<1>3. \A v \in part : d[v] <= N
  BY RoutersAreN DEF Complete, Searched
<1>4. part = Router
  <2> SUFFICES ASSUME part # Router
               PROVE  FALSE
    OBVIOUS
  <2>1. part \in (SUBSET Router) \ {{}, Router}
    BY <1>2
  <2>2. Connects(topo)
    BY SimulatorAssumption
  <2>3. PICK a \in part, b \in Router \ part : {a, b} \in topo
    BY <2>1, <2>2 DEF Connects
  <2>4. b \in Neighbours(a)
    BY <1>2, <2>3, NeighboursAreMutual
  <2>5. d[b] <= d[a] + 1
    BY <1>2, <2>4 DEF Complete, Searched
  <2> QED
    BY <1>1, <1>2, <1>3, <2>3, <2>5, Numbers
<1>5. \A v \in Router : d[v] # INFINITY
  BY <1>4
<1> QED
  BY <1>1, <1>3, <1>4, <1>5, Numbers DEF Complete, Searched

\* What is within n links of a router is no farther than n.
LEMMA BallIsNear ==
  ASSUME topo \in Topology, NEW self \in Router, NEW dn, NEW d, NEW pred,
         Complete(self, dn, d, pred), NEW n \in 0 .. N
  PROVE  \A v \in Ball(self)[n] : v \in Router /\ d[v] <= n
<1>1. /\ d[self] = 0
      /\ \A v \in Router : d[v] \in 0 .. N
      /\ \A u \in Router : \A w \in Neighbours(u) : d[w] <= d[u] + 1
  BY AllAreReached
<1> DEFINE Good == {k \in Nat : k <= N =>
                      \A v \in Ball(self)[k] : v \in Router /\ d[v] <= k}
<1>2. 0 \in Good
  BY <1>1, BallIs
<1>3. \A k \in Nat : k \in Good => k + 1 \in Good
  <2> SUFFICES ASSUME NEW k \in Nat, k \in Good, k + 1 <= N,
                      NEW v \in Ball(self)[k + 1]
               PROVE  v \in Router /\ d[v] <= k + 1
    OBVIOUS
  <2>1. \A u \in Ball(self)[k] : u \in Router /\ d[u] <= k
    BY Numbers
  <2>2. k + 1 \in 1 .. N /\ k + 1 - 1 = k
    BY Numbers
  <2>3. v \in Ball(self)[k] \cup Around(Ball(self)[k])
    BY <2>2, BallIs
  <2>4. CASE v \in Ball(self)[k]
    BY <1>1, <2>1, <2>4, Numbers
  <2>5. CASE v \in Around(Ball(self)[k])
    <3>1. PICK u \in Ball(self)[k] : v \in Neighbours(u)
      BY <2>5 DEF Around
    <3>2. u \in Router /\ v \in Router /\ d[v] <= d[u] + 1 /\ d[u] <= k
      BY <1>1, <2>1, <3>1, NeighboursAreMutual
    <3> QED
      BY <1>1, <3>2, Numbers
  <2> QED
    BY <2>3, <2>4, <2>5
<1>4. n \in Good
  <2> HIDE DEF Good
  <2> QED
    BY <1>2, <1>3, SetInduction
<1> QED
  BY <1>4, Numbers

\* A packet for b that a gives to its neighbour c is nearer to b there.
Nearer(a, b, c) ==
  /\ c \in Neighbours(a)
  /\ \A n \in 1 .. N : b \in Ball(a)[n] => b \in Ball(c)[n - 1]

\* Following the predecessors back from v leads to the neighbour of self
\* where a shortest way to v starts.
LEMMA StartRouteIsNearer ==
  ASSUME topo \in Topology, Self \in Router,
         Complete(Self, done, distance, predecessor),
         NEW v \in Router \ {Self}
  PROVE  Nearer(Self, v, StartRoute(v))
<1> DEFINE S == Router \ {Self}
           d == distance
           pred == predecessor
           After(x) == IF pred[x] = Self THEN x ELSE pred[x]
           Back(f) == f = [k \in 0 .. N |-> IF k = 0 THEN v ELSE After(f[k - 1])]
           step == [k \in 1 .. N |-> [x \in S |-> After(x)]]
<1>1. /\ N \in Nat \ {0}
      /\ d[Self] = 0
      /\ \A x \in Router : d[x] \in 0 .. N /\ d[x] \in Nat
      /\ \A x \in S : /\ pred[x] \in Router
                      /\ x \in Neighbours(pred[x])
                      /\ d[x] = d[pred[x]] + 1
  BY AllAreReached, Numbers
<1> HIDE DEF d, pred
<1>2. \A x \in S : After(x) \in S
  BY <1>1
<1>3. step \in [1 .. N -> [S -> S]]
  <2> HIDE DEF S, After
  <2> QED
    BY <1>2
<1>4. PICK f \in [0 .. N -> S] :
        f[0] = v /\ \A k \in 1 .. N : f[k] = step[k][f[k - 1]]
  <2>1. Iterates(N, S, v, step)
    <3> HIDE DEF step
    <3> QED
      BY <1>1, <1>3, Recursion
  <2> QED
    BY <2>1 DEF Iterates
<1>5. Back(f)
  <2> HIDE DEF S, After
  <2>1. \A k \in 1 .. N : f[k - 1] \in S
    BY <1>1
  <2>2. \A k \in 1 .. N : f[k] = After(f[k - 1])
    BY <1>4, <2>1
  <2>3. \A k \in 0 .. N : f[k] = IF k = 0 THEN v ELSE After(f[k - 1])
    <3> HIDE DEF step
    <3> QED
      BY <1>1, <1>4, <2>2
  <2> QED
    BY <2>3
<1> DEFINE h == CHOOSE g : Back(g)
<1>6. StartRoute(v) = h[N]
  BY DEF StartRoute, pred
<1>7. Back(h)
  <2> HIDE DEF Back
  <2> QED
    BY <1>5
<1> HIDE DEF h, After
<1>8. \A k \in 0 .. N : h[k] = IF k = 0 THEN v ELSE After(h[k - 1])
  BY <1>7
<1>9. /\ h[0] = v
      /\ \A k \in 1 .. N : h[k] = After(h[k - 1])
  <2>1. 0 \in 0 .. N
    BY <1>1
  <2>2. \A k \in 1 .. N : k \in 0 .. N /\ k # 0
    BY <1>1
  <2> QED
    BY <1>8, <2>1, <2>2
\* After k steps there is a way on to v, and either self is next or the way
\* is k links long at least.
<1> DEFINE Behind(u, k) == /\ u \in S
                           /\ d[v] - d[u] \in Nat
                           /\ v \in Ball(u)[d[v] - d[u]]
                           /\ d[u] + k <= d[v] \/ pred[u] = Self
           Good == {k \in Nat : k <= N => Behind(h[k], k)}
<1>10. 0 \in Good
  <2>1. d[v] - d[v] = 0 /\ d[v] + 0 <= d[v]
    BY <1>1
  <2>2. v \in Ball(v)[0]
    BY BallIs
  <2>3. Behind(v, 0)
    BY <2>1, <2>2
  <2> HIDE DEF Behind
  <2> QED
    BY <1>9, <2>3
<1>11. \A k \in Nat : k \in Good => k + 1 \in Good
  <2> SUFFICES ASSUME NEW k \in Nat, k + 1 <= N, Behind(h[k], k)
               PROVE  Behind(h[k + 1], k + 1)
    <3>1. \A k \in Nat : k + 1 <= N => k <= N
      BY <1>1
    <3> HIDE DEF Behind
    <3> QED
      BY <3>1
  <2> DEFINE u == h[k]
             p == pred[u]
             i == k + 1
  <2>1. i \in 1 .. N /\ i - 1 = k /\ i = k + 1
    BY <1>1
  <2> HIDE DEF i
  <2>2. h[i] = IF p = Self THEN u ELSE p
    BY <1>9, <2>1 DEF After
  <2>3. Behind(u, k)
    OBVIOUS
  <2> HIDE DEF u
  <2>4. CASE p = Self
    BY <2>1, <2>2, <2>3, <2>4
  <2>5. CASE p # Self
    <3>1. /\ u \in S
          /\ p \in S
          /\ u \in Neighbours(p)
          /\ d[u] = d[p] + 1
          /\ d[u] \in Nat /\ d[p] \in Nat /\ d[v] \in Nat /\ d[v] <= N
      BY <1>1, <2>3, <2>5
    <3> DEFINE m == d[v] - d[u]
    <3>2. m \in Nat /\ v \in Ball(u)[m] /\ d[u] + k <= d[v]
      BY <2>3, <2>5
    <3>3. m + 1 = d[v] - d[p]
      BY <3>1
    <3>4. m + 1 <= N /\ m + 1 \in Nat /\ d[p] + i <= d[v]
      <4>1. m + 1 \in Nat
        BY <3>2
      <4>2. d[p] + i <= d[v]
        BY <2>1, <3>1, <3>2
      <4>3. m + 1 <= N
        BY <3>1, <3>3, Numbers
      <4> QED
        BY <4>1, <4>2, <4>3
    <3> HIDE DEF m
    <3>5. v \in Ball(p)[m + 1]
      BY <3>1, <3>2, <3>4, BallBehind
    <3> HIDE DEF p
    <3>6. Behind(p, i)
      BY <3>1, <3>3, <3>4, <3>5
    <3> HIDE DEF Behind
    <3> QED
      BY <2>1, <2>2, <2>5, <3>6
  <2> QED
    BY <2>4, <2>5
<1>12. Behind(h[N], N)
  <2>1. N \in Good
    <3> HIDE DEF Good
    <3> QED
      BY <1>1, <1>10, <1>11, SetInduction
  <2> HIDE DEF Behind
  <2> QED
    BY <1>1, <2>1
<1> DEFINE c == h[N]
<1>13. /\ c \in S
       /\ d[v] - d[c] \in Nat
       /\ v \in Ball(c)[d[v] - d[c]]
       /\ d[c] + N <= d[v] \/ pred[c] = Self
  BY <1>12
<1> HIDE DEF c
<1>14. pred[c] = Self /\ d[c] = 1 /\ c \in Neighbours(Self)
  <2>1. /\ c \in Router /\ c \in Neighbours(pred[c])
        /\ d[c] = d[pred[c]] + 1 /\ d[pred[c]] \in Nat /\ d[v] <= N
        /\ d[v] \in Nat /\ d[c] \in Nat
    BY <1>1, <1>13
  <2>2. ~(d[c] + N <= d[v])
    BY <1>1, <2>1
  <2> QED
    BY <1>1, <1>13, <2>1, <2>2
<1>15. ASSUME NEW n \in 1 .. N, v \in Ball(Self)[n]
       PROVE  v \in Ball(c)[n - 1]
  <2>1. d[v] <= n
    BY <1>1, <1>15, BallIsNear DEF d
  <2> DEFINE m == d[v] - 1
  <2>2. m \in Nat /\ n - 1 \in m .. N /\ v \in Ball(c)[m]
    BY <1>1, <1>13, <1>14, <2>1
  <2> HIDE DEF m
  <2>3. Ball(c)[m] \subseteq Ball(c)[n - 1]
    BY <1>13, <2>2, BallGrows
  <2> QED
    BY <2>2, <2>3
<1> QED
  BY <1>6, <1>14, <1>15 DEF Nearer, c

-----------------------------------------------------------------------------
(* The tables of all routers.                                              *)

\* A table: where the packets for some routers go.
Table == UNION {[R -> Router] : R \in SUBSET Router}

\* The tables that are complete lead along shortest ways.
TablesLead ==
  \A a \in DOMAIN routingTable : \A b \in Router \ {a} : OnShortestWay(a, b)

TableInv ==
  /\ pc \in {"tables", "select", "run"}
  /\ topo \in Topology
  /\ routingTable \in Seq(Table)
  /\ pc = "tables" => /\ Self \in Router
                      /\ SearchTypes(done, distance, predecessor)
                      /\ Searched(Self, done, distance, predecessor)
  /\ TablesLead

\* Ways depend on the map only.
LEMMA SameWays ==
  ASSUME topo' = topo
  PROVE  /\ \A a : Neighbours(a)' = Neighbours(a)
         /\ \A a, b, c : Nearer(a, b, c)' <=> Nearer(a, b, c)
<1>1. \A a : Neighbours(a)' = Neighbours(a)
  BY Zenon DEF Neighbours
<1>2. \A a : Ball(a)' = Ball(a)
  BY SMT DEF Ball, Neighbours
<1>3. \A a, b, c : Nearer(a, b, c)' <=> Nearer(a, b, c)
  BY <1>1, <1>2, SMT DEF Nearer
<1> QED
  BY <1>1, <1>3

\* A search is one of what the state says then.
LEMMA SearchedThen ==
  ASSUME topo' = topo, NEW self, Self' = self,
         Searched(self, done', distance', predecessor')
  PROVE  Searched(Self, done, distance, predecessor)'
<1> USE SMT DEF Searched
<1>1. \A a : Neighbours(a)' = Neighbours(a)
  BY SameWays
<1>2. distance[Self]' = 0
  OBVIOUS
<1>3. ASSUME NEW v \in Router \ {self}, (distance[v] # INFINITY)'
      PROVE  (predecessor[v] \in done /\ v \in Neighbours(predecessor[v])
                /\ distance[v] = distance[predecessor[v]] + 1)'
  <2>1. /\ predecessor'[v] \in done'
        /\ v \in Neighbours(predecessor'[v])
        /\ distance'[v] = distance'[predecessor'[v]] + 1
    BY <1>3
  <2>2. (v \in Neighbours(predecessor[v]))'
    BY <2>1 DEF Neighbours
  <2> QED
    BY <2>1, <2>2
<1>4. ASSUME NEW u \in done', NEW w \in Neighbours(u)'
      PROVE  distance'[w] <= distance'[u] + 1
  <2>1. w \in Neighbours(u)
    BY <1>1, <1>4
  <2> QED
    BY <2>1
<1>5. ASSUME NEW u \in done', NEW w \in Router \ done'
      PROVE  distance'[u] <= distance'[w]
  OBVIOUS
<1>6. ASSUME NEW v \in Router, distance'[v] # INFINITY
      PROVE  distance'[v] <= Cardinality(done)'
  <2>1. distance'[v] <= Cardinality(done')
    BY <1>6
  <2> QED
    BY <2>1
<1> QED
  BY <1>2, <1>3, <1>4, <1>5, <1>6

\* The start of the first search.
LEMMA InitTable == Init => TableInv
<1> SUFFICES ASSUME Init PROVE TableInv
  OBVIOUS
<1>1. /\ pc = "tables" /\ topo \in Topology /\ routingTable = <<>> /\ done = {}
      /\ distance = [v \in Router |-> IF v = 1 THEN 0 ELSE INFINITY]
      /\ predecessor = [v \in Router |-> Undefined]
  BY DEF Init
<1>2. Self = 1 /\ Self \in Router
  BY <1>1, Numbers DEF Self, Router
<1>3. SearchTypes(done, distance, predecessor)
  BY <1>1, Numbers DEF SearchTypes
<1>4. Cardinality({}) = 0
  BY FS_EmptySet
<1>5. Searched(Self, done, distance, predecessor)
  BY <1>1, <1>2, <1>4, Numbers DEF Searched
<1>6. TablesLead
  BY <1>1 DEF TablesLead
<1>7. routingTable \in Seq(Table)
  BY <1>1
<1> QED
  BY <1>1, <1>2, <1>3, <1>5, <1>6, <1>7 DEF TableInv

\* A step that changes neither tables nor map changes no way.
LEMMA SameTables ==
  ASSUME TablesLead, routingTable' = routingTable, topo' = topo
  PROVE  TablesLead'
<1>1. ASSUME NEW a \in DOMAIN routingTable, NEW b \in Router \ {a}
      PROVE  OnShortestWay(a, b)'
  <2>1. PICK c : c = routingTable[a][b] /\ Nearer(a, b, c)
    BY DEF TablesLead, OnShortestWay, Nearer
  <2>2. Nearer(a, b, c)'
    BY <2>1, SameWays
  <2>3. routingTable'[a][b] = c
    BY <2>1
  <2> QED
    BY <2>2, <2>3 DEF OnShortestWay, Nearer
<1> QED
  BY <1>1 DEF TablesLead

\* A row that is added is one of shortest ways, and the next search, if
\* there is one, starts with the predecessors of this one.
LEMMA FillTableKeepsTable ==
  ASSUME TableInv, FillTable
  PROVE  TableInv'
<1> DEFINE row == [v \in Router \ {Self} |-> StartRoute(v)]
<1>1. /\ pc = "tables" /\ done = Router /\ topo' = topo
      /\ predecessor' = predecessor /\ routingTable' = Append(routingTable, row)
      /\ \/ Self = N /\ pc' = "select"
         \/ Self # N /\ pc' = "tables" /\ Start(Self + 1)
  BY DEF FillTable, table_vars
<1>2. /\ topo \in Topology /\ routingTable \in Seq(Table) /\ Self \in Router
      /\ SearchTypes(done, distance, predecessor)
      /\ Searched(Self, done, distance, predecessor)
      /\ TablesLead
  BY <1>1 DEF TableInv
<1>3. Complete(Self, done, distance, predecessor)
  BY <1>1, <1>2 DEF Complete
<1>4. \A v \in Router \ {Self} : Nearer(Self, v, row[v])
  <2> SUFFICES ASSUME NEW v \in Router \ {Self}
               PROVE  Nearer(Self, v, row[v])
    OBVIOUS
  <2>1. Nearer(Self, v, StartRoute(v))
    BY <1>2, <1>3, StartRouteIsNearer
  <2>2. row[v] = StartRoute(v)
    OBVIOUS
  <2> QED
    BY <2>1, <2>2
<1>5. row \in Table
  <2>1. \A v \in Router \ {Self} : row[v] \in Router
    BY <1>4 DEF Nearer, Neighbours
  <2>2. row \in [Router \ {Self} -> Router]
    BY <2>1
  <2> HIDE DEF row
  <2> QED
    BY <2>2 DEF Table
<1> HIDE DEF row
<1>6. /\ routingTable' \in Seq(Table)
      /\ Len(routingTable') = Self
      /\ routingTable'[Self] = row
      /\ \A a \in DOMAIN routingTable : routingTable'[a] = routingTable[a]
      /\ DOMAIN routingTable' = DOMAIN routingTable \cup {Self}
  BY <1>1, <1>2, <1>5 DEF Self
<1>7. ASSUME NEW a \in DOMAIN routingTable', NEW b \in Router \ {a}
      PROVE  OnShortestWay(a, b)'
  <2>1. PICK c : c = routingTable'[a][b] /\ Nearer(a, b, c)
    <3>1. CASE a = Self
      BY <1>4, <1>6, <3>1
    <3>2. CASE a \in DOMAIN routingTable
      BY <1>2, <1>6, <3>2 DEF TablesLead, OnShortestWay, Nearer
    <3> QED
      BY <1>6, <3>1, <3>2
  <2>2. Nearer(a, b, c)'
    BY <1>1, <2>1, SameWays
  <2> QED
    BY <2>1, <2>2 DEF OnShortestWay, Nearer
<1>8. TablesLead'
  BY <1>7 DEF TablesLead
<1>9. CASE Self = N /\ pc' = "select"
  BY <1>1, <1>2, <1>6, <1>8, <1>9 DEF TableInv
<1>10. CASE Self # N /\ pc' = "tables" /\ Start(Self + 1)
  <2> DEFINE other == Self + 1
  <2>1. other \in Router /\ Start(other) /\ Self' = other
    BY <1>2, <1>6, <1>10, Numbers DEF Self, Router
  <2> HIDE DEF other
  <2>2. PICK self \in Router : self = other
    BY <2>1
  <2>3. /\ SearchTypes(done', distance', predecessor')
        /\ Searched(self, done', distance', predecessor')
    BY <1>1, <1>2, <2>1, <2>2, StartSearches
  <2>4. Searched(Self, done, distance, predecessor)'
    BY <1>1, <2>1, <2>2, <2>3, SearchedThen
  <2>5. SearchTypes(done, distance, predecessor)'
    BY <2>3 DEF SearchTypes
  <2> QED
    BY <1>1, <1>2, <1>6, <1>8, <1>10, <2>1, <2>4, <2>5 DEF TableInv
<1> QED
  BY <1>1, <1>9, <1>10

LEMMA VisitKeepsTable ==
  ASSUME TableInv, Visit
  PROVE  TableInv'
<1>1. /\ pc = "tables" /\ pc' = pc /\ topo' = topo
      /\ routingTable' = routingTable
  BY DEF Visit, table_vars
<1>2. PICK self \in Router : self = Self
  BY <1>1 DEF TableInv
<1>3. /\ SearchTypes(done', distance', predecessor')
      /\ Searched(self, done', distance', predecessor')
  BY <1>1, <1>2, VisitSearches DEF TableInv
<1>4. Self' = self
  BY <1>1, <1>2 DEF Self
<1>5. Searched(Self, done, distance, predecessor)'
  BY <1>1, <1>3, <1>4, SearchedThen
<1>6. SearchTypes(done, distance, predecessor)'
  BY <1>3 DEF SearchTypes
<1>7. TablesLead'
  BY <1>1, SameTables DEF TableInv
<1> QED
  BY <1>1, <1>2, <1>4, <1>5, <1>6, <1>7 DEF TableInv

\* The loop starts when all tables are complete, and changes none.
LEMMA LoopKeepsTable ==
  ASSUME TableInv, UNCHANGED table_vars,
         pc' = pc \/ (pc # "tables" /\ pc' \in {"select", "run"})
  PROVE  TableInv'
<1>1. /\ topo' = topo /\ done' = done /\ distance' = distance
      /\ predecessor' = predecessor /\ routingTable' = routingTable
  BY DEF table_vars
<1>2. TablesLead'
  BY <1>1, SameTables DEF TableInv
<1>3. CASE pc' # "tables"
  BY <1>1, <1>2, <1>3 DEF TableInv
<1>4. CASE pc' = "tables"
  <2>1. pc = "tables"
    BY <1>4
  <2>2. PICK self \in Router : self = Self
    BY <2>1 DEF TableInv
  <2>3. /\ SearchTypes(done', distance', predecessor')
        /\ Searched(self, done', distance', predecessor')
    BY <1>1, <2>1, <2>2 DEF TableInv
  <2>4. Self' = self
    BY <1>1, <2>2 DEF Self
  <2>5. Searched(Self, done, distance, predecessor)'
    BY <1>1, <2>3, <2>4, SearchedThen
  <2>6. SearchTypes(done, distance, predecessor)'
    BY <2>3 DEF SearchTypes
  <2> QED
    BY <1>1, <1>2, <1>4, <2>2, <2>4, <2>5, <2>6 DEF TableInv
<1> QED
  BY <1>3, <1>4

LEMMA StepKeepsTable == TableInv /\ [Next]_vars => TableInv' /\ [TableStep]_vars
<1> SUFFICES ASSUME TableInv, [Next]_vars
             PROVE  TableInv' /\ [TableStep]_vars
  OBVIOUS
<1>1. TableInv'
  <2>1. CASE Visit
    BY <2>1, VisitKeepsTable
  <2>2. CASE FillTable
    BY <2>2, FillTableKeepsTable
  <2>3. CASE \E f \in Flow, size \in Size : Send(f, size)
    BY <2>3, LoopKeepsTable DEF Send
  <2>4. CASE Receive
    BY <2>4, LoopKeepsTable DEF Receive
  <2>5. CASE Wake
    BY <2>5, LoopKeepsTable DEF Wake
  <2>6. CASE Run
    BY <2>6, LoopKeepsTable DEF Run
  <2>7. CASE NothingToRun
    BY <2>7, LoopKeepsTable DEF NothingToRun
  <2>8. CASE Tick
    BY <2>8, LoopKeepsTable DEF Tick
  <2>9. CASE UNCHANGED vars
    BY <2>9, LoopKeepsTable DEF vars
  <2> QED
    BY <2>1, <2>2, <2>3, <2>4, <2>5, <2>6, <2>7, <2>8, <2>9 DEF Next, Progress
<1>2. TableStep
  BY <1>1 DEF TableInv, TablesLead, TableStep
<1> QED
  BY <1>1, <1>2

\* Every routing table leads along shortest ways, whatever the map, the
\* router and the predecessors that the search before left (createTable and
\* the loop over @routers, hupsim.pl).
THEOREM TablesAreShortest == Spec => ShortestWays
<1>1. TableInv /\ [Next]_vars => TableInv' /\ [TableStep]_vars
  BY StepKeepsTable
<1> QED
  BY <1>1, InitTable, PTL DEF Spec, ShortestWays

-----------------------------------------------------------------------------
(* The packets of a flow.                                                  *)

\* A run of Of: what was taken of the first k packets.
OfRun(f, s, h) ==
  /\ h \in [0 .. Len(s) -> Seq(Packet)]
  /\ h[0] = <<>>
  /\ \A k \in 1 .. Len(s) :
       h[k] = IF s[k].flow = f THEN Append(h[k - 1], s[k]) ELSE h[k - 1]

\* Of is the end of its run.
LEMMA OfHasRun ==
  ASSUME NEW f, NEW s \in Seq(Packet)
  PROVE  \E h : OfRun(f, s, h) /\ Of(f, s) = h[Len(s)]
<1> DEFINE n == Len(s)
           S == Seq(Packet)
           After(x, k) == IF s[k].flow = f THEN Append(x, s[k]) ELSE x
           Some(h) == h = [k \in 0 .. n |-> IF k = 0 THEN <<>>
                                            ELSE After(h[k - 1], k)]
           step == [k \in 1 .. n |-> [x \in S |-> After(x, k)]]
<1>1. n \in Nat
  BY LenProperties
<1>2. \A k \in 1 .. n : \A x \in S : After(x, k) \in S
  <2> TAKE k \in 1 .. n
  <2>1. s[k] \in Packet
    BY <1>1, ElementOfSeq
  <2> QED
    BY <2>1, AppendProperties
<1>3. step \in [1 .. n -> [S -> S]]
  <2> HIDE DEF After, n, S
  <2> QED
    BY <1>2
<1>4. PICK g \in [0 .. n -> S] :
        g[0] = <<>> /\ \A k \in 1 .. n : g[k] = step[k][g[k - 1]]
  <2>1. Iterates(n, S, <<>>, step)
    <3>1. <<>> \in S
      OBVIOUS
    <3> HIDE DEF step, n, S
    <3> QED
      BY <1>1, <1>3, <3>1, Recursion
  <2> QED
    BY <2>1 DEF Iterates
<1> HIDE DEF S
<1>5. \A k \in 1 .. n : g[k] = After(g[k - 1], k)
  <2>1. \A k \in 1 .. n : k - 1 \in 0 .. n
    BY <1>1
  <2>2. \A k \in 1 .. n : step[k][g[k - 1]] = After(g[k - 1], k)
    <3> HIDE DEF After
    <3> QED
      BY <1>1, <1>4, <2>1
  <2> HIDE DEF step
  <2> QED
    BY <1>4, <2>2
<1>6. Some(g)
  <2> HIDE DEF n, After
  <2>1. \A k \in 0 .. n : g[k] = IF k = 0 THEN <<>> ELSE After(g[k - 1], k)
    BY <1>1, <1>4, <1>5
  <2> QED
    BY <1>4, <2>1
<1> DEFINE h == CHOOSE x : Some(x)
<1>7. Of(f, s) = h[n]
  BY DEF Of
<1>8. Some(h)
  <2> HIDE DEF Some
  <2> QED
    BY <1>6
<1> HIDE DEF h
<1>9. h[0] = <<>> /\ \A k \in 1 .. n : h[k] = After(h[k - 1], k)
  <2>1. \A k \in 0 .. n : h[k] = IF k = 0 THEN <<>> ELSE After(h[k - 1], k)
    <3> HIDE DEF n, After
    <3> QED
      BY <1>8
  <2> HIDE DEF n, After
  <2> QED
    BY <1>1, <2>1
<1> DEFINE Good == {k \in Nat : k <= n => h[k] \in S}
<1>10. 0 \in Good
  <2>1. <<>> \in S
    BY DEF S
  <2> HIDE DEF After, n
  <2> QED
    BY <1>9, <2>1
<1>11. \A k \in Nat : k \in Good => k + 1 \in Good
  <2> SUFFICES ASSUME NEW k \in Nat, k \in Good, k + 1 <= n
               PROVE  h[k + 1] \in S
    OBVIOUS
  <2>1. h[k] \in S /\ k + 1 \in 1 .. n /\ k + 1 - 1 = k
    BY <1>1
  <2> HIDE DEF After, n
  <2> QED
    BY <1>2, <1>9, <2>1
<1>12. \A k \in 0 .. n : h[k] \in S
  <2>1. Nat \subseteq Good
    <3> HIDE DEF Good
    <3> QED
      BY <1>10, <1>11, SetInduction
  <2> QED
    BY <1>1, <2>1
<1>13. h \in [0 .. n -> S]
  <2>1. h = [k \in 0 .. n |-> h[k]]
    <3> HIDE DEF After, n
    <3> QED
      BY <1>8
  <2> HIDE DEF Some, n
  <2> QED
    BY <1>12, <2>1
<1>14. OfRun(f, s, h)
  BY <1>9, <1>13 DEF OfRun, S
<1> QED
  BY <1>7, <1>14

\* Runs over the same packets take the same.
LEMMA OfRunsAgree ==
  ASSUME NEW f, NEW s \in Seq(Packet), NEW t \in Seq(Packet), NEW g, NEW h,
         OfRun(f, s, g), OfRun(f, t, h),
         NEW n \in Nat, n <= Len(s), n <= Len(t),
         \A k \in 1 .. n : s[k] = t[k]
  PROVE  g[n] = h[n]
<1> DEFINE Good == {k \in Nat : k <= n => g[k] = h[k]}
<1>1. 0 \in Good
  BY DEF OfRun
<1>2. \A k \in Nat : k \in Good => k + 1 \in Good
  <2> SUFFICES ASSUME NEW k \in Nat, k \in Good, k + 1 <= n
               PROVE  g[k + 1] = h[k + 1]
    OBVIOUS
  <2> DEFINE m == k + 1
  <2>1. Len(s) \in Nat /\ Len(t) \in Nat
    BY LenProperties
  <2>2. g[k] = h[k] /\ m - 1 = k /\ m \in 1 .. n
        /\ m \in 1 .. Len(s) /\ m \in 1 .. Len(t)
    BY <2>1
  <2> HIDE DEF m
  <2>3. s[m] = t[m]
    BY <2>2
  <2>4. g[m] = h[m]
    BY <2>2, <2>3 DEF OfRun
  <2> QED
    BY <2>4 DEF m
<1>3. n \in Good
  <2> HIDE DEF Good
  <2> QED
    BY <1>1, <1>2, SetInduction
<1> QED
  BY <1>3

\* Of nothing there is nothing; of a packet more there is that packet more,
\* if it is of the flow.
LEMMA OfAppend ==
  ASSUME NEW f, NEW s \in Seq(Packet)
  PROVE  /\ Of(f, s) \in Seq(Packet)
         /\ Of(f, <<>>) = <<>>
         /\ \A x \in Packet :
              Of(f, Append(s, x)) = IF x.flow = f THEN Append(Of(f, s), x)
                                                  ELSE Of(f, s)
<1>1. PICK g : OfRun(f, s, g) /\ Of(f, s) = g[Len(s)]
  BY OfHasRun
<1>2. Len(s) \in Nat
  BY LenProperties
<1>3. Of(f, s) \in Seq(Packet)
  BY <1>1, <1>2 DEF OfRun
<1>4. Of(f, <<>>) = <<>>
  <2>1. <<>> \in Seq(Packet) /\ Len(<<>>) = 0
    OBVIOUS
  <2>2. PICK h : OfRun(f, <<>>, h) /\ Of(f, <<>>) = h[Len(<<>>)]
    BY <2>1, OfHasRun
  <2> QED
    BY <2>1, <2>2 DEF OfRun
<1>5. ASSUME NEW x \in Packet
      PROVE  Of(f, Append(s, x)) = IF x.flow = f THEN Append(Of(f, s), x)
                                                 ELSE Of(f, s)
  <2> DEFINE t == Append(s, x)
             m == Len(s) + 1
  <2>1. /\ t \in Seq(Packet) /\ Len(t) = m /\ t[m] = x
        /\ \A k \in 1 .. Len(s) : s[k] = t[k]
    BY AppendProperties
  <2> HIDE DEF t
  <2>2. PICK h : OfRun(f, t, h) /\ Of(f, t) = h[Len(t)]
    BY <2>1, OfHasRun
  <2>3. g[Len(s)] = h[Len(s)]
    BY <1>1, <1>2, <2>1, <2>2, OfRunsAgree
  <2>4. m \in 1 .. Len(t) /\ m - 1 = Len(s)
    BY <1>2, <2>1
  <2> HIDE DEF m
  <2>5. h[m] = IF x.flow = f THEN Append(h[Len(s)], x) ELSE h[Len(s)]
    BY <2>1, <2>2, <2>4 DEF OfRun
  <2>6. Of(f, t) = IF x.flow = f THEN Append(Of(f, s), x) ELSE Of(f, s)
    BY <1>1, <2>1, <2>2, <2>3, <2>5
  <2> QED
    BY <2>6 DEF t
<1> QED
  BY <1>3, <1>4, <1>5

\* A packet more at the end of two sequences is one at the end of the second.
LEMMA AppendConcat ==
  ASSUME NEW s \in Seq(Packet), NEW t \in Seq(Packet), NEW x \in Packet
  PROVE  Append(s \o t, x) = s \o Append(t, x)
<1> DEFINE a == Append(s \o t, x)
           b == s \o Append(t, x)
<1>1. /\ Len(s) \in Nat /\ Len(t) \in Nat
      /\ s \o t \in Seq(Packet) /\ Len(s \o t) = Len(s) + Len(t)
      /\ \A i \in 1 .. Len(s) + Len(t) :
           (s \o t)[i] = IF i <= Len(s) THEN s[i] ELSE t[i - Len(s)]
  BY LenProperties, ConcatProperties
<1>2. /\ Append(t, x) \in Seq(Packet) /\ Len(Append(t, x)) = Len(t) + 1
      /\ \A i \in 1 .. Len(t) : Append(t, x)[i] = t[i]
      /\ Append(t, x)[Len(t) + 1] = x
  BY AppendProperties
<1>3. /\ a \in Seq(Packet) /\ Len(a) = Len(s) + Len(t) + 1
      /\ \A i \in 1 .. Len(s) + Len(t) : a[i] = (s \o t)[i]
      /\ a[Len(s) + Len(t) + 1] = x
  BY <1>1, AppendProperties
<1>4. /\ b \in Seq(Packet) /\ Len(b) = Len(s) + (Len(t) + 1)
      /\ \A i \in 1 .. Len(s) + (Len(t) + 1) :
           b[i] = IF i <= Len(s) THEN s[i] ELSE Append(t, x)[i - Len(s)]
  BY <1>2, ConcatProperties
<1> HIDE DEF a, b
<1>5. ASSUME NEW i \in 1 .. Len(a)
      PROVE  a[i] = b[i]
  <2>1. CASE i <= Len(s)
    BY <1>1, <1>3, <1>4, <1>5, <2>1
  <2>2. CASE i > Len(s) /\ i <= Len(s) + Len(t)
    <3>1. i - Len(s) \in 1 .. Len(t)
      BY <1>1, <1>5, <2>2
    <3>2. b[i] = t[i - Len(s)]
      BY <1>1, <1>2, <1>4, <1>5, <2>2, <3>1
    <3> QED
      BY <1>1, <1>3, <1>5, <2>2, <3>2
  <2>3. CASE i = Len(s) + Len(t) + 1
    <3>1. i - Len(s) = Len(t) + 1 /\ i \in 1 .. Len(s) + (Len(t) + 1) /\ ~(i <= Len(s))
      BY <1>1, <2>3
    <3>2. b[i] = x
      BY <1>2, <1>4, <3>1
    <3> QED
      BY <1>3, <2>3, <3>2
  <2> QED
    BY <1>1, <1>3, <1>5, <2>1, <2>2, <2>3
<1>6. a = b
  <2>1. Len(a) = Len(b)
    BY <1>1, <1>3, <1>4
  <2> QED
    BY <1>3, <1>4, <1>5, <2>1, SeqEqual
<1> QED
  BY <1>6 DEF a, b

\* A sequence that has a packet ends with one.
LEMMA LastIsAppended ==
  ASSUME NEW u \in Seq(Packet), NEW n \in Nat, Len(u) = n + 1
  PROVE  \E v \in Seq(Packet), x \in Packet : Len(v) = n /\ u = Append(v, x)
<1> DEFINE v == SubSeq(u, 1, n)
           x == u[n + 1]
<1>1. \A k \in 1 .. n : u[k] \in Packet
  BY ElementOfSeq
<1>2. v \in Seq(Packet) /\ Len(v) = n /\ \A k \in 1 .. n : v[k] = u[k]
  BY <1>1, SubSeqProperties
<1>3. x \in Packet
  BY ElementOfSeq
<1> HIDE DEF v
<1>4. /\ Append(v, x) \in Seq(Packet) /\ Len(Append(v, x)) = n + 1
      /\ \A k \in 1 .. n : Append(v, x)[k] = v[k]
      /\ Append(v, x)[n + 1] = x
  BY <1>2, <1>3, AppendProperties
<1>5. \A k \in 1 .. n + 1 : u[k] = Append(v, x)[k]
  <2> HIDE DEF x
  <2> TAKE k \in 1 .. n + 1
  <2>1. CASE k = n + 1
    BY <1>4, <2>1 DEF x
  <2>2. CASE k # n + 1
    <3>1. k \in 1 .. n
      BY <2>2
    <3> QED
      BY <1>2, <1>4, <3>1
  <2> QED
    BY <2>1, <2>2
<1>6. u = Append(v, x)
  <2> HIDE DEF x
  <2> QED
    BY <1>4, <1>5, SeqEqual
<1> QED
  BY <1>2, <1>3, <1>6

\* What is of the flow in two sequences is of it in one and the other.
LEMMA OfConcat ==
  ASSUME NEW f, NEW s \in Seq(Packet), NEW t \in Seq(Packet)
  PROVE  Of(f, s \o t) = Of(f, s) \o Of(f, t)
<1> DEFINE Good == {n \in Nat : \A u \in Seq(Packet) :
                      Len(u) = n => Of(f, s \o u) = Of(f, s) \o Of(f, u)}
<1>1. 0 \in Good
  <2> SUFFICES ASSUME NEW u \in Seq(Packet), Len(u) = 0
               PROVE  Of(f, s \o u) = Of(f, s) \o Of(f, u)
    OBVIOUS
  <2>1. u = <<>>
    BY EmptySeq
  <2>2. s \o u = s
    BY <2>1, ConcatEmptySeq
  <2>3. Of(f, s) \in Seq(Packet) /\ Of(f, <<>>) = <<>>
    BY OfAppend
  <2>4. Of(f, s) \o <<>> = Of(f, s)
    BY <2>3, ConcatEmptySeq
  <2> QED
    BY <2>1, <2>2, <2>3, <2>4
<1>2. \A n \in Nat : n \in Good => n + 1 \in Good
  <2> SUFFICES ASSUME NEW n \in Nat, n \in Good,
                      NEW u \in Seq(Packet), Len(u) = n + 1
               PROVE  Of(f, s \o u) = Of(f, s) \o Of(f, u)
    OBVIOUS
  <2>1. PICK v \in Seq(Packet), x \in Packet : Len(v) = n /\ u = Append(v, x)
    BY LastIsAppended
  <2>2. s \o v \in Seq(Packet) /\ s \o u = Append(s \o v, x)
    BY <2>1, AppendConcat, ConcatProperties
  <2>3. Of(f, s \o v) = Of(f, s) \o Of(f, v)
    BY <2>1
  <2>4. Of(f, s) \in Seq(Packet) /\ Of(f, v) \in Seq(Packet)
    BY OfAppend
  <2>5. Of(f, u) = IF x.flow = f THEN Append(Of(f, v), x) ELSE Of(f, v)
    BY <2>1, OfAppend
  <2>6. Of(f, s \o u) = IF x.flow = f THEN Append(Of(f, s \o v), x)
                                      ELSE Of(f, s \o v)
    <3> DEFINE w == s \o v
    <3> HIDE DEF w
    <3>1. Of(f, Append(w, x)) = IF x.flow = f THEN Append(Of(f, w), x)
                                              ELSE Of(f, w)
      BY <2>2, OfAppend DEF w
    <3> QED
      BY <2>2, <3>1 DEF w
  <2>7. Append(Of(f, s) \o Of(f, v), x) = Of(f, s) \o Append(Of(f, v), x)
    BY <2>4, AppendConcat
  <2> QED
    BY <2>3, <2>7, <2>5, <2>6
<1>3. Len(t) \in Good
  <2>1. Len(t) \in Nat
    BY LenProperties
  <2> HIDE DEF Good
  <2> QED
    BY <1>1, <1>2, <2>1, SetInduction
<1> QED
  BY <1>3

\* One packet is of the flow or not.
LEMMA OfOne ==
  ASSUME NEW f, NEW x \in Packet
  PROVE  Of(f, <<x>>) = IF x.flow = f THEN <<x>> ELSE <<>>
<1>1. <<>> \in Seq(Packet) /\ Append(<<>>, x) = <<x>>
  OBVIOUS
<1>2. Of(f, Append(<<>>, x)) = IF x.flow = f THEN Append(Of(f, <<>>), x)
                                             ELSE Of(f, <<>>)
  BY <1>1, OfAppend
<1>3. Of(f, <<>>) = <<>>
  BY <1>1, OfAppend
<1> QED
  BY <1>1, <1>2, <1>3

\* The packets of a queue, with one more, and without one.
LEMMA PacketsOfQueue ==
  ASSUME NEW q \in Seq(Entry)
  PROVE  /\ Packets(q) \in Seq(Packet)
         /\ Len(Packets(q)) = Len(q)
         /\ \A k \in 1 .. Len(q) : Packets(q)[k] = q[k].packet
         /\ \A e \in Entry : Packets(Append(q, e)) = Append(Packets(q), e.packet)
<1> DEFINE P(r) == [k \in DOMAIN r |-> r[k].packet]
<1>1. \A e \in Entry : e.packet \in Packet
  BY DEF Entry
<1>2. ASSUME NEW r \in Seq(Entry)
      PROVE  /\ Packets(r) \in Seq(Packet)
             /\ Len(Packets(r)) = Len(r)
             /\ \A k \in 1 .. Len(r) : Packets(r)[k] = r[k].packet
  <2>1. Len(r) \in Nat /\ DOMAIN r = 1 .. Len(r)
    BY LenProperties
  <2>2. Packets(r) = [k \in 1 .. Len(r) |-> r[k].packet]
    BY <2>1 DEF Packets
  <2>3. \A k \in 1 .. Len(r) : r[k].packet \in Packet
    BY <1>1, <2>1, ElementOfSeq
  <2> QED
    BY <2>1, <2>2, <2>3
<1>3. ASSUME NEW e \in Entry
      PROVE  Packets(Append(q, e)) = Append(Packets(q), e.packet)
  <2> DEFINE r == Append(q, e)
             a == Packets(r)
             b == Append(Packets(q), e.packet)
  <2>1. /\ r \in Seq(Entry) /\ Len(r) = Len(q) + 1
        /\ \A k \in 1 .. Len(q) : r[k] = q[k]
        /\ r[Len(q) + 1] = e
    BY AppendProperties
  <2> HIDE DEF r
  <2>2. Len(q) \in Nat
    BY LenProperties
  <2>3. /\ a \in Seq(Packet) /\ Len(a) = Len(q) + 1
        /\ \A k \in 1 .. Len(q) + 1 : a[k] = r[k].packet
    BY <1>2, <2>1
  <2>4. /\ b \in Seq(Packet) /\ Len(b) = Len(q) + 1
        /\ \A k \in 1 .. Len(q) : b[k] = Packets(q)[k]
        /\ b[Len(q) + 1] = e.packet
    BY <1>1, <1>2, AppendProperties
  <2>5. \A k \in 1 .. Len(q) : Packets(q)[k] = q[k].packet
    BY <1>2
  <2> HIDE DEF a, b
  <2>6. \A k \in 1 .. Len(q) + 1 : a[k] = b[k]
    <3> TAKE k \in 1 .. Len(q) + 1
    <3>1. CASE k = Len(q) + 1
      BY <2>1, <2>3, <2>4, <3>1
    <3>2. CASE k # Len(q) + 1
      <4>1. k \in 1 .. Len(q)
        BY <2>2, <3>2
      <4> QED
        BY <2>1, <2>3, <2>4, <2>5, <4>1
    <3> QED
      BY <3>1, <3>2
  <2>7. a = b
    BY <2>3, <2>4, <2>6, SeqEqual
  <2> QED
    BY <2>7 DEF a, b, r
<1> QED
  BY <1>2, <1>3

\* The packets that are due are those in front of the others.
LEMMA ReadyBeforeRest ==
  ASSUME NEW q \in Seq(Entry)
  PROVE  Packets(q) = Packets(Ready(q)) \o Packets(Rest(q))
<1> DEFINE n == Len(q)
           due == {k \in DOMAIN q : \A i \in 1 .. k : q[i].txTime = 0}
           m == Cardinality(due)
<1>1. n \in Nat /\ DOMAIN q = 1 .. n
  BY LenProperties
<1>2. m \in Nat /\ m <= n
  <2>1. IsFiniteSet(1 .. n) /\ Cardinality(1 .. n) = n
    BY <1>1, FS_Interval
  <2>2. due \subseteq 1 .. n
    BY <1>1
  <2> HIDE DEF due, n
  <2> QED
    BY <2>1, <2>2, FS_Subset, FS_CardinalityType
<1>3. Ready(q) = SubSeq(q, 1, m)
  BY DEF Ready
<1> HIDE DEF m
<1>4. /\ Ready(q) \in Seq(Entry) /\ Len(Ready(q)) = m
      /\ \A k \in 1 .. m : Ready(q)[k] = q[k]
  <2>1. \A k \in 1 .. m : q[k] \in Entry
    BY <1>1, <1>2, ElementOfSeq
  <2> QED
    BY <1>2, <1>3, <2>1, SubSeqProperties
<1>5. /\ Rest(q) \in Seq(Entry) /\ Len(Rest(q)) = n - m
      /\ \A k \in 1 .. n - m : Rest(q)[k] = q[m + k]
  <2>1. \A k \in m + 1 .. n : q[k] \in Entry
    BY <1>1, <1>2, ElementOfSeq
  <2>2. Rest(q) = SubSeq(q, m + 1, n)
    BY <1>4 DEF Rest
  <2>3. /\ SubSeq(q, m + 1, n) \in Seq(Entry)
        /\ Len(SubSeq(q, m + 1, n)) = IF m + 1 <= n THEN n - (m + 1) + 1 ELSE 0
        /\ \A k \in 1 .. n - (m + 1) + 1 : SubSeq(q, m + 1, n)[k] = q[m + 1 + k - 1]
    <3> HIDE DEF n
    <3> QED
      BY <1>1, <1>2, <2>1, SubSeqProperties
  <2>4. \A k \in 1 .. n - m : m + 1 + k - 1 = m + k
    BY <1>1, <1>2
  <2> HIDE DEF n
  <2> QED
    BY <1>1, <1>2, <2>2, <2>3, <2>4
<1> DEFINE a == Packets(Ready(q))
           b == Packets(Rest(q))
<1>6. /\ a \in Seq(Packet) /\ Len(a) = m
      /\ \A k \in 1 .. m : a[k] = q[k].packet
  BY <1>4, PacketsOfQueue
<1>7. /\ b \in Seq(Packet) /\ Len(b) = n - m
      /\ \A k \in 1 .. n - m : b[k] = q[m + k].packet
  BY <1>5, PacketsOfQueue
<1> HIDE DEF a, b
<1>8. /\ a \o b \in Seq(Packet) /\ Len(a \o b) = Len(a) + Len(b)
      /\ \A k \in 1 .. Len(a) + Len(b) :
           (a \o b)[k] = IF k <= Len(a) THEN a[k] ELSE b[k - Len(a)]
  BY <1>6, <1>7, ConcatProperties
<1>9. Len(a) + Len(b) = n /\ Len(a) = m
  BY <1>1, <1>2, <1>6, <1>7
<1>10. /\ Packets(q) \in Seq(Packet) /\ Len(Packets(q)) = n
      /\ \A k \in 1 .. n : Packets(q)[k] = q[k].packet
  BY PacketsOfQueue
<1>11. \A k \in 1 .. n : Packets(q)[k] = (a \o b)[k]
  <2> HIDE DEF n
  <2> TAKE k \in 1 .. n
  <2>1. (a \o b)[k] = IF k <= m THEN a[k] ELSE b[k - m]
    BY <1>8, <1>9
  <2>2. CASE k <= m
    <3>1. k \in 1 .. m
      BY <1>1, <1>2, <2>2
    <3> QED
      BY <1>6, <1>10, <2>1, <2>2, <3>1
  <2>3. CASE ~(k <= m)
    <3>1. k - m \in 1 .. n - m /\ m + (k - m) = k
      BY <1>1, <1>2, <2>3
    <3>2. b[k - m] = q[k].packet
      BY <1>7, <3>1
    <3> QED
      BY <1>10, <2>1, <2>3, <3>2
  <2> QED
    BY <2>2, <2>3
<1>12. Packets(q) = a \o b
  <2> HIDE DEF n
  <2> QED
    BY <1>8, <1>10, <1>11, <1>9, SeqEqual
<1> QED
  BY <1>12 DEF a, b

-----------------------------------------------------------------------------
(* What is left when packets are lost.                                     *)

\* Nothing may be left; of more packets the same may be left, or one more.
LEMMA LeftAppend ==
  ASSUME NEW s \in Seq(Packet), NEW t \in Seq(Packet)
  PROVE  /\ L!Left(s, <<>>)
         /\ L!Left(s, t) => \A x \in Packet : /\ L!Left(Append(s, x), t)
                                              /\ L!Left(Append(s, x), Append(t, x))
<1>1. /\ Len(s) \in Nat /\ DOMAIN s = 1 .. Len(s)
      /\ Len(t) \in Nat /\ DOMAIN t = 1 .. Len(t)
  BY LenProperties
<1>2. L!Left(s, <<>>)
  <2> DEFINE place == [k \in {} |-> 0]
  <2>1. place \in [DOMAIN <<>> -> DOMAIN s]
    OBVIOUS
  <2> QED
    BY <2>1 DEF L!Left
<1>3. ASSUME L!Left(s, t), NEW x \in Packet
      PROVE  L!Left(Append(s, x), t) /\ L!Left(Append(s, x), Append(t, x))
  <2>1. PICK place \in [1 .. Len(t) -> 1 .. Len(s)] :
          /\ \A k \in 1 .. Len(t) : t[k] = s[place[k]]
          /\ \A j, k \in 1 .. Len(t) : j < k => place[j] < place[k]
    BY <1>1, <1>3 DEF L!Left
  <2>2. /\ Append(s, x) \in Seq(Packet) /\ Len(Append(s, x)) = Len(s) + 1
        /\ \A k \in 1 .. Len(s) : Append(s, x)[k] = s[k]
        /\ Append(s, x)[Len(s) + 1] = x
        /\ DOMAIN Append(s, x) = 1 .. Len(s) + 1
    BY AppendProperties, LenProperties
  <2>3. /\ Append(t, x) \in Seq(Packet) /\ Len(Append(t, x)) = Len(t) + 1
        /\ \A k \in 1 .. Len(t) : Append(t, x)[k] = t[k]
        /\ Append(t, x)[Len(t) + 1] = x
        /\ DOMAIN Append(t, x) = 1 .. Len(t) + 1
    BY AppendProperties, LenProperties
  <2>4. L!Left(Append(s, x), t)
    <3>1. place \in [1 .. Len(t) -> 1 .. Len(s) + 1]
      BY <1>1, <2>1
    <3>2. \A k \in 1 .. Len(t) : t[k] = Append(s, x)[place[k]]
      BY <2>1, <2>2
    <3> QED
      BY <1>1, <2>1, <2>2, <3>1, <3>2 DEF L!Left
  <2>5. L!Left(Append(s, x), Append(t, x))
    <3> DEFINE m == Len(t) + 1
               to == [k \in 1 .. m |-> IF k = m THEN Len(s) + 1 ELSE place[k]]
    <3>1. m \in Nat /\ \A k \in 1 .. m : k = m \/ k \in 1 .. Len(t)
      BY <1>1
    <3>2. \A k \in 1 .. m : to[k] \in 1 .. Len(s) + 1
      BY <1>1, <2>1, <3>1
    <3>3. to \in [1 .. m -> 1 .. Len(s) + 1]
      BY <3>2
    <3>4. \A k \in 1 .. m : Append(t, x)[k] = Append(s, x)[to[k]]
      <4> TAKE k \in 1 .. m
      <4>1. CASE k = m
        BY <2>2, <2>3, <4>1
      <4>2. CASE k # m
        <5>1. k \in 1 .. Len(t) /\ to[k] = place[k] /\ place[k] \in 1 .. Len(s)
          BY <2>1, <3>1, <4>2
        <5> HIDE DEF to
        <5> QED
          BY <2>1, <2>2, <2>3, <5>1
      <4> QED
        BY <4>1, <4>2
    <3>5. \A j, k \in 1 .. m : j < k => to[j] < to[k]
      <4> SUFFICES ASSUME NEW j \in 1 .. m, NEW k \in 1 .. m, j < k
                   PROVE  to[j] < to[k]
        OBVIOUS
      <4>1. j \in 1 .. Len(t) /\ to[j] = place[j] /\ place[j] \in 1 .. Len(s)
        <5>1. j \in 1 .. Len(t) /\ j # m /\ j \in 1 .. m
          BY <1>1
        <5>2. to[j] = place[j]
          BY <5>1
        <5> QED
          BY <2>1, <5>1, <5>2
      <4>2. CASE k = m
        BY <1>1, <4>1, <4>2
      <4>3. CASE k # m
        BY <1>1, <2>1, <3>1, <4>1, <4>3
      <4> QED
        BY <4>2, <4>3
    <3> HIDE DEF to
    <3> QED
      BY <2>2, <2>3, <3>3, <3>4, <3>5 DEF L!Left
  <2> QED
    BY <2>4, <2>5
<1> QED
  BY <1>2, <1>3

\* Packets are put behind others, but for some that are lost: all if none may.
Grows(others, packets, none, now) ==
  \E kept \in Seq(Packet) :
    /\ L!Left(packets, kept)
    /\ now = others \o kept
    /\ none => kept = <<>>

\* A queue gets some of the packets of a flow that its router receives, in
\* their order, behind those it has; and none if they go elsewhere.
LEMMA QueueAtPasses ==
  ASSUME NEW f, NEW b, NEW c, NEW q \in Seq(Entry), NEW packets \in Seq(Packet)
  PROVE  Grows(Of(f, Packets(q)), Of(f, packets),
               b = f[2] \/ routingTable[b][f[2]] # c,
               Of(f, Packets(QueueAt(b, c, q, packets))))
<1> DEFINE n == Len(packets)
           Off == b = f[2] \/ routingTable[b][f[2]] # c
<1>1. n \in Nat
  BY LenProperties
<1>2. PICK h : /\ QueueAtRun(b, c, q, packets, h)
               /\ QueueAt(b, c, q, packets) = h[n]
  BY QueueAtHasRun
<1>3. PICK g : OfRun(f, packets, g) /\ Of(f, packets) = g[n]
  BY OfHasRun
<1>4. \A k \in 0 .. n : h[k] \in Seq(Entry) /\ g[k] \in Seq(Packet)
  BY <1>2, <1>3 DEF QueueAtRun, OfRun
<1> DEFINE Kept(k, kept) ==
             /\ kept \in Seq(Packet)
             /\ L!Left(g[k], kept)
             /\ Of(f, Packets(h[k])) = Of(f, Packets(q)) \o kept
             /\ Off => kept = <<>>
           Good == {k \in Nat : k <= n => \E kept : Kept(k, kept)}
<1> HIDE DEF Kept
<1>5. 0 \in Good
  <2>1. g[0] = <<>> /\ h[0] = q /\ <<>> \in Seq(Packet)
    BY <1>2, <1>3 DEF QueueAtRun, OfRun
  <2>2. L!Left(g[0], <<>>)
    BY <2>1, LeftAppend
  <2>3. Of(f, Packets(q)) \in Seq(Packet)
    BY PacketsOfQueue, OfAppend
  <2>4. Of(f, Packets(q)) = Of(f, Packets(q)) \o <<>>
    BY <2>3, ConcatEmptySeq
  <2>5. Kept(0, <<>>)
    BY <2>1, <2>2, <2>4 DEF Kept
  <2> QED
    BY <2>5
<1>6. \A k \in Nat : k \in Good => k + 1 \in Good
  <2> SUFFICES ASSUME NEW k \in Nat, k \in Good, k + 1 <= n
               PROVE  \E kept : Kept(k + 1, kept)
    OBVIOUS
  <2> DEFINE m == k + 1
             x == packets[m]
  <2>1. /\ m \in 1 .. n /\ m - 1 = k /\ k \in 0 .. n /\ m \in 0 .. n
    BY <1>1
  <2>2. PICK kept : Kept(k, kept)
    BY <1>1
  <2>3. x \in Packet
    BY <1>1, <2>1, ElementOfSeq
  <2>4. /\ h[m] = IF Passes(b, c, x) THEN EnQ(h[k], x) ELSE h[k]
        /\ g[m] = IF x.flow = f THEN Append(g[k], x) ELSE g[k]
    BY <1>2, <1>3, <2>1 DEF QueueAtRun, OfRun
  <2>5. g[k] \in Seq(Packet) /\ h[k] \in Seq(Entry)
    BY <1>4, <2>1
  <2> HIDE DEF m, x
  <2>6. L!Left(g[k], kept) /\ kept \in Seq(Packet)
    BY <2>2 DEF Kept
  <2>7. L!Left(Append(g[k], x), kept) /\ L!Left(Append(g[k], x), Append(kept, x))
    BY <2>3, <2>5, <2>6, LeftAppend
  <2>8. CASE h[m] = h[k]
    <3>1. L!Left(g[m], kept)
      BY <2>4, <2>6, <2>7
    <3>2. Kept(m, kept)
      BY <2>2, <2>8, <3>1 DEF Kept
    <3> QED
      BY <3>2 DEF m
  <2>9. CASE h[m] # h[k]
    <3>1. Passes(b, c, x) /\ h[m] = EnQ(h[k], x)
      BY <2>4, <2>9
    <3>2. PICK e \in Entry : e.packet = x /\ h[m] = Append(h[k], e)
      <4>1. \/ EnQ(h[k], x) = h[k]
            \/ \E e \in Entry : e.packet = x /\ EnQ(h[k], x) = Append(h[k], e)
        BY <2>3, <2>5, EnQKeeps
      <4> QED
        BY <2>9, <3>1, <4>1
    <3>3. Packets(h[m]) = Append(Packets(h[k]), x) /\ Packets(h[k]) \in Seq(Packet)
      BY <2>5, <3>2, PacketsOfQueue
    <3>4. Of(f, Packets(h[m])) = IF x.flow = f
                                   THEN Append(Of(f, Packets(h[k])), x)
                                   ELSE Of(f, Packets(h[k]))
      <4> DEFINE w == Packets(h[k])
      <4>1. w \in Seq(Packet)
        BY <3>3
      <4> HIDE DEF w
      <4>2. Of(f, Append(w, x)) = IF x.flow = f THEN Append(Of(f, w), x)
                                                ELSE Of(f, w)
        BY <2>3, <4>1, OfAppend
      <4> QED
        BY <3>3, <4>2 DEF w
    <3>5. CASE x.flow # f
      <4>1. Kept(m, kept)
        BY <2>2, <2>4, <3>4, <3>5 DEF Kept
      <4> QED
        BY <4>1 DEF m
    <3>6. CASE x.flow = f
      <4>1. ~Off
        BY <3>1, <3>6 DEF Passes
      <4>2. Of(f, Packets(q)) \in Seq(Packet)
        BY PacketsOfQueue, OfAppend
      <4>3. Append(Of(f, Packets(q)) \o kept, x) = Of(f, Packets(q)) \o Append(kept, x)
        BY <2>3, <2>6, <4>2, AppendConcat
      <4>4. Append(kept, x) \in Seq(Packet)
        BY <2>3, <2>6, AppendProperties
      <4>5. L!Left(g[m], Append(kept, x))
        BY <2>4, <2>7, <3>6
      <4>6. Of(f, Packets(h[m])) = Of(f, Packets(q)) \o Append(kept, x)
        BY <2>2, <3>4, <3>6, <4>3 DEF Kept
      <4>7. Kept(m, Append(kept, x))
        BY <4>1, <4>4, <4>5, <4>6 DEF Kept
      <4> QED
        BY <4>7 DEF m
    <3> QED
      BY <3>5, <3>6
  <2> QED
    BY <2>8, <2>9
<1>7. n \in Good
  <2> HIDE DEF Good
  <2> QED
    BY <1>1, <1>5, <1>6, SetInduction
<1>8. PICK kept : Kept(n, kept)
  BY <1>1, <1>7
<1> QED
  BY <1>2, <1>3, <1>8 DEF Kept, Grows

-----------------------------------------------------------------------------
(* The stages of a flow: 0 is the socket, n is the n-th queue on its way,  *)
(* N + 1 is its destination.                                               *)

\* Packets for every stage.
Staged == [0 .. N + 1 -> Seq(Packet)]

\* One place is ahead of another one.
Ahead(m, i, n, j) == m > n \/ (m = n /\ i < j)

\* The farther a packet is the earlier it was sent.
Ordered(A) ==
  \A m, n \in 0 .. N + 1 : \A i \in 1 .. Len(A[m]), j \in 1 .. Len(A[n]) :
    Ahead(m, i, n, j) => A[m][i].number < A[n][j].number

\* No packet comes from nowhere.
Shrinks(A, B) ==
  \A m \in 0 .. N + 1 : \A i \in 1 .. Len(B[m]) :
    \E n \in 0 .. N + 1 : \E j \in 1 .. Len(A[n]) : B[m][i] = A[n][j]

\* The first packets of stage n pass to stage m, but for some that are lost.
PassedOn(A, B, n, m, head, rest, kept) ==
  /\ n < m
  /\ \A k \in 0 .. N + 1 : n < k /\ k < m => A[k] = <<>>
  /\ A[n] = head \o rest
  /\ B[n] = rest
  /\ L!Left(head, kept)
  /\ B[m] = A[m] \o kept
  /\ \A k \in 0 .. N + 1 : k # n /\ k # m => B[k] = A[k]

\* Then they stay in order.
LEMMA PassingKeepsOrder ==
  ASSUME NEW A \in Staged, NEW B \in Staged,
         NEW n \in 0 .. N + 1, NEW m \in 0 .. N + 1,
         NEW head \in Seq(Packet), NEW rest \in Seq(Packet), NEW kept \in Seq(Packet),
         PassedOn(A, B, n, m, head, rest, kept), Ordered(A)
  PROVE  Ordered(B) /\ Shrinks(A, B)
<1> DEFINE M == 0 .. N + 1
<1>1. /\ N \in Nat /\ n \in Nat /\ m \in Nat /\ n < m
      /\ \A k \in M : k \in Nat /\ A[k] \in Seq(Packet) /\ Len(A[k]) \in Nat
      /\ Len(head) \in Nat /\ Len(rest) \in Nat /\ Len(kept) \in Nat
      /\ DOMAIN head = 1 .. Len(head) /\ DOMAIN kept = 1 .. Len(kept)
  BY Numbers, LenProperties DEF PassedOn, Staged
<1>2. /\ Len(A[n]) = Len(head) + Len(rest)
      /\ \A i \in 1 .. Len(head) : A[n][i] = head[i]
      /\ \A i \in 1 .. Len(rest) : A[n][Len(head) + i] = rest[i]
  <2>1. /\ Len(head \o rest) = Len(head) + Len(rest)
        /\ \A i \in 1 .. Len(head) + Len(rest) :
             (head \o rest)[i] = IF i <= Len(head) THEN head[i] ELSE rest[i - Len(head)]
    BY ConcatProperties
  <2>2. ASSUME NEW i \in 1 .. Len(head)
        PROVE  (head \o rest)[i] = head[i]
    BY <1>1, <2>1
  <2>3. ASSUME NEW i \in 1 .. Len(rest)
        PROVE  (head \o rest)[Len(head) + i] = rest[i]
    <3> DEFINE k == Len(head) + i
    <3>1. k \in 1 .. Len(head) + Len(rest) /\ ~(k <= Len(head)) /\ k - Len(head) = i
      BY <1>1
    <3> HIDE DEF k
    <3>2. (head \o rest)[k] = rest[i]
      BY <2>1, <3>1
    <3> QED
      BY <3>2 DEF k
  <2> QED
    BY <2>1, <2>2, <2>3 DEF PassedOn
<1>3. /\ Len(B[m]) = Len(A[m]) + Len(kept)
      /\ \A i \in 1 .. Len(B[m]) :
           \/ i \in 1 .. Len(A[m]) /\ B[m][i] = A[m][i]
           \/ i - Len(A[m]) \in 1 .. Len(kept) /\ B[m][i] = kept[i - Len(A[m])]
  <2> DEFINE a == A[m]
  <2>1. a \in Seq(Packet) /\ Len(a) \in Nat /\ B[m] = a \o kept
    BY <1>1 DEF PassedOn
  <2> HIDE DEF a
  <2>2. /\ Len(a \o kept) = Len(a) + Len(kept)
        /\ \A i \in 1 .. Len(a) + Len(kept) :
             (a \o kept)[i] = IF i <= Len(a) THEN a[i] ELSE kept[i - Len(a)]
    BY <2>1, ConcatProperties
  <2>3. ASSUME NEW i \in 1 .. Len(a) + Len(kept)
        PROVE  \/ i \in 1 .. Len(a) /\ (a \o kept)[i] = a[i]
               \/ i - Len(a) \in 1 .. Len(kept) /\ (a \o kept)[i] = kept[i - Len(a)]
    <3>1. CASE i <= Len(a)
      BY <2>1, <2>2, <3>1
    <3>2. CASE ~(i <= Len(a))
      BY <1>1, <2>1, <2>2, <3>2
    <3> QED
      BY <3>1, <3>2
  <2> QED
    BY <2>1, <2>2, <2>3 DEF a
<1>4. PICK place \in [1 .. Len(kept) -> 1 .. Len(head)] :
        /\ \A k \in 1 .. Len(kept) : kept[k] = head[place[k]]
        /\ \A j, k \in 1 .. Len(kept) : j < k => place[j] < place[k]
  BY <1>1 DEF PassedOn, L!Left
\* where a packet of B was in A
<1> DEFINE New(k, i) == k = m /\ i > Len(A[m])
           S(k, i) == IF New(k, i) THEN n ELSE k
           I(k, i) == IF New(k, i) THEN place[i - Len(A[m])]
                      ELSE IF k = n THEN Len(head) + i
                      ELSE i
<1>5. ASSUME NEW k \in M, NEW i \in 1 .. Len(B[k])
      PROVE  /\ S(k, i) \in M
             /\ I(k, i) \in 1 .. Len(A[S(k, i)])
             /\ B[k][i] = A[S(k, i)][I(k, i)]
  <2>1. CASE k = m /\ New(k, i)
    <3>1. i \in 1 .. Len(B[m]) /\ i > Len(A[m])
      BY <2>1
    <3>2. i - Len(A[m]) \in 1 .. Len(kept) /\ B[m][i] = kept[i - Len(A[m])]
      <4>1. ~(i \in 1 .. Len(A[m]))
        BY <1>1, <3>1
      <4> QED
        BY <1>3, <3>1, <4>1
    <3>3. PICK p \in 1 .. Len(head) : p = place[i - Len(A[m])] /\ B[m][i] = head[p]
      BY <1>4, <3>2
    <3>4. S(k, i) = n /\ I(k, i) = p
      BY <2>1, <3>3
    <3>5. p \in 1 .. Len(A[n]) /\ A[n][p] = head[p]
      BY <1>1, <1>2
    <3> QED
      BY <2>1, <3>3, <3>4, <3>5
  <2>2. CASE k = m /\ ~New(k, i)
    <3>1. i \in 1 .. Len(A[m]) /\ B[m][i] = A[m][i]
      BY <1>1, <1>3, <2>2
    <3>2. S(k, i) = m /\ I(k, i) = i
      BY <1>1, <2>2
    <3> QED
      BY <2>2, <3>1, <3>2
  <2>3. CASE k = n
    <3>1. ~New(k, i) /\ S(k, i) = n /\ I(k, i) = Len(head) + i
      BY <1>1, <2>3
    <3>2. B[n] = rest
      BY DEF PassedOn
    <3>3. i \in 1 .. Len(rest) /\ B[n][i] = rest[i]
      BY <2>3, <3>2
    <3>4. Len(head) + i \in 1 .. Len(A[n])
      BY <1>1, <1>2, <3>3
    <3> QED
      BY <1>2, <2>3, <3>1, <3>3, <3>4
  <2>4. CASE k # m /\ k # n
    <3>1. B[k] = A[k]
      BY <2>4 DEF PassedOn
    <3> QED
      BY <2>4, <3>1
  <2> QED
    BY <2>1, <2>2, <2>3, <2>4
<1>6. Shrinks(A, B)
  <2> HIDE DEF S, I
  <2> QED
    BY <1>5 DEF Shrinks
<1>7. ASSUME NEW k \in M, NEW l \in M,
             NEW i \in 1 .. Len(B[k]), NEW j \in 1 .. Len(B[l]), Ahead(k, i, l, j)
      PROVE  Ahead(S(k, i), I(k, i), S(l, j), I(l, j))
  <2>1. k \in Nat /\ l \in Nat /\ (k > l \/ (k = l /\ i < j))
    BY <1>7 DEF Ahead
  <2>2. CASE New(k, i) /\ New(l, j)
    <3>1. k = m /\ l = m /\ i < j
      BY <2>1, <2>2
    <3>2. /\ i - Len(A[m]) \in 1 .. Len(kept)
          /\ j - Len(A[m]) \in 1 .. Len(kept)
          /\ i - Len(A[m]) < j - Len(A[m])
      BY <1>1, <1>3, <2>2, <3>1
    <3>3. place[i - Len(A[m])] < place[j - Len(A[m])]
      BY <1>4, <3>2
    <3> QED
      BY <2>2, <3>3 DEF Ahead
  <2>3. CASE New(k, i) /\ ~New(l, j)
    <3>1. k = m /\ S(k, i) = n /\ S(l, j) = l /\ I(k, i) = place[i - Len(A[m])]
      BY <2>3
    <3>2. l <= m
      BY <1>1, <2>1, <3>1
    <3>3. l # m
      <4> SUFFICES ASSUME l = m PROVE FALSE
        OBVIOUS
      <4>1. i < j /\ i > Len(A[m])
        BY <1>1, <2>1, <2>3, <3>1
      <4>2. j > Len(A[m])
        BY <1>1, <4>1
      <4> QED
        BY <2>3, <4>2
    <3>4. CASE l < n
      BY <3>1, <3>4 DEF Ahead
    <3>5. CASE l = n
      <4>1. I(l, j) = Len(head) + j
        BY <2>3, <3>5
      <4>2. i - Len(A[m]) \in 1 .. Len(kept)
        BY <1>1, <1>3, <2>3, <3>1
      <4>3. place[i - Len(A[m])] \in 1 .. Len(head)
        BY <1>4, <4>2
      <4>4. place[i - Len(A[m])] < Len(head) + j
        BY <1>1, <4>3
      <4> QED
        BY <3>1, <3>5, <4>1, <4>4 DEF Ahead
    <3>6. CASE n < l
      <4>1. l < m
        BY <1>1, <2>1, <3>2, <3>3
      <4>2. A[l] = <<>> /\ B[l] = A[l]
        BY <1>1, <2>1, <3>6, <4>1 DEF PassedOn
      <4> QED
        BY <4>2
    <3> QED
      BY <1>1, <2>1, <3>4, <3>5, <3>6
  <2>4. CASE ~New(k, i) /\ New(l, j)
    <3>1. l = m /\ S(k, i) = k /\ S(l, j) = n
      BY <2>4
    <3>2. k >= m
      BY <1>1, <2>1, <3>1
    <3>3. k > n
      BY <1>1, <2>1, <3>2
    <3> QED
      BY <3>1, <3>3 DEF Ahead
  <2>5. CASE ~New(k, i) /\ ~New(l, j)
    <3>1. S(k, i) = k /\ S(l, j) = l
      BY <2>5
    <3>2. CASE k > l
      BY <3>1, <3>2 DEF Ahead
    <3>3. CASE k = l /\ i < j
      <4>1. I(k, i) < I(l, j)
        BY <1>1, <2>5, <3>3
      <4> QED
        BY <3>1, <3>3, <4>1 DEF Ahead
    <3> QED
      BY <2>1, <3>2, <3>3
  <2> QED
    BY <2>2, <2>3, <2>4, <2>5
<1>8. Ordered(B)
  <2> HIDE DEF S, I
  <2> SUFFICES ASSUME NEW k \in M, NEW l \in M,
                      NEW i \in 1 .. Len(B[k]), NEW j \in 1 .. Len(B[l]),
                      Ahead(k, i, l, j)
               PROVE  B[k][i].number < B[l][j].number
    BY DEF Ordered
  <2>1. Ahead(S(k, i), I(k, i), S(l, j), I(l, j))
    BY <1>7
  <2>2. /\ S(k, i) \in M /\ I(k, i) \in 1 .. Len(A[S(k, i)])
        /\ B[k][i] = A[S(k, i)][I(k, i)]
        /\ S(l, j) \in M /\ I(l, j) \in 1 .. Len(A[S(l, j)])
        /\ B[l][j] = A[S(l, j)][I(l, j)]
    BY <1>5
  <2> QED
    BY <2>1, <2>2 DEF Ordered
<1> QED
  BY <1>6, <1>8

\* Packets are numbered.
LEMMA NumberIsNat ==
  ASSUME NEW x \in Packet
  PROVE  x.number \in Nat
BY Numbers DEF Packet

\* Packets in the order they were sent in.
Rising(s) == \A i, j \in 1 .. Len(s) : i < j => s[i].number < s[j].number

\* The packets of the first stages, the farthest stage first.
Lines(A, n, s) ==
  /\ s \in Seq(Packet)
  /\ Rising(s)
  /\ \A i \in 1 .. Len(s) : \E m \in 0 .. n : \E j \in 1 .. Len(A[m]) : s[i] = A[m][j]
  /\ \A m \in 0 .. n : \A j \in 1 .. Len(A[m]) : \E i \in 1 .. Len(s) : s[i] = A[m][j]

\* The next stage is put before them.
LEMMA LinesGrow ==
  ASSUME NEW A \in Staged, Ordered(A), NEW n \in 0 .. N, NEW s, Lines(A, n, s)
  PROVE  Lines(A, n + 1, A[n + 1] \o s)
<1> DEFINE a == A[n + 1]
           t == a \o s
<1>1. /\ N \in Nat /\ n \in Nat /\ n + 1 \in 0 .. N + 1
      /\ a \in Seq(Packet) /\ s \in Seq(Packet)
      /\ Len(a) \in Nat /\ Len(s) \in Nat
  <2>1. N \in Nat
    BY Numbers
  <2>2. n \in Nat /\ n + 1 \in 0 .. N + 1
    BY <2>1
  <2>3. a \in Seq(Packet) /\ s \in Seq(Packet)
    BY <2>2 DEF Lines, Staged
  <2> HIDE DEF a
  <2> QED
    BY <2>1, <2>2, <2>3, LenProperties
<1>2. /\ t \in Seq(Packet)
      /\ Len(t) = Len(a) + Len(s)
      /\ \A i \in 1 .. Len(a) + Len(s) :
           t[i] = IF i <= Len(a) THEN a[i] ELSE s[i - Len(a)]
  <2> HIDE DEF a
  <2> QED
    BY <1>1, ConcatProperties
<1> HIDE DEF t
<1>3. \A i \in 1 .. Len(t) :
        \/ i \in 1 .. Len(a) /\ t[i] = a[i]
        \/ i > Len(a) /\ i - Len(a) \in 1 .. Len(s) /\ t[i] = s[i - Len(a)]
  <2> HIDE DEF a
  <2> TAKE i \in 1 .. Len(t)
  <2>1. CASE i <= Len(a)
    BY <1>1, <1>2, <2>1
  <2>2. CASE ~(i <= Len(a))
    BY <1>1, <1>2, <2>2
  <2> QED
    BY <2>1, <2>2
<1>4. ASSUME NEW i \in 1 .. Len(s)
      PROVE  i + Len(a) \in 1 .. Len(t) /\ t[i + Len(a)] = s[i]
  <2> HIDE DEF a
  <2> DEFINE k == i + Len(a)
  <2>1. k \in 1 .. Len(t) /\ ~(k <= Len(a)) /\ k - Len(a) = i
    BY <1>1, <1>2
  <2> HIDE DEF k
  <2>2. t[k] = s[i]
    BY <1>2, <2>1
  <2> QED
    BY <2>1, <2>2 DEF k
<1>5. ASSUME NEW i \in 1 .. Len(a)
      PROVE  i \in 1 .. Len(t) /\ t[i] = a[i]
  <2> HIDE DEF a
  <2> QED
    BY <1>1, <1>2
<1>6. Rising(t)
  <2> SUFFICES ASSUME NEW i \in 1 .. Len(t), NEW j \in 1 .. Len(t), i < j
               PROVE  t[i].number < t[j].number
    BY DEF Rising
  <2>1. CASE j \in 1 .. Len(a) /\ t[j] = a[j]
    <3>1. i \in 1 .. Len(a) /\ t[i] = a[i]
      <4> HIDE DEF a
      <4> QED
        BY <1>1, <1>2, <2>1
    <3>2. Ahead(n + 1, i, n + 1, j)
      BY DEF Ahead
    <3>3. A[n + 1][i].number < A[n + 1][j].number
      BY <1>1, <2>1, <3>1, <3>2 DEF Ordered
    <3> QED
      BY <2>1, <3>1, <3>3
  <2>2. CASE j > Len(a) /\ j - Len(a) \in 1 .. Len(s) /\ t[j] = s[j - Len(a)]
    <3>1. CASE i \in 1 .. Len(a) /\ t[i] = a[i]
      <4> DEFINE w == j - Len(a)
      <4>1. w \in 1 .. Len(s) /\ t[j] = s[w]
        BY <2>2
      <4> HIDE DEF w
      <4>2. PICK m \in 0 .. n : \E k \in 1 .. Len(A[m]) : t[j] = A[m][k]
        BY <4>1 DEF Lines
      <4>3. PICK k \in 1 .. Len(A[m]) : t[j] = A[m][k]
        BY <4>2
      <4>4. Ahead(n + 1, i, m, k) /\ m \in 0 .. N + 1
        BY <1>1 DEF Ahead
      <4>5. A[n + 1][i].number < A[m][k].number
        BY <1>1, <3>1, <4>4 DEF Ordered
      <4> QED
        BY <3>1, <4>3, <4>5
    <3>2. CASE i - Len(a) \in 1 .. Len(s) /\ t[i] = s[i - Len(a)]
      <4>1. i - Len(a) < j - Len(a)
        <5> HIDE DEF a
        <5> QED
          BY <1>1, <1>2
      <4> QED
        BY <2>2, <3>2, <4>1 DEF Lines, Rising
    <3> QED
      BY <1>3, <3>1, <3>2
  <2> QED
    BY <1>3, <2>1, <2>2
<1>7. ASSUME NEW i \in 1 .. Len(t)
      PROVE  \E m \in 0 .. n + 1 : \E j \in 1 .. Len(A[m]) : t[i] = A[m][j]
  <2>1. CASE i \in 1 .. Len(a) /\ t[i] = a[i]
    <3>1. n + 1 \in 0 .. n + 1
      BY <1>1
    <3> QED
      BY <2>1, <3>1
  <2>2. CASE i - Len(a) \in 1 .. Len(s) /\ t[i] = s[i - Len(a)]
    <3>1. PICK m \in 0 .. n : \E j \in 1 .. Len(A[m]) : t[i] = A[m][j]
      BY <2>2 DEF Lines
    <3>2. m \in 0 .. n + 1
      BY <1>1
    <3> QED
      BY <3>1, <3>2
  <2> QED
    BY <1>3, <2>1, <2>2
<1>8. ASSUME NEW m \in 0 .. n + 1, NEW j \in 1 .. Len(A[m])
      PROVE  \E i \in 1 .. Len(t) : t[i] = A[m][j]
  <2>1. CASE m = n + 1
    BY <1>5, <2>1
  <2>2. CASE m # n + 1
    <3>1. m \in 0 .. n
      BY <1>1, <2>2
    <3>2. PICK i \in 1 .. Len(s) : s[i] = A[m][j]
      BY <3>1 DEF Lines
    <3> QED
      BY <1>4, <3>2
  <2> QED
    BY <2>1, <2>2
<1>9. Lines(A, n + 1, t)
  BY <1>2, <1>6, <1>7, <1>8 DEF Lines
<1> QED
  BY <1>9 DEF t

\* When a line loses some packets and more of it has arrived, Links may do so.
LEMMA LineShrinks ==
  ASSUME NEW X \in Seq(Packet), NEW K \in Seq(Packet),
         NEW V \in Seq(Packet), NEW W \in Seq(Packet),
         Rising(X \o V), Rising((X \o K) \o W),
         \A i \in 1 .. Len((X \o K) \o W) :
           \E j \in 1 .. Len(X \o V) : ((X \o K) \o W)[i] = (X \o V)[j]
  PROVE  /\ IsPrefix(X, X \o K)
         /\ L!Left(V, SubSeq((X \o K) \o W, Len(X) + 1, Len((X \o K) \o W)))
<1> DEFINE x == Len(X)
           now == (X \o K) \o W
           old == X \o V
           Y == SubSeq(now, x + 1, Len(now))
<1>1. x \in Nat /\ Len(K) \in Nat /\ Len(V) \in Nat /\ Len(W) \in Nat
  BY LenProperties
<1>2. /\ X \o K \in Seq(Packet) /\ Len(X \o K) = x + Len(K)
      /\ \A i \in 1 .. x + Len(K) : (X \o K)[i] = IF i <= x THEN X[i] ELSE K[i - x]
  BY ConcatProperties
<1>3. /\ now \in Seq(Packet) /\ Len(now) = x + Len(K) + Len(W)
      /\ \A i \in 1 .. x + Len(K) + Len(W) :
           now[i] = IF i <= x + Len(K) THEN (X \o K)[i] ELSE W[i - (x + Len(K))]
  <2> DEFINE XK == X \o K
  <2>1. XK \in Seq(Packet) /\ Len(XK) = x + Len(K)
    BY <1>2
  <2> HIDE DEF XK
  <2>2. /\ XK \o W \in Seq(Packet) /\ Len(XK \o W) = Len(XK) + Len(W)
        /\ \A i \in 1 .. Len(XK) + Len(W) :
             (XK \o W)[i] = IF i <= Len(XK) THEN XK[i] ELSE W[i - Len(XK)]
    BY <2>1, ConcatProperties
  <2> QED
    BY <2>1, <2>2 DEF XK
<1>4. /\ old \in Seq(Packet) /\ Len(old) = x + Len(V)
      /\ \A i \in 1 .. x + Len(V) : old[i] = IF i <= x THEN X[i] ELSE V[i - x]
  BY ConcatProperties
<1>5. \A i \in 1 .. x : now[i] = X[i] /\ i \in 1 .. Len(now)
  BY <1>1, <1>2, <1>3
<1>6. IsPrefix(X, X \o K)
  <2>1. x <= Len(X \o K)
    BY <1>1, <1>2
  <2>2. /\ SubSeq(X \o K, 1, x) \in Seq(Packet) /\ Len(SubSeq(X \o K, 1, x)) = x
        /\ \A i \in 1 .. x : SubSeq(X \o K, 1, x)[i] = X[i]
    <3> DEFINE XK == X \o K
    <3>1. \A i \in 1 .. x : XK[i] = X[i] /\ XK[i] \in Packet
      BY <1>1, <1>2, ElementOfSeq
    <3> HIDE DEF XK
    <3>2. /\ SubSeq(XK, 1, x) \in Seq(Packet)
          /\ Len(SubSeq(XK, 1, x)) = IF 1 <= x THEN x - 1 + 1 ELSE 0
          /\ \A i \in 1 .. x - 1 + 1 : SubSeq(XK, 1, x)[i] = XK[1 + i - 1]
      <4> HIDE DEF x
      <4> QED
        BY <1>1, <3>1, SubSeqProperties
    <3>3. \A i \in 1 .. x : 1 + i - 1 = i /\ i \in 1 .. x - 1 + 1
      BY <1>1
    <3> QED
      BY <1>1, <3>1, <3>2, <3>3 DEF XK
  <2>3. SubSeq(X \o K, 1, x) = X
    BY <2>2, SeqEqual
  <2> QED
    BY <2>1, <2>3 DEF IsPrefix
<1>7. /\ Y \in Seq(Packet) /\ Len(Y) = Len(K) + Len(W)
      /\ \A i \in 1 .. Len(Y) : Y[i] = now[x + i] /\ x + i \in 1 .. Len(now)
  <2> HIDE DEF now
  <2>1. Len(now) \in Nat
    BY <1>1, <1>3
  <2>2. \A i \in x + 1 .. Len(now) : now[i] \in Packet
    BY <1>1, <1>3, ElementOfSeq
  <2>3. /\ Y \in Seq(Packet)
        /\ Len(Y) = IF x + 1 <= Len(now) THEN Len(now) - (x + 1) + 1 ELSE 0
        /\ \A i \in 1 .. Len(now) - (x + 1) + 1 : Y[i] = now[x + 1 + i - 1]
    <3> HIDE DEF x
    <3> QED
      BY <1>1, <2>1, <2>2, SubSeqProperties
  <2> HIDE DEF Y
  <2>4. Len(Y) = Len(K) + Len(W)
    BY <1>1, <1>3, <2>3
  <2>5. ASSUME NEW i \in 1 .. Len(Y)
        PROVE  Y[i] = now[x + i] /\ x + i \in 1 .. Len(now)
    <3>1. x + 1 + i - 1 = x + i /\ i \in 1 .. Len(now) - (x + 1) + 1 /\ x + i \in 1 .. Len(now)
      BY <1>1, <1>3, <2>4
    <3> QED
      BY <2>3, <3>1
  <2> QED
    BY <2>3, <2>4, <2>5
<1> HIDE DEF now, old, Y
<1>8. Rising(now) /\ Rising(old)
  BY DEF now, old
<1>9. ASSUME NEW i \in 1 .. Len(Y)
      PROVE  \E k \in 1 .. Len(V) : Y[i] = V[k]
  <2>1. PICK j \in 1 .. Len(old) : now[x + i] = old[j]
    BY <1>7 DEF now, old
  <2>2. j > x
    <3> SUFFICES ASSUME j <= x PROVE FALSE
      BY <1>1, <1>4
    <3>1. j \in 1 .. x /\ old[j] = X[j]
      BY <1>1, <1>4, <2>1
    <3>2. now[j] = now[x + i] /\ j \in 1 .. Len(now) /\ x + i \in 1 .. Len(now) /\ j < x + i
      BY <1>1, <1>5, <1>7, <2>1, <3>1
    <3>3. now[j].number < now[j].number
      BY <1>8, <3>2 DEF Rising
    <3>4. now[j].number \in Nat
      <4>1. now[j] \in Packet
        BY <1>3, <3>2, ElementOfSeq
      <4> QED
        BY <4>1, Numbers DEF Packet
    <3> QED
      BY <3>3, <3>4
  <2>3. j - x \in 1 .. Len(V) /\ old[j] = V[j - x]
    BY <1>1, <1>4, <2>1, <2>2
  <2> QED
    BY <1>7, <2>1, <2>3
<1> DEFINE place == [i \in 1 .. Len(Y) |-> CHOOSE k \in 1 .. Len(V) : Y[i] = V[k]]
<1>10. \A i \in 1 .. Len(Y) : place[i] \in 1 .. Len(V) /\ Y[i] = V[place[i]]
  BY <1>9
<1>11. place \in [1 .. Len(Y) -> 1 .. Len(V)]
  BY <1>10
<1> HIDE DEF place
<1>12. ASSUME NEW i \in 1 .. Len(Y), NEW j \in 1 .. Len(Y), i < j
       PROVE  place[i] < place[j]
  <2> SUFFICES ASSUME place[j] <= place[i] PROVE FALSE
    BY <1>1, <1>10
  <2>1. Y[i].number < Y[j].number
    <3>1. x + i < x + j
      BY <1>1, <1>7, <1>12
    <3> QED
      BY <1>7, <1>8, <3>1 DEF Rising
  <2>2. /\ place[i] \in 1 .. Len(V) /\ place[j] \in 1 .. Len(V)
        /\ Y[i] = V[place[i]] /\ Y[j] = V[place[j]]
    BY <1>10
  <2>3. /\ x + place[i] \in 1 .. Len(old) /\ old[x + place[i]] = V[place[i]]
        /\ x + place[j] \in 1 .. Len(old) /\ old[x + place[j]] = V[place[j]]
    <3>1. ASSUME NEW k \in 1 .. Len(V)
          PROVE  x + k \in 1 .. Len(old) /\ old[x + k] = V[k]
      <4>1. x + k \in 1 .. x + Len(V) /\ ~(x + k <= x) /\ (x + k) - x = k
        BY <1>1
      <4> QED
        BY <1>4, <4>1
    <3> QED
      BY <2>2, <3>1
  <2>4. Y[i] \in Packet /\ Y[j] \in Packet
    BY <1>7, ElementOfSeq
  <2>5. Y[i].number \in Nat /\ Y[j].number \in Nat
    BY <2>4, NumberIsNat
  <2>6. PICK p \in Nat, q \in Nat : p = Y[i].number /\ q = Y[j].number
    BY <2>5
  <2>7. p < q
    BY <2>1, <2>6
  <2>8. CASE place[i] = place[j]
    <3>1. p = q
      BY <2>2, <2>6, <2>8
    <3> QED
      BY <2>7, <3>1
  <2>9. CASE place[j] < place[i]
    <3>1. x + place[j] < x + place[i]
      BY <1>1, <2>2, <2>9
    <3>2. Y[j].number < Y[i].number
      BY <1>8, <2>2, <2>3, <3>1 DEF Rising
    <3>3. q < p
      BY <2>6, <3>2
    <3> QED
      BY <2>7, <3>3
  <2> QED
    BY <1>1, <2>2, <2>8, <2>9
<1>13. DOMAIN Y = 1 .. Len(Y) /\ DOMAIN V = 1 .. Len(V)
  BY <1>7, LenProperties
<1>14. L!Left(V, Y)
  BY <1>10, <1>11, <1>12, <1>13 DEF L!Left
<1> QED
  BY <1>6, <1>14 DEF now, Y

-----------------------------------------------------------------------------
(* The way of a flow.                                                      *)

\* A line is made of the stages up to the last but one.
Walked(A, w) ==
  \E g \in [0 .. N -> Seq(Packet)] :
    /\ g[0] = A[0]
    /\ \A n \in 1 .. N : g[n] = A[n] \o g[n - 1]
    /\ w = g[N]

\* Then it has the packets of these stages, in their order.
LEMMA WalkedLines ==
  ASSUME NEW A \in Staged, Ordered(A), NEW w, Walked(A, w)
  PROVE  Lines(A, N, w)
<1>1. PICK g \in [0 .. N -> Seq(Packet)] :
        /\ g[0] = A[0]
        /\ \A n \in 1 .. N : g[n] = A[n] \o g[n - 1]
        /\ w = g[N]
  BY DEF Walked
<1> DEFINE Good == {n \in Nat : n <= N => Lines(A, n, g[n])}
<1>2. 0 \in Good
  <2>1. N \in Nat /\ 0 \in 0 .. N + 1 /\ 0 \in 0 .. N
    BY Numbers
  <2>2. A[0] \in Seq(Packet)
    BY <2>1 DEF Staged
  <2>3. Rising(A[0])
    <3>1. \A i, j : i < j => Ahead(0, i, 0, j)
      BY DEF Ahead
    <3> QED
      BY <2>1, <3>1 DEF Rising, Ordered
  <2>4. Lines(A, 0, A[0])
    <3>1. \A m \in 0 .. 0 : m = 0
      OBVIOUS
    <3>2. 0 \in 0 .. 0
      OBVIOUS
    <3> QED
      BY <2>2, <2>3, <3>1, <3>2 DEF Lines
  <2> QED
    BY <1>1, <2>4
<1>3. \A n \in Nat : n \in Good => n + 1 \in Good
  <2> SUFFICES ASSUME NEW n \in Nat, n \in Good, n + 1 <= N
               PROVE  Lines(A, n + 1, g[n + 1])
    OBVIOUS
  <2>1. N \in Nat
    BY Numbers
  <2>2. n \in 0 .. N /\ n + 1 \in 1 .. N /\ n + 1 - 1 = n /\ Lines(A, n, g[n])
    BY <2>1
  <2>3. Lines(A, n + 1, A[n + 1] \o g[n])
    BY <2>2, LinesGrow
  <2>4. g[n + 1] = A[n + 1] \o g[n]
    <3> DEFINE k == n + 1
    <3>1. k \in 1 .. N /\ k - 1 = n
      BY <2>2
    <3> HIDE DEF k
    <3>2. g[k] = A[k] \o g[n]
      BY <1>1, <3>1
    <3> QED
      BY <3>2 DEF k
  <2> QED
    BY <2>3, <2>4
<1>4. N \in Good
  <2> HIDE DEF Good
  <2> QED
    BY <1>2, <1>3, SetInduction, Numbers
<1> QED
  BY <1>1, <1>4, Numbers

\* A packet more in the socket is one more at the end of the way.
LEMMA WalkedAppend ==
  ASSUME NEW A \in Staged, NEW B \in Staged, NEW v, NEW w,
         Walked(A, v), Walked(B, w), \A n \in 1 .. N : B[n] = A[n]
  PROVE  /\ B[0] = A[0] => w = v
         /\ \A x \in Packet : B[0] = Append(A[0], x) => w = Append(v, x)
<1>1. PICK g \in [0 .. N -> Seq(Packet)] :
        /\ g[0] = A[0]
        /\ \A n \in 1 .. N : g[n] = A[n] \o g[n - 1]
        /\ v = g[N]
  BY DEF Walked
<1>2. PICK h \in [0 .. N -> Seq(Packet)] :
        /\ h[0] = B[0]
        /\ \A n \in 1 .. N : h[n] = B[n] \o h[n - 1]
        /\ w = h[N]
  BY DEF Walked
<1>3. N \in Nat
  BY Numbers
<1>4. ASSUME B[0] = A[0]
      PROVE  w = v
  <2> DEFINE Good == {n \in Nat : n <= N => h[n] = g[n]}
  <2>1. 0 \in Good
    BY <1>1, <1>2, <1>4
  <2>2. \A n \in Nat : n \in Good => n + 1 \in Good
    <3> SUFFICES ASSUME NEW n \in Nat, n \in Good, n + 1 <= N
                 PROVE  h[n + 1] = g[n + 1]
      OBVIOUS
    <3> DEFINE k == n + 1
    <3>1. k \in 1 .. N /\ k - 1 = n /\ h[n] = g[n]
      BY <1>3
    <3> HIDE DEF k
    <3>2. h[k] = g[k]
      BY <1>1, <1>2, <3>1
    <3> QED
      BY <3>2 DEF k
  <2>3. N \in Good
    <3> HIDE DEF Good
    <3> QED
      BY <1>3, <2>1, <2>2, SetInduction
  <2> QED
    BY <1>1, <1>2, <1>3, <2>3
<1>5. ASSUME NEW x \in Packet, B[0] = Append(A[0], x)
      PROVE  w = Append(v, x)
  <2> DEFINE Good == {n \in Nat : n <= N => h[n] = Append(g[n], x)}
  <2>1. 0 \in Good
    BY <1>1, <1>2, <1>5
  <2>2. \A n \in Nat : n \in Good => n + 1 \in Good
    <3> SUFFICES ASSUME NEW n \in Nat, n \in Good, n + 1 <= N
                 PROVE  h[n + 1] = Append(g[n + 1], x)
      OBVIOUS
    <3> DEFINE k == n + 1
    <3>1. /\ k \in 1 .. N /\ k - 1 = n /\ n \in 0 .. N /\ k \in 0 .. N + 1
          /\ h[n] = Append(g[n], x)
      BY <1>3
    <3> HIDE DEF k
    <3>2. h[k] = A[k] \o Append(g[n], x) /\ g[k] = A[k] \o g[n]
      BY <1>1, <1>2, <3>1
    <3>3. A[k] \in Seq(Packet) /\ g[n] \in Seq(Packet)
      BY <3>1 DEF Staged
    <3>4. h[k] = Append(g[k], x)
      BY <3>2, <3>3, AppendConcat
    <3> QED
      BY <3>4 DEF k
  <2>3. N \in Good
    <3> HIDE DEF Good
    <3> QED
      BY <1>3, <2>1, <2>2, SetInduction
  <2> QED
    BY <1>1, <1>2, <1>3, <2>3
<1> QED
  BY <1>4, <1>5

\* The packets of a flow that router a has for its neighbour b.
Held(f, a, b) == Of(f, Packets(queue[a][b]))

\* Where the packets of a flow are: in the socket, between two routers of the
\* route, and at their destination.
Stages(f) ==
  [n \in 0 .. N + 1 |->
     IF n = 0 THEN Of(f, socket)
     ELSE IF n = N + 1 THEN arrived[f]
     ELSE Between(f, Stops(f)[n - 1], Stops(f)[n])]

\* A route: from the router that sends to the one that receives, along the
\* tables, and twice nowhere before the end.
Route(f, s) ==
  /\ s \in [0 .. N -> Router]
  /\ s[0] = f[1]
  /\ \A n \in 1 .. N :
       s[n] = IF s[n - 1] = f[2] THEN f[2] ELSE routingTable[s[n - 1]][f[2]]
  /\ s[N] = f[2]
  /\ \A i, j \in 0 .. N : i < j /\ s[i] # f[2] => s[i] # s[j]

\* Where packets may be.
PlacesOK ==
  /\ socket \in Seq(Packet)
  /\ queue \in [Router -> [Router -> Seq(Entry)]]
  /\ arrived \in [Flow -> Seq(Packet)]

\* The stages are those of packets.
LEMMA StagesAreStaged ==
  ASSUME NEW f \in Flow, PlacesOK, Route(f, Stops(f))
  PROVE  Stages(f) \in Staged
<1> DEFINE s == Stops(f)
<1>1. N \in Nat
  BY Numbers
<1>2. Of(f, socket) \in Seq(Packet) /\ arrived[f] \in Seq(Packet)
  BY OfAppend DEF PlacesOK
<1>3. ASSUME NEW a \in Router, NEW b \in Router
      PROVE  Between(f, a, b) \in Seq(Packet)
  <2>1. queue[a][b] \in Seq(Entry)
    BY DEF PlacesOK
  <2>2. Of(f, Packets(queue[a][b])) \in Seq(Packet)
    BY <2>1, PacketsOfQueue, OfAppend
  <2>3. <<>> \in Seq(Packet)
    OBVIOUS
  <2> QED
    BY <2>2, <2>3 DEF Between
<1>4. s \in [0 .. N -> Router]
  BY DEF Route
<1> HIDE DEF s
<1>5. ASSUME NEW n \in 0 .. N + 1, n # 0, n # N + 1
      PROVE  Between(f, s[n - 1], s[n]) \in Seq(Packet)
  <2>1. n - 1 \in 0 .. N /\ n \in 0 .. N
    BY <1>1, <1>5
  <2>2. s[n - 1] \in Router /\ s[n] \in Router
    BY <1>4, <2>1
  <2> QED
    BY <1>3, <2>2
<1> QED
  BY <1>2, <1>5 DEF Stages, Staged, s

\* Way walks along them.
LEMMA WayIsWalked ==
  ASSUME NEW f \in Flow, PlacesOK, Route(f, Stops(f))
  PROVE  Walked(Stages(f), Way(f))
<1> DEFINE A == Stages(f)
           S == Seq(Packet)
           Back(n) == Between(f, Stops(f)[n - 1], Stops(f)[n])
           UpTo(g) == g = [n \in 0 .. N |-> IF n = 0 THEN Of(f, socket)
                                            ELSE Back(n) \o g[n - 1]]
           step == [n \in 1 .. N |-> [x \in S |-> Back(n) \o x]]
           g == CHOOSE h : UpTo(h)
<1>1. N \in Nat
  BY Numbers
<1>2. A \in Staged
  BY StagesAreStaged
<1>3. A[0] = Of(f, socket) /\ \A n \in 1 .. N : A[n] = Back(n)
  BY <1>1 DEF Stages
<1>4. Of(f, socket) \in S /\ \A n \in 1 .. N : Back(n) \in S
  <2>1. \A n \in 0 .. N + 1 : A[n] \in S
    <3> HIDE DEF A
    <3> QED
      BY <1>2 DEF Staged
  <2>2. 0 \in 0 .. N + 1 /\ \A n \in 1 .. N : n \in 0 .. N + 1
    BY <1>1
  <2> HIDE DEF A, Back, S
  <2> QED
    BY <1>3, <2>1, <2>2
<1>5. Way(f) = g[N]
  BY DEF Way
<1> HIDE DEF A, Back
<1>6. step \in [1 .. N -> [S -> S]]
  <2>1. \A n \in 1 .. N : \A x \in S : Back(n) \o x \in S
    BY <1>4, ConcatProperties
  <2> HIDE DEF S
  <2> QED
    BY <2>1
<1>7. PICK h \in [0 .. N -> S] :
        h[0] = Of(f, socket) /\ \A n \in 1 .. N : h[n] = step[n][h[n - 1]]
  <2>1. Iterates(N, S, Of(f, socket), step)
    <3> HIDE DEF step, S
    <3> QED
      BY <1>1, <1>4, <1>6, Recursion
  <2> QED
    BY <2>1 DEF Iterates
<1> HIDE DEF S
<1>8. \A n \in 1 .. N : h[n] = Back(n) \o h[n - 1]
  <2>1. \A n \in 1 .. N : n - 1 \in 0 .. N
    BY <1>1
  <2> QED
    BY <1>7, <2>1
<1>9. UpTo(h)
  <2> HIDE DEF step
  <2>1. \A n \in 0 .. N : h[n] = IF n = 0 THEN Of(f, socket)
                                 ELSE Back(n) \o h[n - 1]
    BY <1>1, <1>7, <1>8
  <2> QED
    BY <1>7, <2>1
<1>10. UpTo(g)
  <2> HIDE DEF UpTo
  <2> QED
    BY <1>9
<1> HIDE DEF g
<1>11. g[0] = Of(f, socket) /\ \A n \in 1 .. N : g[n] = Back(n) \o g[n - 1]
  <2>1. \A n \in 0 .. N : g[n] = IF n = 0 THEN Of(f, socket)
                                 ELSE Back(n) \o g[n - 1]
    BY <1>10
  <2>2. 0 \in 0 .. N /\ \A n \in 1 .. N : n \in 0 .. N /\ n # 0
    BY <1>1
  <2> HIDE DEF UpTo
  <2> QED
    BY <2>1, <2>2
<1> DEFINE Good == {n \in Nat : n <= N => g[n] \in S}
<1>12. 0 \in Good
  BY <1>4, <1>11
<1>13. \A n \in Nat : n \in Good => n + 1 \in Good
  <2> SUFFICES ASSUME NEW n \in Nat, n \in Good, n + 1 <= N
               PROVE  g[n + 1] \in S
    OBVIOUS
  <2> DEFINE k == n + 1
  <2>1. k \in 1 .. N /\ k - 1 = n /\ g[n] \in S
    BY <1>1
  <2> HIDE DEF k
  <2>2. g[k] = Back(k) \o g[n] /\ Back(k) \in S
    BY <1>4, <1>11, <2>1
  <2>3. g[k] \in S
    BY <2>1, <2>2, ConcatProperties DEF S
  <2> QED
    BY <2>3 DEF k
<1>14. \A n \in 0 .. N : g[n] \in S
  <2>1. Nat \subseteq Good
    <3> HIDE DEF Good
    <3> QED
      BY <1>12, <1>13, SetInduction
  <2> QED
    BY <1>1, <2>1
<1>15. g \in [0 .. N -> Seq(Packet)]
  <2>1. g = [n \in 0 .. N |-> g[n]]
    BY <1>10
  <2> HIDE DEF UpTo
  <2> QED
    BY <1>14, <2>1 DEF S
<1> QED
  BY <1>3, <1>5, <1>11, <1>15 DEF Walked, A

-----------------------------------------------------------------------------
(* Routes.                                                                 *)

\* As the map is connected, every router is within N links.
LEMMA BallIsAll ==
  ASSUME topo \in Topology, NEW a \in Router
  PROVE  Ball(a)[N] = Router
<1> DEFINE Good == {n \in Nat : n <= N => \/ Ball(a)[n] = Router
                                          \/ Cardinality(Ball(a)[n]) >= n + 1}
<1>1. N \in Nat
  BY Numbers
<1>2. /\ Ball(a)[0] = {a}
      /\ \A n \in 0 .. N : Ball(a)[n] \subseteq Router
      /\ \A n \in 1 .. N :
           Ball(a)[n] = Ball(a)[n - 1] \cup Around(Ball(a)[n - 1])
  BY BallIs
<1>3. 0 \in Good
  BY <1>2, FS_Singleton
<1>4. \A n \in Nat : n \in Good => n + 1 \in Good
  <2> SUFFICES ASSUME NEW n \in Nat, n \in Good, n + 1 <= N
               PROVE  \/ Ball(a)[n + 1] = Router
                      \/ Cardinality(Ball(a)[n + 1]) >= (n + 1) + 1
    OBVIOUS
  <2> DEFINE k == n + 1
  <2>1. k \in 1 .. N /\ k - 1 = n /\ n \in 0 .. N /\ k \in 0 .. N /\ n \in Nat
    BY <1>1
  <2>2. k = n + 1
    OBVIOUS
  <2> HIDE DEF k
  <2> DEFINE X == Ball(a)[n]
             Y == Ball(a)[k]
  <2>3. /\ X \subseteq Router /\ Y \subseteq Router
        /\ Y = X \cup Around(X)
        /\ X = Router \/ Cardinality(X) >= n + 1
    BY <1>1, <1>2, <2>1
  <2>4. a \in X
    <3>1. Ball(a)[0] \subseteq X
      BY <2>1, BallGrows
    <3> QED
      BY <1>2, <3>1
  <2> HIDE DEF X, Y
  <2>5. IsFiniteSet(X) /\ IsFiniteSet(Y) /\ Cardinality(X) \in Nat /\ Cardinality(Y) \in Nat
    BY <2>3, RoutersAreN, FS_Subset, FS_CardinalityType
  <2>6. CASE X = Router
    BY <2>3, <2>6 DEF Y, k
  <2>7. CASE X # Router
    <3>1. Connects(topo)
      BY SimulatorAssumption
    <3>2. X \in (SUBSET Router) \ {{}, Router}
      BY <2>3, <2>4, <2>7
    <3>3. PICK b \in X, c \in Router \ X : {b, c} \in topo
      BY <3>1, <3>2 DEF Connects
    <3>4. c \in Neighbours(b)
      BY <2>3, <3>3 DEF Neighbours
    <3>5. c \in Y /\ X \subseteq Y /\ X # Y
      BY <2>3, <3>3, <3>4 DEF Around
    <3>6. Cardinality(X) < Cardinality(Y)
      BY <2>5, <3>5, FS_Subset
    <3>7. Cardinality(Y) >= k + 1
      BY <2>2, <2>1, <2>3, <2>5, <2>7, <3>6
    <3> QED
      BY <3>7 DEF Y, k
  <2> QED
    BY <2>6, <2>7
<1>5. N \in Good
  <2> HIDE DEF Good
  <2> QED
    BY <1>1, <1>3, <1>4, SetInduction
<1>6. CASE Cardinality(Ball(a)[N]) >= N + 1
  <2>1. Ball(a)[N] \subseteq Router /\ IsFiniteSet(Router) /\ Cardinality(Router) = N
    BY <1>1, <1>2, RoutersAreN
  <2>2. Cardinality(Ball(a)[N]) <= N /\ Cardinality(Ball(a)[N]) \in Nat
    BY <2>1, FS_Subset, FS_CardinalityType
  <2> QED
    BY <1>1, <1>6, <2>2
<1> QED
  BY <1>1, <1>5, <1>6

\* The next stop of a flow.
NextStop(f, x) == IF x = f[2] THEN f[2] ELSE routingTable[x][f[2]]

\* Stops goes from one to the next.
LEMMA StopsGo ==
  ASSUME NEW f \in Flow, \A x \in Router : NextStop(f, x) \in Router
  PROVE  /\ Stops(f) \in [0 .. N -> Router]
         /\ Stops(f)[0] = f[1]
         /\ \A n \in 1 .. N : Stops(f)[n] = NextStop(f, Stops(f)[n - 1])
<1> DEFINE Go(h) == h = [n \in 0 .. N |-> IF n = 0 THEN f[1]
                                          ELSE NextStop(f, h[n - 1])]
           step == [n \in 1 .. N |-> [x \in Router |-> NextStop(f, x)]]
           s == CHOOSE h : Go(h)
<1>1. N \in Nat
  BY Numbers
<1>2. f[1] \in Router
  BY FlowsAreOfRouters
<1>3. step \in [1 .. N -> [Router -> Router]]
  OBVIOUS
<1>4. PICK h \in [0 .. N -> Router] :
        h[0] = f[1] /\ \A n \in 1 .. N : h[n] = step[n][h[n - 1]]
  <2>1. Iterates(N, Router, f[1], step)
    <3> HIDE DEF step
    <3> QED
      BY <1>1, <1>2, <1>3, Recursion
  <2> QED
    BY <2>1 DEF Iterates
<1>5. \A n \in 1 .. N : h[n] = NextStop(f, h[n - 1])
  <2>1. \A n \in 1 .. N : n - 1 \in 0 .. N
    BY <1>1
  <2> QED
    BY <1>4, <2>1
<1>6. Go(h)
  <2> HIDE DEF step
  <2>1. \A n \in 0 .. N : h[n] = IF n = 0 THEN f[1] ELSE NextStop(f, h[n - 1])
    BY <1>1, <1>4, <1>5
  <2> QED
    BY <1>4, <2>1
<1>7. Go(s)
  <2> HIDE DEF Go
  <2> QED
    BY <1>6
<1>8. Stops(f) = s
  BY DEF Stops, NextStop
<1> HIDE DEF s
<1>9. s[0] = f[1] /\ \A n \in 1 .. N : s[n] = NextStop(f, s[n - 1])
  <2>1. \A n \in 0 .. N : s[n] = IF n = 0 THEN f[1] ELSE NextStop(f, s[n - 1])
    BY <1>7
  <2>2. 0 \in 0 .. N /\ \A n \in 1 .. N : n \in 0 .. N /\ n # 0
    BY <1>1
  <2> HIDE DEF Go
  <2> QED
    BY <2>1, <2>2
<1> DEFINE Good == {n \in Nat : n <= N => s[n] \in Router}
<1>10. 0 \in Good
  BY <1>2, <1>9
<1>11. \A n \in Nat : n \in Good => n + 1 \in Good
  <2> SUFFICES ASSUME NEW n \in Nat, n \in Good, n + 1 <= N
               PROVE  s[n + 1] \in Router
    OBVIOUS
  <2> DEFINE k == n + 1
  <2>1. k \in 1 .. N /\ k - 1 = n /\ s[n] \in Router
    BY <1>1
  <2> HIDE DEF k
  <2>2. s[k] \in Router
    BY <1>9, <2>1
  <2> QED
    BY <2>2 DEF k
<1>12. \A n \in 0 .. N : s[n] \in Router
  <2>1. Nat \subseteq Good
    <3> HIDE DEF Good
    <3> QED
      BY <1>10, <1>11, SetInduction
  <2> QED
    BY <1>1, <2>1
<1>13. s \in [0 .. N -> Router]
  <2>1. s = [n \in 0 .. N |-> s[n]]
    BY <1>7
  <2> HIDE DEF Go
  <2> QED
    BY <1>12, <2>1
<1> QED
  BY <1>8, <1>9, <1>13

\* All tables are there.
TablesComplete == DOMAIN routingTable = Router

\* The tables lead every flow to its destination.
LEMMA StopsAreRoute ==
  ASSUME TableInv, TablesComplete, NEW f \in Flow
  PROVE  Route(f, Stops(f))
<1> DEFINE s == Stops(f)
           d == f[2]
<1>1. N \in Nat /\ d \in Router /\ f[1] \in Router /\ topo \in Topology
  BY Numbers, FlowsAreOfRouters DEF TableInv
<1>2. ASSUME NEW x \in Router, x # d
      PROVE  /\ NextStop(f, x) = routingTable[x][d]
             /\ NextStop(f, x) \in Router
             /\ \A n \in 1 .. N : d \in Ball(x)[n] => d \in Ball(NextStop(f, x))[n - 1]
  <2>1. OnShortestWay(x, d)
    BY <1>1, <1>2 DEF TableInv, TablesLead, TablesComplete
  <2>2. NextStop(f, x) = routingTable[x][d]
    BY <1>2 DEF NextStop
  <2> QED
    BY <2>1, <2>2 DEF OnShortestWay, Neighbours
<1>3. /\ s \in [0 .. N -> Router]
      /\ s[0] = f[1]
      /\ \A n \in 1 .. N : s[n] = NextStop(f, s[n - 1])
  <2>1. \A x \in Router : NextStop(f, x) \in Router
    <3> TAKE x \in Router
    <3>1. CASE x = d
      BY <1>1, <3>1 DEF NextStop
    <3>2. CASE x # d
      BY <1>2, <3>2
    <3> QED
      BY <3>1, <3>2
  <2> QED
    BY <2>1, StopsGo
<1> HIDE DEF s
\* Every stop is nearer to d than the one before.
<1> DEFINE Near(n, m) == s[n] = d \/ (m \in Nat /\ d \in Ball(s[n])[m])
<1>4. ASSUME NEW n \in 0 .. N, n + 1 <= N, NEW m \in Nat, m <= N, Near(n, m)
      PROVE  Near(n + 1, m - 1)
  <2> DEFINE k == n + 1
  <2>1. k \in 1 .. N /\ k - 1 = n /\ s[n] \in Router
    BY <1>1, <1>3, <1>4
  <2> HIDE DEF k
  <2>2. s[k] = NextStop(f, s[n])
    BY <1>3, <2>1
  <2>3. CASE s[n] = d
    BY <2>2, <2>3 DEF NextStop, k
  <2>4. CASE s[n] # d
    <3>1. d \in Ball(s[n])[m]
      BY <1>4, <2>4
    <3>2. m # 0
      BY <2>1, <2>4, <3>1, BallIs
    <3>3. m \in 1 .. N
      BY <1>1, <1>4, <3>2
    <3>4. d \in Ball(s[k])[m - 1]
      BY <1>2, <2>1, <2>2, <2>4, <3>1, <3>3
    <3> QED
      BY <3>3, <3>4 DEF k
  <2> QED
    BY <2>3, <2>4
<1> HIDE DEF Near
<1>5. ASSUME NEW i \in 0 .. N, NEW m \in Nat, m <= N, Near(i, m)
      PROVE  \A j \in Nat : i + j <= N => Near(i + j, m - j)
  <2> DEFINE Good == {j \in Nat : i + j <= N => Near(i + j, m - j)}
  <2>1. 0 \in Good
    BY <1>1, <1>5
  <2>2. \A j \in Nat : j \in Good => j + 1 \in Good
    <3> SUFFICES ASSUME NEW j \in Nat, j \in Good, i + (j + 1) <= N
                 PROVE  Near(i + (j + 1), m - (j + 1))
      OBVIOUS
    <3> DEFINE n == i + j
    <3>1. n \in 0 .. N /\ n + 1 <= N /\ Near(n, m - j) /\ n + 1 = i + (j + 1)
      BY <1>1
    <3>2. CASE m - j \in Nat
      <4> DEFINE p == m - j
      <4>1. p \in Nat /\ p <= N /\ p - 1 = m - (j + 1)
        BY <1>1, <1>5, <3>2
      <4> HIDE DEF n, p
      <4>2. Near(n, p)
        BY <3>1 DEF p
      <4>3. Near(n + 1, p - 1)
        BY <1>4, <3>1, <4>1, <4>2
      <4> QED
        BY <3>1, <4>1, <4>3
    <3>3. CASE m - j \notin Nat
      <4>1. s[n] = d
        BY <3>1, <3>3 DEF Near
      <4> HIDE DEF n
      <4>2. Near(n, 0)
        BY <4>1 DEF Near
      <4>3. Near(n + 1, 0 - 1)
        BY <1>1, <1>4, <3>1, <4>2
      <4>4. s[n + 1] = d
        BY <4>3 DEF Near
      <4>5. Near(n + 1, m - (j + 1))
        BY <4>4 DEF Near
      <4> QED
        BY <3>1, <4>5
    <3> QED
      BY <3>2, <3>3
  <2>3. Nat \subseteq Good
    <3> HIDE DEF Good
    <3> QED
      BY <2>1, <2>2, SetInduction
  <2> QED
    BY <2>3
<1>6. s[N] = d
  <2>1. Near(0, N)
    BY <1>1, <1>3, BallIsAll DEF Near
  <2>2. Near(0 + N, N - N)
    <3>1. 0 + N <= N /\ 0 \in 0 .. N /\ N <= N
      BY <1>1
    <3> QED
      BY <1>1, <1>5, <2>1, <3>1
  <2>3. 0 + N = N /\ N - N = 0 /\ N \in 0 .. N
    BY <1>1
  <2>4. Near(N, 0)
    BY <2>2, <2>3
  <2>5. s[N] \in Router
    BY <1>3, <2>3
  <2>6. Ball(s[N])[0] = {s[N]}
    BY <2>5, BallIs
  <2> QED
    BY <2>4, <2>6 DEF Near
<1>7. ASSUME NEW i \in 0 .. N, NEW j \in 0 .. N, i < j, s[i] # d, s[i] = s[j]
      PROVE  FALSE
  <2> DEFINE T == {m \in Nat : m <= N /\ d \in Ball(s[i])[m]}
  <2>1. s[i] \in Router
    BY <1>3
  <2>2. N \in T
    BY <1>1, <2>1, BallIsAll
  <2>3. PICK m \in T : \A k \in T : m <= k
    <3> HIDE DEF T
    <3>1. T \subseteq Nat
      BY DEF T
    <3> QED
      BY <2>2, <3>1, Smallest
  <2>4. Near(i, m) /\ m \in Nat /\ m <= N
    BY <2>3 DEF Near
  <2> DEFINE l == j - i
  <2>5. l \in Nat /\ i + l = j /\ l > 0
    BY <1>1, <1>7
  <2> HIDE DEF l
  <2>6. Near(j, m - l)
    BY <1>5, <2>4, <2>5
  <2>7. m - l \in Nat /\ d \in Ball(s[j])[m - l]
    BY <1>7, <2>6 DEF Near
  <2>8. m - l \in T
    BY <1>1, <1>7, <2>4, <2>5, <2>7
  <2>9. m <= m - l
    BY <2>3, <2>8
  <2> QED
    BY <2>4, <2>5, <2>9
<1>8. \A n \in 1 .. N : s[n] = IF s[n - 1] = d THEN d ELSE routingTable[s[n - 1]][d]
  BY <1>3 DEF NextStop
<1> QED
  BY <1>3, <1>6, <1>7, <1>8 DEF Route, s

\* The stages are stages, and the way walks along them.
WayOK ==
  \A f \in Flow : PlacesOK /\ Route(f, Stops(f)) =>
                    Stages(f) \in Staged /\ Walked(Stages(f), Way(f))

\* They do for every flow that has a route,
LEMMA WaysAreOK == WayOK
BY StagesAreStaged, WayIsWalked DEF WayOK

\* also after a step.
LEMMA WaysAreOKThen == WayOK'
<1>1. WayOK
  BY WaysAreOK
<1> QED
  BY <1>1, PTL

\* Flows have routes.
RoutesOK ==
  \A f \in Flow : TableInv /\ TablesComplete => Route(f, Stops(f))

\* They have them after a step, too.
LEMMA RoutesThen == RoutesOK'
<1>1. RoutesOK
  BY StopsAreRoute DEF RoutesOK
<1> QED
  BY <1>1, PTL

\* When the packets move from stage to stage in their order, some of them
\* lost, and more packets are at the last stage, Links may do so.
LEMMA StagesPassOn ==
  ASSUME NEW A \in Staged, NEW B \in Staged, Ordered(A), Ordered(B),
         Shrinks(A, B), NEW v, NEW w, Walked(A, v), Walked(B, w),
         NEW K \in Seq(Packet), B[N + 1] = A[N + 1] \o K
  PROVE  /\ IsPrefix(A[N + 1], B[N + 1])
         /\ L!Left(v, SubSeq(B[N + 1] \o w, Len(A[N + 1]) + 1, Len(B[N + 1] \o w)))
<1> DEFINE X == A[N + 1]
<1>1. N \in Nat /\ N \in 0 .. N /\ N + 1 \in 0 .. N + 1
  BY Numbers
<1>2. Lines(A, N, v) /\ Lines(B, N, w)
  BY WalkedLines
<1>3. /\ Lines(A, N + 1, A[N + 1] \o v)
      /\ Lines(B, N + 1, B[N + 1] \o w)
  BY <1>1, <1>2, LinesGrow
<1>4. X \in Seq(Packet) /\ v \in Seq(Packet) /\ w \in Seq(Packet)
  BY <1>1, <1>2 DEF Lines, Staged
<1>5. Rising(X \o v) /\ Rising((X \o K) \o w)
  BY <1>3 DEF Lines
<1>6. ASSUME NEW i \in 1 .. Len((X \o K) \o w)
      PROVE  \E j \in 1 .. Len(X \o v) : ((X \o K) \o w)[i] = (X \o v)[j]
  <2> DEFINE s == X \o v
             t == (X \o K) \o w
  <2>1. Lines(A, N + 1, s) /\ Lines(B, N + 1, t)
    BY <1>3
  <2>2. i \in 1 .. Len(t)
    OBVIOUS
  <2> HIDE DEF s, t
  <2>3. PICK m \in 0 .. N + 1 : \E j \in 1 .. Len(B[m]) : t[i] = B[m][j]
    BY <2>1, <2>2 DEF Lines
  <2>4. PICK j \in 1 .. Len(B[m]) : t[i] = B[m][j]
    BY <2>3
  <2>5. \E n \in 0 .. N + 1 : \E k \in 1 .. Len(A[n]) : B[m][j] = A[n][k]
    BY DEF Shrinks
  <2>6. PICK n \in 0 .. N + 1 : \E k \in 1 .. Len(A[n]) : t[i] = A[n][k]
    BY <2>4, <2>5
  <2>7. \E k \in 1 .. Len(s) : t[i] = s[k]
    BY <2>1, <2>6 DEF Lines
  <2> QED
    BY <2>7 DEF s, t
<1> HIDE DEF X
<1>7. /\ IsPrefix(X, X \o K)
      /\ L!Left(v, SubSeq((X \o K) \o w, Len(X) + 1, Len((X \o K) \o w)))
  BY <1>4, <1>5, <1>6, LineShrinks
<1> QED
  BY <1>7 DEF X

\* Nothing is anywhere.
NothingSent ==
  /\ socket = <<>>
  /\ \A a, b \in Router : queue[a][b] = <<>>
  /\ \A f \in Flow : arrived[f] = <<>>

\* The packets that a sends to b pass them.
OnRoute(f, a, b) ==
  /\ a # f[2]
  /\ routingTable[a][f[2]] = b
  /\ \E n \in 0 .. N : Stops(f)[n] = a

\* No other queue holds packets of the flow.
OnlyOnRoute(f) ==
  \A a, b \in Router : Held(f, a, b) # <<>> => OnRoute(f, a, b)

\* So many packets were sent.
UpToNumber(A, k) ==
  \A m \in 0 .. N + 1 : \A i \in 1 .. Len(A[m]) : A[m][i].number <= k

\* The packets of a flow are on their route, in the order they were sent in.
FlowOK(f) ==
  /\ Ordered(Stages(f))
  /\ UpToNumber(Stages(f), sent)
  /\ OnlyOnRoute(f)

\* The tables lead to every router before the first packet is sent, and the
\* packets of every flow are on their route and in their order.
OrderInv ==
  /\ TableInv
  /\ PlacesOK
  /\ sent \in 0 .. MaxPackets
  /\ IF pc = "tables"
       THEN NothingSent
       ELSE TablesComplete /\ \A f \in Flow : FlowOK(f)

\* How the packets of a flow may move in a step.
Moves(f) ==
  /\ Ordered(Stages(f)')
  /\ Shrinks(Stages(f), Stages(f)')
  /\ \E K \in Seq(Packet) : arrived'[f] = arrived[f] \o K

\* Then Links may make the step.
LEMMA MovesPassOn ==
  ASSUME OrderInv, OrderInv', pc # "tables", pc' # "tables",
         NEW f \in Flow, Moves(f)
  PROVE  L!PassOn(f)
<1>1. Route(f, Stops(f)) /\ PlacesOK
  BY StopsAreRoute DEF OrderInv
<1>2. Stages(f) \in Staged /\ Walked(Stages(f), Way(f))
  BY <1>1, WaysAreOK DEF WayOK
<1>3. Route(f, Stops(f))' /\ PlacesOK'
  BY RoutesThen DEF RoutesOK, OrderInv
<1>4. Stages(f)' \in Staged /\ Walked(Stages(f)', Way(f)')
  BY <1>3, WaysAreOKThen DEF WayOK
<1>5. Ordered(Stages(f)) /\ Ordered(Stages(f)') /\ Shrinks(Stages(f), Stages(f)')
  BY DEF OrderInv, FlowOK, Moves
<1>6. PICK K \in Seq(Packet) : arrived'[f] = arrived[f] \o K
  BY DEF Moves
<1>7. Stages(f)[N + 1] = arrived[f] /\ Stages(f)'[N + 1] = arrived'[f]
  BY Numbers DEF Stages
<1>8. /\ IsPrefix(arrived[f], arrived'[f])
      /\ L!Left(Way(f), SubSeq(arrived'[f] \o Way(f)', Len(arrived[f]) + 1,
                               Len(arrived'[f] \o Way(f)')))
  <2> DEFINE A == Stages(f)
             B == Stages(f)'
             v == Way(f)
             w == Way(f)'
  <2>1. /\ A \in Staged /\ B \in Staged /\ Ordered(A) /\ Ordered(B)
        /\ Shrinks(A, B) /\ Walked(A, v) /\ Walked(B, w)
        /\ B[N + 1] = A[N + 1] \o K
        /\ A[N + 1] = arrived[f] /\ B[N + 1] = arrived'[f]
    BY <1>2, <1>4, <1>5, <1>6, <1>7
  <2> HIDE DEF A, B, v, w
  <2>2. /\ IsPrefix(A[N + 1], B[N + 1])
        /\ L!Left(v, SubSeq(B[N + 1] \o w, Len(A[N + 1]) + 1, Len(B[N + 1] \o w)))
    BY <2>1, StagesPassOn
  <2> QED
    BY <2>1, <2>2 DEF v, w
<1>9. L!IsPrefix(arrived[f], arrived'[f])
  BY <1>8 DEF IsPrefix, L!IsPrefix
<1>10. /\ [g \in Flow |-> IF pc = "tables" THEN <<>> ELSE Way(g)][f] = Way(f)
       /\ [g \in Flow |-> IF pc' = "tables" THEN <<>> ELSE Way(g)'][f] = Way(f)'
  OBVIOUS
<1> QED
  BY <1>8, <1>9, <1>10 DEF L!PassOn

-----------------------------------------------------------------------------
(* The steps of the loop, seen by one flow.                                *)

\* Routes change with the tables only.
LEMMA SameStops ==
  ASSUME routingTable' = routingTable
  PROVE  \A f : Stops(f)' = Stops(f)
BY SMT DEF Stops

\* Of no packets none are left, and all may be left.
LEMMA LeftOfNone ==
  ASSUME NEW s \in Seq(Packet)
  PROVE  /\ \A t \in Seq(Packet) : L!Left(<<>>, t) => t = <<>>
         /\ L!Left(s, s)
<1>1. ASSUME NEW t \in Seq(Packet), L!Left(<<>>, t)
      PROVE  t = <<>>
  <2>1. DOMAIN <<>> = {} /\ DOMAIN t = 1 .. Len(t) /\ Len(t) \in Nat
    BY LenProperties
  <2>2. PICK place \in [DOMAIN t -> DOMAIN <<>>] : \A k \in DOMAIN t : t[k] = <<>>[place[k]]
    BY <1>1 DEF L!Left
  <2>3. \A k \in DOMAIN t : place[k] \in {}
    BY <2>1, <2>2
  <2>4. DOMAIN t = {}
    BY <2>3
  <2>5. Len(t) = 0
    BY <2>1, <2>4
  <2> QED
    BY <2>5, EmptySeq
<1>2. L!Left(s, s)
  <2> DEFINE place == [k \in DOMAIN s |-> k]
  <2>1. DOMAIN s \subseteq Nat
    BY LenProperties
  <2>2. place \in [DOMAIN s -> DOMAIN s]
    OBVIOUS
  <2>3. /\ \A k \in DOMAIN s : s[k] = s[place[k]]
        /\ \A j, k \in DOMAIN s : j < k => place[j] < place[k]
    OBVIOUS
  <2> HIDE DEF place
  <2> QED
    BY <2>2, <2>3 DEF L!Left
<1> QED
  BY <1>1, <1>2

\* A queue gets packets for others than its router, some of them lost.
Gets(f, a, b, head) ==
  Grows(Held(f, a, b), head, a = f[2] \/ routingTable[a][f[2]] # b, Held(f, a, b)')

\* The queue of a router that packets were received by gets them.
LEMMA QueueAtGets ==
  ASSUME NEW f, NEW a \in Router, NEW b \in Router, NEW packets \in Seq(Packet),
         PlacesOK, queue'[a][b] = QueueAt(a, b, queue[a][b], packets)
  PROVE  Gets(f, a, b, Of(f, packets))
<1> DEFINE q == queue[a][b]
<1>1. q \in Seq(Entry)
  BY DEF PlacesOK
<1> HIDE DEF q
<1>2. Grows(Of(f, Packets(q)), Of(f, packets),
            a = f[2] \/ routingTable[a][f[2]] # b,
            Of(f, Packets(QueueAt(a, b, q, packets))))
  BY <1>1, QueueAtPasses
<1> QED
  BY <1>2 DEF Gets, Held, q

\* A queue that gets none, or is not on the route, stays.
LEMMA GetsNone ==
  ASSUME NEW f, NEW a \in Router, NEW b \in Router, NEW head,
         PlacesOK, Gets(f, a, b, head),
         head = <<>> \/ a = f[2] \/ routingTable[a][f[2]] # b
  PROVE  Held(f, a, b)' = Held(f, a, b)
<1>1. PICK kept \in Seq(Packet) :
        /\ L!Left(head, kept)
        /\ Held(f, a, b)' = Held(f, a, b) \o kept
        /\ a = f[2] \/ routingTable[a][f[2]] # b => kept = <<>>
  BY DEF Gets, Grows
<1>2. kept = <<>>
  <2>1. <<>> \in Seq(Packet)
    OBVIOUS
  <2> QED
    BY <1>1, <2>1, LeftOfNone
<1>3. Held(f, a, b) \in Seq(Packet)
  <2>1. queue[a][b] \in Seq(Entry)
    BY DEF PlacesOK
  <2> QED
    BY <2>1, PacketsOfQueue, OfAppend DEF Held
<1> QED
  BY <1>1, <1>2, <1>3, ConcatEmptySeq

\* What a step needs to know of the state and the flow.
Before(f) ==
  /\ f \in Flow
  /\ PlacesOK
  /\ Route(f, Stops(f))
  /\ Ordered(Stages(f))
  /\ UpToNumber(Stages(f), sent)
  /\ OnlyOnRoute(f)
  /\ sent \in Nat

\* What a step must keep, and do.
After(f) ==
  /\ UpToNumber(Stages(f)', sent')
  /\ OnlyOnRoute(f)'
  /\ Moves(f)

\* The stages of a flow with the route s.
StagesAre(f, s) ==
  /\ DOMAIN Stages(f) = 0 .. N + 1
  /\ Stages(f) = [n \in 0 .. N + 1 |-> Stages(f)[n]]
  /\ Stages(f)[0] = Of(f, socket)
  /\ Stages(f)[N + 1] = arrived[f]
  /\ \A n \in 1 .. N :
       Stages(f)[n] = IF s[n - 1] = f[2] THEN <<>> ELSE Held(f, s[n - 1], s[n])

\* That holds of every flow,
AllStagesAre == \A f, s : s = Stops(f) => StagesAre(f, s)

\* in any state,
LEMMA AllStages == AllStagesAre
BY Numbers DEF AllStagesAre, StagesAre, Stages, Between, Held

\* and after a step.
LEMMA AllStagesThen == AllStagesAre'
<1>1. AllStagesAre
  BY AllStages
<1> QED
  BY <1>1, PTL

\* A flow whose packets all stay.
LEMMA FlowStays ==
  ASSUME NEW f, Before(f), routingTable' = routingTable,
         Of(f, socket') = Of(f, socket), arrived'[f] = arrived[f],
         \A a, b \in Router : Held(f, a, b)' = Held(f, a, b)
  PROVE  /\ Stages(f)' = Stages(f)
         /\ OnlyOnRoute(f)'
         /\ sent' = sent => After(f)
<1>1. Stops(f)' = Stops(f)
  BY SameStops
<1>2. PICK s : s = Stops(f)
  OBVIOUS
<1>3. s \in [0 .. N -> Router] /\ N \in Nat
  BY <1>2, Numbers DEF Before, Route
<1>4. Stages(f)' = Stages(f)
  <2>1. StagesAre(f, s) /\ StagesAre(f, s)'
    BY <1>1, <1>2, AllStages, AllStagesThen DEF AllStagesAre
  <2>2. \A n \in 1 .. N : Stages(f)'[n] = Stages(f)[n]
    <3> TAKE n \in 1 .. N
    <3>1. s[n - 1] \in Router /\ s[n] \in Router
      BY <1>3
    <3>2. Held(f, s[n - 1], s[n])' = Held(f, s[n - 1], s[n])
      BY <3>1
    <3> QED
      BY <2>1, <3>2 DEF StagesAre
  <2>3. \A n \in 0 .. N + 1 : Stages(f)'[n] = Stages(f)[n]
    <3>1. Stages(f)'[0] = Stages(f)[0] /\ Stages(f)'[N + 1] = Stages(f)[N + 1]
      BY <2>1 DEF StagesAre
    <3>2. \A n \in 0 .. N + 1 : n = 0 \/ n = N + 1 \/ n \in 1 .. N
      BY <1>3
    <3> QED
      BY <2>2, <3>1, <3>2, Zenon
  <2> QED
    BY <2>1, <2>3, Zenon DEF StagesAre
<1>5. sent' = sent => UpToNumber(Stages(f)', sent')
  BY <1>4 DEF Before
<1>6. OnlyOnRoute(f)'
  BY <1>1 DEF Before, OnlyOnRoute, OnRoute
<1>7. Moves(f)
  <2>1. Shrinks(Stages(f), Stages(f)')
    BY <1>4 DEF Shrinks
  <2>2. arrived[f] \in Seq(Packet) /\ <<>> \in Seq(Packet)
    BY DEF Before, PlacesOK
  <2>3. arrived'[f] = arrived[f] \o <<>>
    BY <2>2, ConcatEmptySeq
  <2> QED
    BY <1>4, <2>1, <2>2, <2>3 DEF Moves, Before
<1> QED
  BY <1>4, <1>5, <1>6, <1>7 DEF After

\* A flow some of whose packets move from one stage to another.
LEMMA FlowPasses ==
  ASSUME NEW f, Before(f), PlacesOK', routingTable' = routingTable, sent' = sent,
         NEW n \in 0 .. N + 1, NEW m \in 0 .. N + 1, NEW head \in Seq(Packet),
         NEW rest \in Seq(Packet), NEW kept \in Seq(Packet),
         PassedOn(Stages(f), Stages(f)', n, m, head, rest, kept),
         \A a, b \in Router : Held(f, a, b)' # <<>> => OnRoute(f, a, b)
  PROVE  After(f)
<1>1. Stops(f)' = Stops(f)
  BY SameStops
<1>2. Route(f, Stops(f)) /\ Route(f, Stops(f))'
  BY <1>1 DEF Before, Route
<1>3. Stages(f) \in Staged /\ Stages(f)' \in Staged
  BY <1>2, WaysAreOK, WaysAreOKThen DEF WayOK, Before
<1> DEFINE A == Stages(f)
           B == Stages(f)'
<1>4. Ordered(A)
  BY DEF Before
<1> HIDE DEF A, B
<1>5. Ordered(B) /\ Shrinks(A, B)
  <2>1. PassedOn(A, B, n, m, head, rest, kept) /\ A \in Staged /\ B \in Staged
    BY <1>3 DEF A, B
  <2> QED
    BY <1>4, <2>1, PassingKeepsOrder
<1>6. UpToNumber(B, sent)
  <2> SUFFICES ASSUME NEW k \in 0 .. N + 1, NEW i \in 1 .. Len(B[k])
               PROVE  B[k][i].number <= sent
    BY DEF UpToNumber
  <2>1. PICK l \in 0 .. N + 1 : \E j \in 1 .. Len(A[l]) : B[k][i] = A[l][j]
    BY <1>5 DEF Shrinks
  <2>2. PICK j \in 1 .. Len(A[l]) : B[k][i] = A[l][j]
    BY <2>1
  <2>3. A[l][j].number <= sent
    BY DEF Before, UpToNumber, A
  <2> QED
    BY <2>2, <2>3
<1>7. OnlyOnRoute(f)'
  BY <1>1 DEF OnlyOnRoute, OnRoute
<1>8. \E K \in Seq(Packet) : arrived'[f] = arrived[f] \o K
  <2>1. N \in Nat /\ N + 1 \in 0 .. N + 1
    BY Numbers
  <2>2. A[N + 1] = arrived[f] /\ B[N + 1] = arrived'[f]
    BY AllStages, AllStagesThen DEF AllStagesAre, StagesAre, A, B
  <2>3. PassedOn(A, B, n, m, head, rest, kept)
    BY DEF A, B
  <2>4. CASE m = N + 1
    <3>1. B[N + 1] = A[N + 1] \o kept
      BY <2>3, <2>4 DEF PassedOn
    <3> QED
      BY <2>2, <3>1
  <2>5. CASE m # N + 1
    <3>1. n # N + 1
      BY <2>1, <2>3 DEF PassedOn
    <3>2. B[N + 1] = A[N + 1]
      BY <2>1, <2>3, <2>5, <3>1 DEF PassedOn
    <3>3. arrived[f] \in Seq(Packet) /\ <<>> \in Seq(Packet)
      BY DEF Before, PlacesOK
    <3>4. arrived'[f] = arrived[f] \o <<>>
      BY <2>2, <3>2, <3>3, ConcatEmptySeq
    <3> QED
      BY <3>3, <3>4
  <2> QED
    BY <2>4, <2>5
<1> QED
  BY <1>5, <1>6, <1>7, <1>8 DEF After, Moves, A, B

\* The first packet of a socket, and the others.
LEMMA HeadBeforeTail ==
  ASSUME NEW s \in Seq(Packet), s # <<>>
  PROVE  Head(s) \in Packet /\ Tail(s) \in Seq(Packet) /\ s = <<Head(s)>> \o Tail(s)
<1>1. Len(s) \in Nat /\ Len(s) # 0
  BY LenProperties, EmptySeq
<1>2. /\ Head(s) \in Packet /\ Head(s) = s[1]
      /\ Tail(s) \in Seq(Packet) /\ Len(Tail(s)) = Len(s) - 1
      /\ \A i \in 1 .. Len(s) - 1 : Tail(s)[i] = s[i + 1]
  BY <1>1, HeadTailProperties
<1> DEFINE h == <<Head(s)>>
           t == h \o Tail(s)
<1>3. h \in Seq(Packet) /\ Len(h) = 1 /\ h[1] = Head(s)
  BY <1>2
<1> HIDE DEF h
<1>4. /\ t \in Seq(Packet) /\ Len(t) = 1 + (Len(s) - 1)
      /\ \A i \in 1 .. 1 + (Len(s) - 1) : t[i] = IF i <= 1 THEN h[i] ELSE Tail(s)[i - 1]
  <2>1. h \in Seq(Packet) /\ Tail(s) \in Seq(Packet)
    BY <1>2, <1>3
  <2>2. /\ t \in Seq(Packet) /\ Len(t) = Len(h) + Len(Tail(s))
        /\ \A i \in 1 .. Len(h) + Len(Tail(s)) :
             t[i] = IF i <= Len(h) THEN h[i] ELSE Tail(s)[i - Len(h)]
    BY <2>1, ConcatProperties
  <2> HIDE DEF t
  <2> QED
    BY <1>2, <1>3, <2>2
<1> HIDE DEF t
<1>5. \A i \in 1 .. Len(s) : s[i] = t[i]
  <2> TAKE i \in 1 .. Len(s)
  <2>1. CASE i = 1
    BY <1>1, <1>2, <1>3, <1>4, <2>1
  <2>2. CASE i # 1
    <3>1. i - 1 \in 1 .. Len(s) - 1 /\ i - 1 + 1 = i /\ ~(i <= 1) /\ i \in 1 .. 1 + (Len(s) - 1)
      BY <1>1, <2>2
    <3> QED
      BY <1>2, <1>4, <3>1
  <2> QED
    BY <2>1, <2>2
<1>6. s = t
  BY <1>1, <1>4, <1>5, SeqEqual
<1> QED
  BY <1>2, <1>6 DEF t, h

\* A packet that is received passes to the first queue of its route.
LEMMA ReceiveMoves ==
  ASSUME NEW f, Before(f), PlacesOK', Receive
  PROVE  After(f)
<1>1. PICK p, self : p = Head(socket) /\ self = p.flow[1]
  OBVIOUS
<1>2. /\ socket # <<>> /\ socket' = Tail(socket)
      /\ queue' = [queue EXCEPT ![self] =
                     [c \in Router |-> QueueAt(self, c, @[c], <<p>>)]]
      /\ routingTable' = routingTable /\ sent' = sent /\ arrived' = arrived
  BY <1>1 DEF Receive, table_vars
<1>3. p \in Packet /\ socket = <<p>> \o socket' /\ socket' \in Seq(Packet)
  BY <1>1, <1>2, HeadBeforeTail DEF Before, PlacesOK
<1>4. self \in Router /\ <<p>> \in Seq(Packet) /\ p.flow \in Flow
  <2>1. p.flow \in Flow
    BY <1>3 DEF Packet
  <2> QED
    BY <1>1, <1>3, <2>1, FlowsAreOfRouters
<1>5. Of(f, socket) = Of(f, <<p>>) \o Of(f, socket')
  BY <1>3, <1>4, OfConcat
<1>6. \A c \in Router : Gets(f, self, c, Of(f, <<p>>))
  <2> TAKE c \in Router
  <2>1. queue'[self][c] = QueueAt(self, c, queue[self][c], <<p>>)
    BY <1>2, <1>4 DEF Before, PlacesOK
  <2> QED
    BY <1>4, <2>1, QueueAtGets DEF Before
<1>7. \A a, c \in Router : a # self => Held(f, a, c)' = Held(f, a, c)
  <2>1. \A a \in Router : a # self => queue'[a] = queue[a]
    BY <1>2 DEF Before, PlacesOK
  <2> QED
    BY <2>1 DEF Held
<1>8. Of(f, socket') \in Seq(Packet)
  BY <1>3, OfAppend
<1>9. CASE p.flow # f
  <2>1. Of(f, <<p>>) = <<>>
    BY <1>3, <1>9, OfOne
  <2>2. Of(f, socket') = Of(f, socket)
    BY <1>5, <1>8, <2>1, ConcatEmptySeq
  <2>3. \A a, c \in Router : Held(f, a, c)' = Held(f, a, c)
    <3> TAKE a, c \in Router
    <3>1. CASE a = self
      BY <1>6, <2>1, <3>1, GetsNone DEF Before
    <3> QED
      BY <1>7, <3>1
  <2> QED
    BY <1>2, <2>2, <2>3, FlowStays
<1>10. CASE p.flow = f
  <2>1. Of(f, <<p>>) = <<p>>
    BY <1>3, <1>10, OfOne
  <2>2. PICK s : s = Stops(f)
    OBVIOUS
  <2>3. Stops(f)' = s
    BY <1>2, <2>2, SameStops
  <2>4. Route(f, s) /\ N \in Nat \ {0}
    BY <2>2, Numbers DEF Before
  <2>5. /\ s[0] = self /\ self # f[2]
        /\ routingTable[self][f[2]] = s[1]
        /\ s[1] \in Router
    <3>1. s[0] = f[1] /\ f[1] # f[2] /\ f[1] = self
      BY <1>1, <1>10, <2>4, FlowsAreOfRouters DEF Route, Before
    <3>2. 1 \in 1 .. N /\ 1 \in 0 .. N /\ 1 - 1 = 0
      BY <2>4
    <3>3. s[1] = routingTable[s[0]][f[2]]
      BY <2>4, <3>1, <3>2 DEF Route
    <3> QED
      BY <2>4, <3>1, <3>2, <3>3 DEF Route
  <2>6. PICK kept \in Seq(Packet) :
          /\ L!Left(<<p>>, kept)
          /\ Held(f, self, s[1])' = Held(f, self, s[1]) \o kept
    BY <1>6, <2>1, <2>5 DEF Gets, Grows
  <2>7. \A a, c \in Router : ~(a = self /\ c = s[1]) => Held(f, a, c)' = Held(f, a, c)
    <3> TAKE a, c \in Router
    <3>1. CASE a = self /\ c # s[1]
      <4>1. Gets(f, a, c, <<p>>) /\ routingTable[a][f[2]] # c
        BY <1>6, <2>1, <2>5, <3>1
      <4> QED
        BY <4>1, GetsNone DEF Before
    <3> QED
      BY <1>7, <3>1
  <2> DEFINE A == Stages(f)
             B == Stages(f)'
  <2>8. StagesAre(f, s) /\ StagesAre(f, s)'
    BY <2>2, <2>3, AllStages, AllStagesThen DEF AllStagesAre
  <2>9. PassedOn(A, B, 0, 1, <<p>>, Of(f, socket'), kept)
    <3>1. A[0] = <<p>> \o Of(f, socket') /\ B[0] = Of(f, socket')
      BY <1>5, <2>1, <2>8 DEF StagesAre
    <3>2. B[1] = A[1] \o kept
      <4>1. PICK k \in 1 .. N : k = 1 /\ k - 1 = 0
        BY <2>4
      <4>2. /\ A[k] = IF s[k - 1] = f[2] THEN <<>> ELSE Held(f, s[k - 1], s[k])
            /\ B[k] = IF s[k - 1] = f[2] THEN <<>> ELSE Held(f, s[k - 1], s[k])'
        BY <2>8 DEF StagesAre
      <4>3. A[1] = Held(f, self, s[1]) /\ B[1] = Held(f, self, s[1])'
        BY <2>5, <4>1, <4>2
      <4> QED
        BY <2>6, <4>3
    <3>3. ASSUME NEW k \in 0 .. N + 1, k # 0, k # 1
          PROVE  B[k] = A[k]
      <4>1. CASE k = N + 1
        BY <1>2, <2>8, <4>1 DEF StagesAre
      <4>2. CASE k # N + 1
        <5>1. k \in 1 .. N /\ k - 1 \in 0 .. N /\ 0 < k - 1 /\ 0 \in 0 .. N /\ k \in 0 .. N
          BY <2>4, <3>3, <4>2
        <5>2. s[k - 1] \in Router /\ s[k] \in Router
          BY <2>4, <5>1 DEF Route
        <5>3. s[k - 1] # self
          BY <2>4, <2>5, <5>1 DEF Route
        <5>4. Held(f, s[k - 1], s[k])' = Held(f, s[k - 1], s[k])
          BY <2>7, <5>2, <5>3
        <5> QED
          BY <2>8, <5>1, <5>4 DEF StagesAre
      <4> QED
        BY <4>1, <4>2
    <3>4. \A k \in 0 .. N + 1 : ~(0 < k /\ k < 1)
      BY <2>4
    <3> QED
      BY <2>6, <3>1, <3>2, <3>3, <3>4 DEF PassedOn
  <2>10. \A a, c \in Router : Held(f, a, c)' # <<>> => OnRoute(f, a, c)
    <3>1. OnRoute(f, self, s[1])
      <4>1. 0 \in 0 .. N
        BY <2>4
      <4> QED
        BY <2>2, <2>5, <4>1 DEF OnRoute
    <3> TAKE a, c \in Router
    <3>2. CASE ~(a = self /\ c = s[1])
      BY <2>7, <3>2 DEF Before, OnlyOnRoute
    <3> QED
      BY <3>1, <3>2
  <2>11. 0 \in 0 .. N + 1 /\ 1 \in 0 .. N + 1
    BY <2>4
  <2> HIDE DEF A, B
  <2> QED
    BY <1>2, <1>4, <1>8, <2>9, <2>10, <2>11, FlowPasses DEF A, B
<1> QED
  BY <1>9, <1>10

\* The packets of a flow that are due.
Due(f, a, b) == Of(f, Packets(Ready(queue[a][b])))

\* The packets that are due leave a queue, from its front.
LEMMA DueLeave ==
  ASSUME NEW f, NEW a \in Router, NEW b \in Router, PlacesOK
  PROVE  /\ Packets(Ready(queue[a][b])) \in Seq(Packet)
         /\ Due(f, a, b) \in Seq(Packet)
         /\ Of(f, Packets(Rest(queue[a][b]))) \in Seq(Packet)
         /\ Held(f, a, b) = Due(f, a, b) \o Of(f, Packets(Rest(queue[a][b])))
<1> DEFINE q == queue[a][b]
           s == Packets(Ready(q))
           t == Packets(Rest(q))
<1>1. q \in Seq(Entry)
  BY DEF PlacesOK
<1> HIDE DEF q
<1>2. Ready(q) \in Seq(Entry) /\ Rest(q) \in Seq(Entry)
  BY <1>1, ReadyIsFirst
<1>3. s \in Seq(Packet) /\ t \in Seq(Packet)
  BY <1>2, PacketsOfQueue
<1>4. Packets(q) = s \o t
  BY <1>1, ReadyBeforeRest
<1> HIDE DEF s, t
<1>5. Of(f, s \o t) = Of(f, s) \o Of(f, t) /\ Of(f, s) \in Seq(Packet) /\ Of(f, t) \in Seq(Packet)
  BY <1>3, OfConcat, OfAppend
<1> QED
  BY <1>3, <1>4, <1>5 DEF Held, Due, q, s, t

\* If a queue has none of a flow none is due, and none is left.
LEMMA NoneIsDue ==
  ASSUME NEW f, NEW a \in Router, NEW b \in Router, PlacesOK, Held(f, a, b) = <<>>
  PROVE  Due(f, a, b) = <<>> /\ Of(f, Packets(Rest(queue[a][b]))) = <<>>
<1> DEFINE s == Due(f, a, b)
           t == Of(f, Packets(Rest(queue[a][b])))
<1>1. s \in Seq(Packet) /\ t \in Seq(Packet) /\ s \o t = <<>>
  BY DueLeave
<1> HIDE DEF s, t
<1>2. Len(s) \in Nat /\ Len(t) \in Nat /\ Len(s \o t) = Len(s) + Len(t) /\ Len(<<>>) = 0
  BY <1>1, ConcatProperties, LenProperties
<1>3. Len(s) = 0 /\ Len(t) = 0
  BY <1>1, <1>2
<1>4. s = <<>> /\ t = <<>>
  BY <1>1, <1>3, EmptySeq
<1> QED
  BY <1>4 DEF s, t

\* What a run of router self does to the queues, seen by one flow.
LEMMA RunDoes ==
  ASSUME NEW f \in Flow, NEW self \in Router, PlacesOK, Run, self = Head(runRouters)
  PROVE  /\ routingTable' = routingTable /\ sent' = sent /\ socket' = socket
         /\ \A b \in Router : Held(f, self, b)' = Of(f, Packets(Rest(queue[self][b])))
         /\ \A a, b \in Router : a # self => Gets(f, a, b, Due(f, self, a))
         /\ arrived'[f] = arrived[f] \o Due(f, self, f[2])
<1>1. /\ routingTable' = routingTable /\ sent' = sent /\ socket' = socket
      /\ queue' = [a \in Router |->
                     IF a = self THEN [b \in Router |-> Rest(queue[self][b])]
                     ELSE [c \in Router |->
                             QueueAt(a, c, queue[a][c],
                               Packets([b \in Router |-> Ready(queue[self][b])][a]))]]
      /\ arrived' = [g \in Flow |->
                       arrived[g] \o Of(g, Packets([b \in Router |-> Ready(queue[self][b])][g[2]]))]
  BY DEF Run, table_vars
<1>2. \A b \in Router : Held(f, self, b)' = Of(f, Packets(Rest(queue[self][b])))
  <2> TAKE b \in Router
  <2>1. queue'[self][b] = Rest(queue[self][b])
    BY <1>1
  <2> QED
    BY <2>1 DEF Held
<1>3. ASSUME NEW a \in Router, NEW b \in Router, a # self
      PROVE  Gets(f, a, b, Due(f, self, a))
  <2>1. queue'[a][b] = QueueAt(a, b, queue[a][b], Packets(Ready(queue[self][a])))
    BY <1>1, <1>3
  <2>2. Packets(Ready(queue[self][a])) \in Seq(Packet)
    BY DueLeave
  <2>3. PICK packets \in Seq(Packet) : packets = Packets(Ready(queue[self][a]))
    BY <2>2
  <2>4. Gets(f, a, b, Of(f, packets))
    BY <2>1, <2>3, QueueAtGets
  <2> QED
    BY <2>3, <2>4 DEF Due
<1>4. arrived'[f] = arrived[f] \o Due(f, self, f[2])
  BY <1>1, FlowsAreOfRouters DEF Due
<1> QED
  BY <1>1, <1>2, <1>3, <1>4

\* A router that no packet of the flow waits at moves none.
LEMMA RunElsewhere ==
  ASSUME NEW f, Before(f), PlacesOK', NEW self \in Router, Run,
         self = Head(runRouters), \A b \in Router : Held(f, self, b) = <<>>
  PROVE  After(f)
<1>1. f \in Flow /\ PlacesOK /\ f[2] \in Router
  BY FlowsAreOfRouters DEF Before
<1>2. /\ routingTable' = routingTable /\ sent' = sent /\ socket' = socket
      /\ \A b \in Router : Held(f, self, b)' = Of(f, Packets(Rest(queue[self][b])))
      /\ \A a, b \in Router : a # self => Gets(f, a, b, Due(f, self, a))
      /\ arrived'[f] = arrived[f] \o Due(f, self, f[2])
  BY <1>1, RunDoes
<1>3. \A b \in Router : Due(f, self, b) = <<>> /\ Of(f, Packets(Rest(queue[self][b]))) = <<>>
  BY <1>1, NoneIsDue
<1>4. \A a, b \in Router : Held(f, a, b)' = Held(f, a, b)
  <2> TAKE a, b \in Router
  <2>1. CASE a = self
    BY <1>2, <1>3, <2>1
  <2>2. CASE a # self
    <3>1. Gets(f, a, b, <<>>)
      BY <1>2, <1>3, <2>2
    <3> QED
      BY <1>1, <3>1, GetsNone
  <2> QED
    BY <2>1, <2>2
<1>5. arrived'[f] = arrived[f]
  <2>1. arrived[f] \in Seq(Packet)
    BY <1>1 DEF PlacesOK
  <2> QED
    BY <1>1, <1>2, <1>3, <2>1, ConcatEmptySeq
<1>6. Of(f, socket') = Of(f, socket)
  BY <1>2
<1> QED
  BY <1>2, <1>4, <1>5, <1>6, FlowStays

\* A route stays at its destination.
LEMMA RouteStays ==
  ASSUME NEW f, NEW s, Route(f, s), NEW k \in 0 .. N, s[k] = f[2], NEW j \in k .. N
  PROVE  s[j] = f[2]
<1> DEFINE Good == {i \in Nat : k + i <= N => s[k + i] = f[2]}
<1>1. N \in Nat /\ k \in Nat
  BY Numbers
<1>2. 0 \in Good
  BY <1>1
<1>3. \A i \in Nat : i \in Good => i + 1 \in Good
  <2> SUFFICES ASSUME NEW i \in Nat, i \in Good, k + (i + 1) <= N
               PROVE  s[k + (i + 1)] = f[2]
    OBVIOUS
  <2>1. PICK n \in 1 .. N : n = k + (i + 1) /\ n - 1 = k + i
    BY <1>1
  <2>2. s[n - 1] = f[2]
    BY <1>1, <2>1
  <2>3. s[n] = f[2]
    BY <2>2 DEF Route
  <2> QED
    BY <2>1, <2>3
<1>4. Nat \subseteq Good
  <2> HIDE DEF Good
  <2> QED
    BY <1>2, <1>3, SetInduction
<1>5. j - k \in Nat /\ k + (j - k) = j /\ j <= N
  BY <1>1
<1> QED
  BY <1>4, <1>5

\* Where a flow goes from router self, its n-th stop.
Onward(f, s, n, self, to) ==
  /\ s = Stops(f)
  /\ n \in 0 .. N
  /\ s[n] = self
  /\ self # f[2]
  /\ n + 1 \in 1 .. N
  /\ s[n + 1] = to
  /\ to \in Router
  /\ to # self
  /\ routingTable[self][f[2]] = to

\* A router on the route that is not its end has a next one.
LEMMA GoesOnward ==
  ASSUME NEW f, Before(f), NEW s, s = Stops(f), NEW n \in 0 .. N, s[n] # f[2]
  PROVE  Onward(f, s, n, s[n], s[n + 1])
<1>1. N \in Nat \ {0} /\ Route(f, s)
  BY Numbers DEF Before
<1>2. n # N
  BY <1>1 DEF Route
<1>3. n + 1 \in 1 .. N /\ n + 1 \in 0 .. N /\ n < n + 1
  BY <1>1, <1>2
<1>4. s[n + 1] \in Router /\ s[n] # s[n + 1]
  BY <1>1, <1>3 DEF Route
<1>5. routingTable[s[n]][f[2]] = s[n + 1]
  <2>1. PICK k \in 1 .. N : k = n + 1 /\ k - 1 = n
    BY <1>3
  <2>2. s[k] = routingTable[s[k - 1]][f[2]]
    BY <1>1, <2>1 DEF Route
  <2> QED
    BY <2>1, <2>2
<1> QED
  BY <1>3, <1>4, <1>5 DEF Onward

\* The last router before the destination hands over the packets.
LEMMA RunHandsOver ==
  ASSUME NEW f, Before(f), PlacesOK', NEW self \in Router, Run,
         self = Head(runRouters),
         NEW s, NEW n, NEW to, Onward(f, s, n, self, to), to = f[2]
  PROVE  After(f)
<1>1. f \in Flow /\ PlacesOK /\ f[2] \in Router
  BY FlowsAreOfRouters DEF Before
<1>2. /\ routingTable' = routingTable /\ sent' = sent /\ socket' = socket
      /\ \A b \in Router : Held(f, self, b)' = Of(f, Packets(Rest(queue[self][b])))
      /\ \A a, b \in Router : a # self => Gets(f, a, b, Due(f, self, a))
      /\ arrived'[f] = arrived[f] \o Due(f, self, f[2])
  BY <1>1, RunDoes
<1>3. /\ s = Stops(f) /\ n \in 0 .. N /\ s[n] = self /\ self # to
      /\ n + 1 \in 1 .. N /\ s[n + 1] = to /\ to \in Router
      /\ routingTable[self][f[2]] = to /\ N \in Nat /\ n \in Nat
      /\ Route(f, s)
  BY Numbers DEF Onward, Before
<1>4. ASSUME NEW b \in Router, b # to
      PROVE  /\ Due(f, self, b) = <<>>
             /\ Held(f, self, b) = <<>> /\ Held(f, self, b)' = <<>>
  <2>1. Held(f, self, b) = <<>>
    BY <1>3, <1>4 DEF Before, OnlyOnRoute, OnRoute
  <2> QED
    BY <1>1, <1>2, <2>1, NoneIsDue
<1>5. ASSUME NEW a \in Router, NEW b \in Router, a # self
      PROVE  Held(f, a, b)' = Held(f, a, b)
  <2>1. Gets(f, a, b, Due(f, self, a))
    BY <1>2, <1>5
  <2>2. Due(f, self, a) = <<>> \/ a = f[2]
    BY <1>4
  <2>3. PICK head : head = Due(f, self, a)
    OBVIOUS
  <2> QED
    BY <1>1, <2>1, <2>2, <2>3, GetsNone
<1> DEFINE head == Due(f, self, to)
           rest == Of(f, Packets(Rest(queue[self][to])))
<1>6. /\ head \in Seq(Packet) /\ rest \in Seq(Packet)
      /\ Held(f, self, to) = head \o rest
      /\ Held(f, self, to)' = rest
  BY <1>1, <1>2, <1>3, DueLeave
<1> HIDE DEF head, rest
<1>7. StagesAre(f, s) /\ StagesAre(f, s)'
  <2>1. Stops(f)' = s
    BY <1>2, <1>3, SameStops
  <2> QED
    BY <1>3, <2>1, AllStages, AllStagesThen DEF AllStagesAre
<1> DEFINE A == Stages(f)
           B == Stages(f)'
<1>8. PICK k \in 1 .. N : k = n + 1 /\ k - 1 = n
  BY <1>3
<1>9. A[k] = head \o rest /\ B[k] = rest
  <2>1. /\ A[k] = IF s[k - 1] = f[2] THEN <<>> ELSE Held(f, s[k - 1], s[k])
        /\ B[k] = IF s[k - 1] = f[2] THEN <<>> ELSE Held(f, s[k - 1], s[k])'
    BY <1>7 DEF StagesAre
  <2>2. s[k - 1] = self /\ s[k] = to /\ s[k - 1] # f[2]
    BY <1>3, <1>8
  <2> QED
    BY <1>6, <2>1, <2>2
<1>10. ASSUME NEW j \in 0 .. N + 1, j # k, j # N + 1
      PROVE  /\ B[j] = A[j]
             /\ k < j => A[j] = <<>>
  <2>1. CASE j = 0
    BY <1>2, <1>7, <2>1 DEF StagesAre
  <2>2. CASE j # 0
    <3>1. j \in 1 .. N /\ j - 1 \in 0 .. N /\ j \in 0 .. N /\ k \in 0 .. N
      BY <1>3, <1>10, <2>2
    <3>2. s[j - 1] \in Router /\ s[j] \in Router
      BY <1>3, <3>1 DEF Route
    <3>3. k < j => s[j - 1] = f[2]
      <4>1. k < j => j - 1 \in k .. N
        BY <1>3, <3>1
      <4>2. s[k] = f[2]
        BY <1>3, <1>8
      <4> QED
        BY <1>3, <3>1, <4>1, <4>2, RouteStays
    <3>4. s[j - 1] # self \/ s[j - 1] = f[2]
      <4>1. j - 1 < n \/ n < j - 1
        BY <1>3, <1>8, <1>10, <3>1
      <4> QED
        BY <1>3, <3>1, <4>1 DEF Route
    <3>5. CASE s[j - 1] = f[2]
      BY <1>7, <3>1, <3>5 DEF StagesAre
    <3>6. CASE s[j - 1] # f[2]
      <4>1. Held(f, s[j - 1], s[j])' = Held(f, s[j - 1], s[j])
        BY <1>5, <3>2, <3>4, <3>6
      <4> QED
        BY <1>7, <3>1, <3>3, <3>6, <4>1 DEF StagesAre
    <3> QED
      BY <3>5, <3>6
  <2> QED
    BY <2>1, <2>2
<1>11. PassedOn(A, B, k, N + 1, head, rest, head)
  <2>1. B[N + 1] = A[N + 1] \o head
    BY <1>2, <1>7 DEF StagesAre, head
  <2>2. L!Left(head, head)
    BY <1>6, LeftOfNone
  <2>3. k < N + 1
    BY <1>3
  <2>4. \A j \in 0 .. N + 1 : k < j /\ j < N + 1 => j # k /\ j # N + 1
    BY <1>3
  <2> HIDE DEF A, B
  <2> QED
    BY <1>9, <1>10, <2>1, <2>2, <2>3, <2>4 DEF PassedOn
<1>12. ASSUME NEW a \in Router, NEW b \in Router, Held(f, a, b)' # <<>>
       PROVE  OnRoute(f, a, b)
  <2>1. CASE a = self
    <3>1. b = to
      BY <1>4, <1>12, <2>1
    <3> QED
      BY <1>3, <2>1, <3>1 DEF OnRoute
  <2>2. CASE a # self
    BY <1>5, <1>12, <2>2 DEF Before, OnlyOnRoute
  <2> QED
    BY <2>1, <2>2
<1>13. k \in 0 .. N + 1 /\ N + 1 \in 0 .. N + 1
  BY <1>3
<1> HIDE DEF A, B
<1> QED
  BY <1>2, <1>6, <1>11, <1>12, <1>13, FlowPasses DEF A, B

\* The other routers pass them to the next queue of the route.
LEMMA RunPassesOn ==
  ASSUME NEW f, Before(f), PlacesOK', NEW self \in Router, Run,
         self = Head(runRouters),
         NEW s, NEW n, NEW to, Onward(f, s, n, self, to), to # f[2]
  PROVE  After(f)
<1>1. f \in Flow /\ PlacesOK /\ f[2] \in Router
  BY FlowsAreOfRouters DEF Before
<1>2. /\ routingTable' = routingTable /\ sent' = sent /\ socket' = socket
      /\ \A b \in Router : Held(f, self, b)' = Of(f, Packets(Rest(queue[self][b])))
      /\ \A a, b \in Router : a # self => Gets(f, a, b, Due(f, self, a))
      /\ arrived'[f] = arrived[f] \o Due(f, self, f[2])
  BY <1>1, RunDoes
<1>3. /\ s = Stops(f) /\ n \in 0 .. N /\ s[n] = self /\ self # to /\ self # f[2]
      /\ n + 1 \in 1 .. N /\ s[n + 1] = to /\ to \in Router
      /\ routingTable[self][f[2]] = to /\ N \in Nat /\ n \in Nat
      /\ Route(f, s)
  BY Numbers DEF Onward, Before
<1>4. ASSUME NEW b \in Router, b # to
      PROVE  /\ Due(f, self, b) = <<>>
             /\ Held(f, self, b) = <<>> /\ Held(f, self, b)' = <<>>
  <2>1. Held(f, self, b) = <<>>
    BY <1>3, <1>4 DEF Before, OnlyOnRoute, OnRoute
  <2> QED
    BY <1>1, <1>2, <2>1, NoneIsDue
<1>5. PICK k \in 1 .. N : k = n + 1 /\ k - 1 = n
  BY <1>3
<1>6. PICK next : next = s[k + 1]
  OBVIOUS
<1>7. Onward(f, s, k, to, next)
  <2>1. k \in 0 .. N /\ s[k] = to
    BY <1>3, <1>5
  <2> QED
    BY <1>3, <1>6, <2>1, GoesOnward
<1>8. /\ next \in Router /\ k + 1 \in 1 .. N /\ routingTable[to][f[2]] = next
      /\ s[k] = to /\ s[k + 1] = next
  BY <1>7 DEF Onward
<1>9. PICK m \in 1 .. N : m = k + 1 /\ m - 1 = k
  BY <1>8
<1>10. PICK kept \in Seq(Packet) :
        /\ L!Left(Due(f, self, to), kept)
        /\ Held(f, to, next)' = Held(f, to, next) \o kept
  BY <1>2, <1>3, <1>8 DEF Gets, Grows
<1>11. ASSUME NEW a \in Router, NEW b \in Router, a # self, ~(a = to /\ b = next)
       PROVE  Held(f, a, b)' = Held(f, a, b)
  <2>1. PICK due : due = Due(f, self, a)
    OBVIOUS
  <2>2. Gets(f, a, b, due)
    BY <1>2, <1>11, <2>1
  <2>3. due = <<>> \/ routingTable[a][f[2]] # b
    BY <1>4, <1>8, <1>11, <2>1
  <2> QED
    BY <1>1, <2>2, <2>3, GetsNone
<1> DEFINE head == Due(f, self, to)
           rest == Of(f, Packets(Rest(queue[self][to])))
<1>12. /\ head \in Seq(Packet) /\ rest \in Seq(Packet)
       /\ Held(f, self, to) = head \o rest
       /\ Held(f, self, to)' = rest
       /\ L!Left(head, kept)
  BY <1>1, <1>2, <1>3, <1>10, DueLeave
<1> HIDE DEF head, rest
<1>13. StagesAre(f, s) /\ StagesAre(f, s)'
  <2>1. Stops(f)' = s
    BY <1>2, <1>3, SameStops
  <2> QED
    BY <1>3, <2>1, AllStages, AllStagesThen DEF AllStagesAre
<1> DEFINE A == Stages(f)
           B == Stages(f)'
<1>14. A[k] = head \o rest /\ B[k] = rest
  <2>1. /\ A[k] = IF s[k - 1] = f[2] THEN <<>> ELSE Held(f, s[k - 1], s[k])
        /\ B[k] = IF s[k - 1] = f[2] THEN <<>> ELSE Held(f, s[k - 1], s[k])'
    BY <1>13 DEF StagesAre
  <2>2. s[k - 1] = self /\ s[k] = to /\ s[k - 1] # f[2]
    BY <1>3, <1>5
  <2> QED
    BY <1>12, <2>1, <2>2
<1>15. B[m] = A[m] \o kept
  <2>1. /\ A[m] = IF s[m - 1] = f[2] THEN <<>> ELSE Held(f, s[m - 1], s[m])
        /\ B[m] = IF s[m - 1] = f[2] THEN <<>> ELSE Held(f, s[m - 1], s[m])'
    BY <1>13 DEF StagesAre
  <2>2. s[m - 1] = to /\ s[m] = next /\ s[m - 1] # f[2]
    BY <1>8, <1>9
  <2> QED
    BY <1>10, <2>1, <2>2
<1>16. ASSUME NEW j \in 0 .. N + 1, j # k, j # m
       PROVE  B[j] = A[j]
  <2>1. CASE j = 0
    BY <1>2, <1>13, <2>1 DEF StagesAre
  <2>2. CASE j = N + 1
    <3>1. Due(f, self, f[2]) = <<>>
      BY <1>1, <1>4
    <3>2. arrived[f] \in Seq(Packet)
      BY <1>1 DEF PlacesOK
    <3>3. arrived'[f] = arrived[f]
      BY <1>2, <3>1, <3>2, ConcatEmptySeq
    <3> QED
      BY <1>13, <2>2, <3>3 DEF StagesAre
  <2>3. CASE j # 0 /\ j # N + 1
    <3>1. j \in 1 .. N /\ j - 1 \in 0 .. N /\ j \in 0 .. N /\ k \in 0 .. N
      BY <1>3, <2>3
    <3>2. s[j - 1] \in Router /\ s[j] \in Router
      BY <1>3, <3>1 DEF Route
    <3>3. s[j - 1] = f[2] \/ (s[j - 1] # self /\ s[j - 1] # to)
      <4>1. j - 1 < n \/ n < j - 1
        BY <1>3, <1>5, <1>16, <3>1
      <4>2. j - 1 < k \/ k < j - 1
        BY <1>3, <1>9, <1>16, <3>1
      <4> QED
        BY <1>3, <1>8, <3>1, <4>1, <4>2 DEF Route
    <3>4. CASE s[j - 1] = f[2]
      BY <1>13, <3>1, <3>4 DEF StagesAre
    <3>5. CASE s[j - 1] # f[2]
      <4>1. Held(f, s[j - 1], s[j])' = Held(f, s[j - 1], s[j])
        BY <1>11, <3>2, <3>3, <3>5
      <4> QED
        BY <1>13, <3>1, <3>5, <4>1 DEF StagesAre
    <3> QED
      BY <3>4, <3>5
  <2> QED
    BY <2>1, <2>2, <2>3
<1>17. PassedOn(A, B, k, m, head, rest, kept)
  <2>1. k < m /\ \A j \in 0 .. N + 1 : ~(k < j /\ j < m)
    BY <1>9
  <2> HIDE DEF A, B
  <2> QED
    BY <1>12, <1>14, <1>15, <1>16, <2>1 DEF PassedOn
<1>18. ASSUME NEW a \in Router, NEW b \in Router, Held(f, a, b)' # <<>>
       PROVE  OnRoute(f, a, b)
  <2>1. CASE a = self
    <3>1. b = to
      BY <1>4, <1>18, <2>1
    <3> QED
      BY <1>3, <2>1, <3>1 DEF OnRoute
  <2>2. CASE a = to /\ b = next
    <3>1. k \in 0 .. N
      BY <1>3
    <3> QED
      BY <1>3, <1>8, <2>2, <3>1 DEF OnRoute
  <2>3. CASE a # self /\ ~(a = to /\ b = next)
    BY <1>11, <1>18, <2>3 DEF Before, OnlyOnRoute
  <2> QED
    BY <2>1, <2>2, <2>3
<1>19. k \in 0 .. N + 1 /\ m \in 0 .. N + 1
  BY <1>3
<1> HIDE DEF A, B
<1> QED
  BY <1>2, <1>12, <1>17, <1>18, <1>19, FlowPasses DEF A, B

\* A router that runs moves the packets of a flow in their order.
LEMMA RunMoves ==
  ASSUME NEW f, Before(f), PlacesOK', NEW self \in Router, Run,
         self = Head(runRouters)
  PROVE  After(f)
<1>1. CASE \A b \in Router : Held(f, self, b) = <<>>
  BY <1>1, RunElsewhere
<1>2. CASE \E b \in Router : Held(f, self, b) # <<>>
  <2>1. PICK b \in Router : OnRoute(f, self, b)
    BY <1>2 DEF Before, OnlyOnRoute
  <2>2. PICK s : s = Stops(f)
    OBVIOUS
  <2>3. PICK n \in 0 .. N : s[n] = self
    BY <2>1, <2>2 DEF OnRoute
  <2>4. PICK to : to = s[n + 1]
    OBVIOUS
  <2>5. Onward(f, s, n, self, to)
    BY <2>1, <2>2, <2>3, <2>4, GoesOnward DEF OnRoute
  <2>6. CASE to = f[2]
    BY <2>5, <2>6, RunHandsOver
  <2>7. CASE to # f[2]
    BY <2>5, <2>7, RunPassesOn
  <2> QED
    BY <2>6, <2>7
<1> QED
  BY <1>1, <1>2

\* A step that moves no packet.
LEMMA QuietMoves ==
  ASSUME NEW f, Before(f), routingTable' = routingTable, sent' = sent,
         socket' = socket, arrived' = arrived,
         \A a, b \in Router : Packets(queue'[a][b]) = Packets(queue[a][b])
  PROVE  After(f)
<1>1. \A a, b \in Router : Held(f, a, b)' = Held(f, a, b)
  <2> TAKE a, b \in Router
  <2>1. Packets(queue'[a][b]) = Packets(queue[a][b])
    OBVIOUS
  <2> QED
    BY <2>1 DEF Held
<1> QED
  BY <1>1, FlowStays

\* A tick changes no packet.
LEMMA TickMoves ==
  ASSUME NEW f, Before(f), Tick
  PROVE  After(f)
<1>1. /\ routingTable' = routingTable /\ sent' = sent
      /\ socket' = socket /\ arrived' = arrived
      /\ queue' = [a \in Router |-> [b \in Router |->
                     [k \in DOMAIN queue[a][b] |->
                        [queue[a][b][k] EXCEPT !.txTime = Sooner(@)]]]]
  BY DEF Tick, table_vars
<1>2. ASSUME NEW a \in Router, NEW b \in Router
      PROVE  Packets(queue'[a][b]) = Packets(queue[a][b])
  <2>1. PICK q : q = queue[a][b]
    OBVIOUS
  <2>2. q \in Seq(Entry)
    BY <2>1 DEF Before, PlacesOK
  <2>3. queue'[a][b] = [k \in DOMAIN q |-> [q[k] EXCEPT !.txTime = Sooner(@)]]
    BY <1>1, <2>1
  <2>4. \A k \in DOMAIN q : [q[k] EXCEPT !.txTime = Sooner(@)].packet = q[k].packet
    <3> TAKE k \in DOMAIN q
    <3>1. q[k] \in Entry
      BY <2>2, LenProperties, ElementOfSeq
    <3> QED
      BY <3>1 DEF Entry
  <2> DEFINE r == [k \in DOMAIN q |-> [q[k] EXCEPT !.txTime = Sooner(@)]]
  <2>5. DOMAIN r = DOMAIN q /\ \A k \in DOMAIN q : r[k].packet = q[k].packet
    BY <2>4
  <2> HIDE DEF r
  <2>6. Packets(r) = Packets(q)
    BY <2>5 DEF Packets
  <2> QED
    BY <2>1, <2>3, <2>6 DEF r
<1> QED
  BY <1>1, <1>2, QuietMoves

\* A packet that is sent is behind all others.
LEMMA SentIsLast ==
  ASSUME NEW A \in Staged, NEW B \in Staged, NEW k \in Nat, NEW x \in Packet,
         Ordered(A), UpToNumber(A, k), x.number = k + 1,
         B[0] = Append(A[0], x), \A n \in 1 .. N + 1 : B[n] = A[n]
  PROVE  Ordered(B) /\ UpToNumber(B, k + 1)
<1>1. N \in Nat /\ 0 \in 0 .. N + 1 /\ A[0] \in Seq(Packet)
  BY Numbers DEF Staged
<1>2. /\ Len(A[0]) \in Nat /\ Len(B[0]) = Len(A[0]) + 1
      /\ \A i \in 1 .. Len(A[0]) : B[0][i] = A[0][i]
      /\ B[0][Len(A[0]) + 1] = x
  BY <1>1, AppendProperties, LenProperties
<1> DEFINE Newest(m, i) == m = 0 /\ i = Len(A[0]) + 1
<1>3. ASSUME NEW m \in 0 .. N + 1, NEW i \in 1 .. Len(B[m])
      PROVE  /\ Newest(m, i) => B[m][i] = x
             /\ ~Newest(m, i) => i \in 1 .. Len(A[m]) /\ B[m][i] = A[m][i]
  <2>1. CASE m = 0
    <3>1. i \in 1 .. Len(A[0]) + 1
      BY <1>2, <1>3, <2>1
    <3> QED
      BY <1>2, <2>1, <3>1
  <2>2. CASE m # 0
    <3>1. m \in 1 .. N + 1
      BY <1>1, <2>2
    <3>2. B[m] = A[m]
      BY <3>1
    <3> QED
      BY <2>2, <3>2
  <2> QED
    BY <2>1, <2>2
<1>4. ASSUME NEW m \in 0 .. N + 1, NEW i \in 1 .. Len(A[m])
      PROVE  A[m][i].number \in Nat /\ A[m][i].number <= k
  <2>1. A[m] \in Seq(Packet)
    BY DEF Staged
  <2>2. A[m][i] \in Packet
    BY <2>1, ElementOfSeq
  <2>3. A[m][i].number \in Nat
    BY <2>2, NumberIsNat
  <2> QED
    BY <2>3 DEF UpToNumber
<1> HIDE DEF Newest
<1>5. UpToNumber(B, k + 1)
  <2> SUFFICES ASSUME NEW m \in 0 .. N + 1, NEW i \in 1 .. Len(B[m])
               PROVE  B[m][i].number <= k + 1
    BY DEF UpToNumber
  <2>1. CASE Newest(m, i)
    BY <1>3, <2>1
  <2>2. CASE ~Newest(m, i)
    <3>1. i \in 1 .. Len(A[m]) /\ B[m][i] = A[m][i]
      BY <1>3, <2>2
    <3>2. PICK c \in Nat : c = A[m][i].number /\ c <= k
      BY <1>4, <3>1
    <3> QED
      BY <3>1, <3>2
  <2> QED
    BY <2>1, <2>2
<1>6. Ordered(B)
  <2> SUFFICES ASSUME NEW m \in 0 .. N + 1, NEW n \in 0 .. N + 1,
                      NEW i \in 1 .. Len(B[m]), NEW j \in 1 .. Len(B[n]),
                      Ahead(m, i, n, j)
               PROVE  B[m][i].number < B[n][j].number
    BY DEF Ordered
  <2>1. ~Newest(m, i)
    <3> SUFFICES ASSUME Newest(m, i) PROVE FALSE
      OBVIOUS
    <3>1. m = 0 /\ i = Len(A[0]) + 1
      BY DEF Newest
    <3>2. n = 0 /\ i < j
      BY <1>1, <3>1 DEF Ahead
    <3>3. j <= Len(A[0]) + 1 /\ j \in Nat
      BY <1>2, <3>2
    <3> QED
      BY <1>2, <3>1, <3>2, <3>3
  <2>2. i \in 1 .. Len(A[m]) /\ B[m][i] = A[m][i]
    BY <1>3, <2>1
  <2>3. PICK c \in Nat : c = A[m][i].number /\ c <= k
    BY <1>4, <2>2
  <2>4. CASE Newest(n, j)
    <3>1. B[n][j] = x
      BY <1>3, <2>4
    <3> QED
      BY <2>2, <2>3, <3>1
  <2>5. CASE ~Newest(n, j)
    <3>1. j \in 1 .. Len(A[n]) /\ B[n][j] = A[n][j]
      BY <1>3, <2>5
    <3>2. A[m][i].number < A[n][j].number
      BY <2>2, <3>1 DEF Ordered
    <3> QED
      BY <2>2, <3>1, <3>2
  <2> QED
    BY <2>4, <2>5
<1> QED
  BY <1>5, <1>6

\* A flow whose packet is sent, and the others.
LEMMA SendMoves ==
  ASSUME NEW g \in Flow, NEW size \in Size, Send(g, size),
         NEW f, Before(f), PlacesOK'
  PROVE  /\ Ordered(Stages(f)')
         /\ UpToNumber(Stages(f)', sent')
         /\ OnlyOnRoute(f)'
         /\ f # g => Way(f)' = Way(f)
         /\ f = g => \E x \in Packet : x = [flow |-> g, number |-> sent + 1, size |-> size]
                                       /\ Way(f)' = Append(Way(f), x)
<1>1. PICK x : x = [flow |-> g, number |-> sent + 1, size |-> size]
  OBVIOUS
<1>2. /\ socket' = Append(socket, x) /\ sent' = sent + 1 /\ sent < MaxPackets
      /\ routingTable' = routingTable /\ queue' = queue /\ arrived' = arrived
  BY <1>1 DEF Send, table_vars
<1>3. sent \in Nat /\ socket \in Seq(Packet) /\ f \in Flow
  BY DEF Before, PlacesOK
<1>4. x \in Packet
  BY <1>1, <1>2, <1>3, Numbers DEF Packet
<1>5. x.flow = g /\ x.number = sent + 1
  BY <1>1
<1>6. Of(f, socket') = IF g = f THEN Append(Of(f, socket), x) ELSE Of(f, socket)
  BY <1>2, <1>3, <1>4, <1>5, OfAppend
<1>7. \A a, b \in Router : Held(f, a, b)' = Held(f, a, b)
  BY <1>2 DEF Held
<1>8. PICK s : s = Stops(f)
  OBVIOUS
<1>9. Stops(f)' = s
  BY <1>2, <1>8, SameStops
<1>10. StagesAre(f, s) /\ StagesAre(f, s)'
  BY <1>8, <1>9, AllStages, AllStagesThen DEF AllStagesAre
<1>11. Route(f, s) /\ Route(f, Stops(f))' /\ N \in Nat
  BY <1>2, <1>8, <1>9, Numbers DEF Before, Route
<1> DEFINE A == Stages(f)
           B == Stages(f)'
<1>12. /\ A \in Staged /\ B \in Staged
       /\ Walked(A, Way(f)) /\ Walked(B, Way(f)')
  BY <1>8, <1>11, WaysAreOK, WaysAreOKThen DEF WayOK, Before
<1>13. \A n \in 1 .. N + 1 : B[n] = A[n]
  <2> TAKE n \in 1 .. N + 1
  <2>1. CASE n = N + 1
    BY <1>2, <1>10, <2>1 DEF StagesAre
  <2>2. CASE n # N + 1
    <3>1. n \in 1 .. N /\ n - 1 \in 0 .. N /\ n \in 0 .. N
      BY <1>11, <2>2
    <3>2. s[n - 1] \in Router /\ s[n] \in Router
      BY <1>11, <3>1 DEF Route
    <3>3. Held(f, s[n - 1], s[n])' = Held(f, s[n - 1], s[n])
      BY <1>7, <3>2
    <3> QED
      BY <1>10, <3>1, <3>3 DEF StagesAre
  <2> QED
    BY <2>1, <2>2
<1>14. A[0] = Of(f, socket) /\ B[0] = Of(f, socket')
  BY <1>10 DEF StagesAre
<1>15. Ordered(A) /\ UpToNumber(A, sent)
  BY DEF Before
<1>16. OnlyOnRoute(f)'
  BY <1>2, <1>7, <1>8, <1>9 DEF Before, OnlyOnRoute, OnRoute
<1> HIDE DEF A, B
<1>17. \A n \in 1 .. N : B[n] = A[n]
  BY <1>11, <1>13
<1>18. CASE f # g
  <2>1. B[0] = A[0]
    BY <1>6, <1>14, <1>18
  <2>2. Way(f)' = Way(f)
    BY <1>12, <1>17, <2>1, WalkedAppend
  <2>3. \A n \in 0 .. N + 1 : B[n] = A[n]
    BY <1>11, <1>13, <2>1
  <2>4. Ordered(B)
    BY <1>15, <2>3, Zenon DEF Ordered
  <2>5. UpToNumber(B, sent + 1)
    <3> SUFFICES ASSUME NEW m \in 0 .. N + 1, NEW i \in 1 .. Len(A[m])
                 PROVE  A[m][i].number <= sent + 1
      BY <2>3 DEF UpToNumber
    <3>1. A[m] \in Seq(Packet)
      BY <1>12 DEF Staged
    <3>2. A[m][i] \in Packet
      BY <3>1, ElementOfSeq
    <3>3. PICK c \in Nat : c = A[m][i].number
      BY <3>2, NumberIsNat
    <3>4. c <= sent
      BY <1>15, <3>3 DEF UpToNumber
    <3> QED
      BY <1>3, <3>3, <3>4
  <2> QED
    BY <1>2, <1>16, <1>18, <2>2, <2>4, <2>5 DEF B
<1>19. CASE f = g
  <2>1. B[0] = Append(A[0], x)
    BY <1>6, <1>14, <1>19
  <2>2. Way(f)' = Append(Way(f), x)
    <3>1. PICK v, w : v = Way(f) /\ w = Way(f)'
      OBVIOUS
    <3>2. Walked(A, v) /\ Walked(B, w)
      BY <1>12, <3>1
    <3>3. \A y \in Packet : B[0] = Append(A[0], y) => w = Append(v, y)
      BY <1>12, <1>17, <3>2, WalkedAppend
    <3>4. w = Append(v, x)
      BY <1>4, <2>1, <3>3
    <3> QED
      BY <3>1, <3>4
  <2>3. Ordered(B) /\ UpToNumber(B, sent + 1)
    BY <1>3, <1>4, <1>5, <1>12, <1>13, <1>15, <2>1, SentIsLast
  <2> QED
    BY <1>1, <1>2, <1>4, <1>16, <1>19, <2>2, <2>3 DEF B
<1> QED
  BY <1>18, <1>19

-----------------------------------------------------------------------------
(* The simulator implements links.                                         *)

\* Links' idea of the packets on their way.
LinksWay == [f \in Flow |-> IF pc = "tables" THEN <<>> ELSE Way(f)]

\* At the start nothing is on its way.
LEMMA InitOrder == Init => OrderInv /\ L!Init
<1> SUFFICES ASSUME Init PROVE OrderInv /\ L!Init
  OBVIOUS
<1>1. TableInv
  BY InitTable
<1>2. LoopTypeOK
  BY InitLoop DEF LoopInv
<1>3. /\ pc = "tables" /\ socket = <<>> /\ arrived = [f \in Flow |-> <<>>]
      /\ queue = [a \in Router |-> [b \in Router |-> <<>>]]
  BY DEF Init
<1>4. PlacesOK
  <2>1. <<>> \in Seq(Packet)
    OBVIOUS
  <2> QED
    BY <1>2, <1>3, <2>1 DEF LoopTypeOK, PlacesOK
<1>5. NothingSent
  BY <1>3 DEF NothingSent
<1>6. OrderInv
  BY <1>1, <1>2, <1>3, <1>4, <1>5 DEF OrderInv, LoopTypeOK
<1>7. L!Init
  BY <1>3 DEF L!Init
<1> QED
  BY <1>6, <1>7

\* While nothing is sent nothing is on its way.
LEMMA NoWay ==
  ASSUME NEW A \in Staged, NEW w, Walked(A, w), \A n \in 0 .. N + 1 : A[n] = <<>>
  PROVE  /\ w = <<>>
         /\ Ordered(A)
         /\ \A k : UpToNumber(A, k)
<1>1. \A n \in 0 .. N + 1 : Len(A[n]) = 0
  OBVIOUS
<1>2. Ordered(A) /\ \A k : UpToNumber(A, k)
  BY <1>1 DEF Ordered, UpToNumber
<1>3. Lines(A, N, w)
  BY <1>2, WalkedLines
<1>4. w \in Seq(Packet) /\ Len(w) \in Nat
  BY <1>3, LenProperties DEF Lines
<1>5. Len(w) = 0
  <2> SUFFICES ASSUME Len(w) # 0 PROVE FALSE
    OBVIOUS
  <2>1. 1 \in 1 .. Len(w)
    BY <1>4
  <2>2. PICK m \in 0 .. N : \E j \in 1 .. Len(A[m]) : w[1] = A[m][j]
    BY <1>3, <2>1 DEF Lines
  <2>3. m \in 0 .. N + 1
    BY Numbers
  <2> QED
    BY <1>1, <2>2, <2>3
<1> QED
  BY <1>2, <1>4, <1>5, EmptySeq

\* Nothing is sent while the tables are made.
LEMMA TablesKeepOrder ==
  ASSUME OrderInv, LoopInv', TableInv', Visit \/ FillTable
  PROVE  OrderInv' /\ UNCHANGED L!vars
<1>1. /\ pc = "tables" /\ socket' = socket /\ queue' = queue
      /\ arrived' = arrived /\ sent' = sent
  BY DEF Visit, FillTable, loop_vars
<1>2. PlacesOK /\ NothingSent /\ sent \in 0 .. MaxPackets
  BY <1>1 DEF OrderInv
<1>3. PlacesOK' /\ NothingSent' /\ sent' \in 0 .. MaxPackets
  BY <1>1, <1>2 DEF PlacesOK, NothingSent
<1>4. CASE pc' = "tables"
  <2>1. OrderInv'
    BY <1>3, <1>4 DEF OrderInv
  <2>2. LinksWay' = LinksWay
    BY <1>1, <1>4 DEF LinksWay
  <2> QED
    BY <1>1, <2>1, <2>2 DEF L!vars, LinksWay
<1>5. CASE pc' # "tables"
  <2>1. /\ routingTable' = Append(routingTable, [v \in Router \ {Self} |-> StartRoute(v)])
        /\ Self = N /\ pc' = "select"
    BY <1>1, <1>5 DEF FillTable, Visit
  <2>2. TablesComplete'
    <3>1. routingTable' \in Seq(Table) /\ routingTable \in Seq(Table)
      BY <1>1 DEF OrderInv, TableInv
    <3>2. Len(routingTable') = N
      BY <2>1, <3>1 DEF Self
    <3> QED
      BY <3>1, <3>2, LenProperties DEF TablesComplete, Router
  <2>3. ASSUME NEW f \in Flow
        PROVE  FlowOK(f)' /\ Way(f)' = <<>>
    <3>1. Route(f, Stops(f))'
      BY <2>2, RoutesThen DEF RoutesOK
    <3>2. Stages(f)' \in Staged /\ Walked(Stages(f)', Way(f)')
      BY <1>3, <3>1, WaysAreOKThen DEF WayOK
    <3>3. PICK s : s = Stops(f)'
      OBVIOUS
    <3>4. StagesAre(f, s)'
      BY <3>3, AllStagesThen DEF AllStagesAre
    <3>5. s \in [0 .. N -> Router] /\ N \in Nat
      BY <3>1, <3>3, Numbers DEF Route
    <3>6. Packets(<<>>) = <<>>
      BY DEF Packets
    <3>7. Of(f, <<>>) = <<>>
      <4>1. <<>> \in Seq(Packet)
        OBVIOUS
      <4> QED
        BY <4>1, OfAppend
    <3>8. \A a, b \in Router : Held(f, a, b)' = <<>>
      <4> TAKE a, b \in Router
      <4>1. queue'[a][b] = <<>>
        BY <1>3 DEF NothingSent
      <4> QED
        BY <3>6, <3>7, <4>1 DEF Held
    <3>9. ASSUME NEW n \in 0 .. N + 1
          PROVE  Stages(f)'[n] = <<>>
      <4>1. CASE n = 0
        BY <1>3, <3>4, <3>7, <4>1 DEF StagesAre, NothingSent
      <4>2. CASE n = N + 1
        BY <1>3, <3>4, <4>2 DEF StagesAre, NothingSent
      <4>3. CASE n # 0 /\ n # N + 1
        <5>1. n \in 1 .. N /\ n - 1 \in 0 .. N /\ n \in 0 .. N
          BY <3>5, <4>3
        <5>2. s[n - 1] \in Router /\ s[n] \in Router
          BY <3>5, <5>1
        <5>3. Held(f, s[n - 1], s[n])' = <<>>
          BY <3>8, <5>2
        <5> QED
          BY <3>4, <5>1, <5>3 DEF StagesAre
      <4> QED
        BY <4>1, <4>2, <4>3
    <3>10. PICK B, w : B = Stages(f)' /\ w = Way(f)'
      OBVIOUS
    <3>11. w = <<>> /\ Ordered(B) /\ \A k : UpToNumber(B, k)
      BY <3>2, <3>9, <3>10, NoWay
    <3>12. OnlyOnRoute(f)'
      BY <3>8 DEF OnlyOnRoute
    <3> QED
      BY <3>10, <3>11, <3>12 DEF FlowOK
  <2>4. OrderInv'
    BY <1>3, <1>5, <2>2, <2>3 DEF OrderInv
  <2>5. LinksWay' = LinksWay
    BY <1>1, <1>5, <2>3 DEF LinksWay
  <2> QED
    BY <1>1, <2>4, <2>5 DEF L!vars, LinksWay
<1> QED
  BY <1>4, <1>5

\* What holds before a step of the loop.
LEMMA FlowsAreBefore ==
  ASSUME OrderInv, pc # "tables", NEW f \in Flow
  PROVE  Before(f)
<1>1. sent \in Nat
  BY Numbers DEF OrderInv
<1>2. Route(f, Stops(f))
  BY StopsAreRoute DEF OrderInv
<1> QED
  BY <1>1, <1>2 DEF OrderInv, Before, FlowOK

\* When every flow is moved as it may, Links may make the step.
LEMMA LoopKeepsOrder ==
  ASSUME OrderInv, TableInv', PlacesOK', pc # "tables", pc' # "tables",
         routingTable' = routingTable, sent' = sent,
         \A f \in Flow : After(f)
  PROVE  OrderInv' /\ L!Next
<1>1. TablesComplete'
  BY DEF OrderInv, TablesComplete
<1>2. \A f \in Flow : FlowOK(f)'
  BY DEF After, Moves, FlowOK
<1>3. OrderInv'
  BY <1>1, <1>2 DEF OrderInv
<1>4. \A f \in Flow : L!PassOn(f)
  BY <1>3, MovesPassOn DEF After
<1> QED
  BY <1>3, <1>4 DEF L!Next

\* A packet that is sent is one that Links sends.
LEMMA SendKeepsOrder ==
  ASSUME OrderInv, TableInv', PlacesOK', NEW g \in Flow, NEW size \in Size,
         Send(g, size)
  PROVE  OrderInv' /\ L!Next
<1>1. /\ pc # "tables" /\ pc' = pc /\ sent' = sent + 1 /\ sent < MaxPackets
      /\ routingTable' = routingTable /\ arrived' = arrived
  BY DEF Send, table_vars
<1>2. ASSUME NEW f \in Flow
      PROVE  /\ FlowOK(f)'
             /\ f # g => Way(f)' = Way(f)
             /\ f = g => \E x \in Packet :
                           /\ x = [flow |-> g, number |-> sent + 1, size |-> size]
                           /\ Way(f)' = Append(Way(f), x)
  <2>1. Before(f)
    BY <1>1, FlowsAreBefore
  <2> QED
    BY <2>1, SendMoves DEF FlowOK
<1>3. OrderInv'
  <2>1. TablesComplete'
    BY <1>1 DEF OrderInv, TablesComplete
  <2>2. sent' \in 0 .. MaxPackets
    BY <1>1, Numbers DEF OrderInv
  <2> QED
    BY <1>1, <1>2, <2>1, <2>2 DEF OrderInv
<1>4. PICK x \in Packet : Way(g)' = Append(Way(g), x)
  BY <1>2
<1>5. LinksWay' = [LinksWay EXCEPT ![g] = Append(@, x)]
  BY <1>1, <1>2, <1>4 DEF LinksWay
<1>6. L!Send(g, x)
  BY <1>1, <1>5 DEF L!Send, LinksWay
<1> QED
  BY <1>3, <1>6 DEF L!Next

\* Every step keeps the order, and is one of Links or changes nothing for it.
LEMMA StepKeepsOrder ==
  ASSUME LoopInv, OrderInv, [Next]_vars
  PROVE  LoopInv' /\ OrderInv' /\ [L!Next]_(L!vars)
<1>1. LoopInv' /\ TableInv'
  BY StepKeepsLoop, StepKeepsTable DEF OrderInv
<1>2. socket' \in Seq(Packet) /\ queue' \in [Router -> [Router -> Seq(Entry)]]
  BY <1>1 DEF LoopInv, LoopTypeOK
<1>3. arrived' = arrived => PlacesOK'
  BY <1>2 DEF OrderInv, PlacesOK
<1>4. CASE Visit \/ FillTable
  BY <1>1, <1>4, TablesKeepOrder
<1>5. CASE \E f \in Flow, size \in Size : Send(f, size)
  <2>1. PICK f \in Flow, size \in Size : Send(f, size)
    BY <1>5
  <2>2. PlacesOK'
    BY <1>3, <2>1 DEF Send
  <2> QED
    BY <1>1, <2>1, <2>2, SendKeepsOrder
<1>6. CASE Receive
  <2>1. /\ pc # "tables" /\ pc' # "tables" /\ routingTable' = routingTable
        /\ sent' = sent /\ arrived' = arrived
    BY <1>6 DEF Receive, table_vars
  <2>2. PlacesOK'
    BY <1>3, <2>1
  <2>3. \A f \in Flow : After(f)
    BY <1>6, <2>1, <2>2, FlowsAreBefore, ReceiveMoves
  <2> QED
    BY <1>1, <2>1, <2>2, <2>3, LoopKeepsOrder
<1>7. CASE Run
  <2>1. /\ pc # "tables" /\ pc' # "tables" /\ routingTable' = routingTable
        /\ sent' = sent /\ runRouters # <<>>
    BY <1>7 DEF Run, table_vars
  <2>2. PICK self : self = Head(runRouters)
    OBVIOUS
  <2>3. self \in Router
    <3>1. runRouters \in Seq(Router)
      BY DEF LoopInv, LoopTypeOK
    <3> QED
      BY <2>1, <2>2, <3>1, HeadTailProperties
  <2>4. PlacesOK'
    <3>1. arrived' \in [Flow -> Seq(Packet)]
      <4>1. \A f \in Flow : /\ arrived'[f] = arrived[f] \o Due(f, self, f[2])
                            /\ arrived[f] \in Seq(Packet)
                            /\ Due(f, self, f[2]) \in Seq(Packet)
        BY <1>7, <2>2, <2>3, RunDoes, DueLeave, FlowsAreOfRouters DEF OrderInv, PlacesOK
      <4>2. \A f \in Flow : arrived'[f] \in Seq(Packet)
        BY <4>1, ConcatProperties
      <4>3. arrived' = [f \in Flow |-> arrived'[f]]
        <5> DEFINE More(f) ==
              arrived[f] \o Of(f, Packets([b \in Router |-> Ready(queue[Head(runRouters)][b])][f[2]]))
        <5>1. arrived' = [f \in Flow |-> More(f)]
          BY <1>7 DEF Run
        <5> HIDE DEF More
        <5> QED
          BY <5>1
      <4> QED
        BY <4>2, <4>3
    <3> QED
      BY <1>2, <3>1 DEF PlacesOK
  <2>5. \A f \in Flow : After(f)
    BY <1>7, <2>1, <2>2, <2>3, <2>4, FlowsAreBefore, RunMoves
  <2> QED
    BY <1>1, <2>1, <2>4, <2>5, LoopKeepsOrder
<1>8. CASE Wake \/ NothingToRun \/ (pc # "tables" /\ UNCHANGED vars)
  <2>1. /\ pc # "tables" /\ pc' # "tables" /\ routingTable' = routingTable
        /\ sent' = sent /\ arrived' = arrived /\ socket' = socket /\ queue' = queue
    BY <1>8 DEF Wake, NothingToRun, vars, table_vars, loop_vars
  <2>2. PlacesOK'
    BY <1>3, <2>1
  <2>3. \A f \in Flow : After(f)
    BY <2>1, FlowsAreBefore, QuietMoves
  <2> QED
    BY <1>1, <2>1, <2>2, <2>3, LoopKeepsOrder
<1>9. CASE Tick
  <2>1. /\ pc # "tables" /\ pc' # "tables" /\ routingTable' = routingTable
        /\ sent' = sent /\ arrived' = arrived
    BY <1>9 DEF Tick, table_vars
  <2>2. PlacesOK'
    BY <1>3, <2>1
  <2>3. \A f \in Flow : After(f)
    BY <1>9, <2>1, FlowsAreBefore, TickMoves
  <2> QED
    BY <1>1, <2>1, <2>2, <2>3, LoopKeepsOrder
<1>10. CASE pc = "tables" /\ UNCHANGED vars
  <2>1. /\ pc' = pc /\ socket' = socket /\ queue' = queue
        /\ arrived' = arrived /\ sent' = sent
    BY <1>10 DEF vars, loop_vars
  <2>2. OrderInv'
    BY <1>1, <1>3, <1>10, <2>1 DEF OrderInv, NothingSent
  <2>3. LinksWay' = LinksWay
    BY <1>10, <2>1 DEF LinksWay
  <2> QED
    BY <1>1, <2>1, <2>2, <2>3 DEF L!vars, LinksWay
<1> QED
  BY <1>4, <1>5, <1>6, <1>7, <1>8, <1>9, <1>10 DEF Next, Progress

\* The simulator implements links that lose packets and are late, and never
\* double one or change their order, whatever the map, the flows and the
\* latencies (the queues and routers of hupsim.pl).
THEOREM OrderIsKept == Spec => KeepsOrder
<1>1. Init => LoopInv /\ OrderInv /\ L!Init
  BY InitLoop, InitOrder
<1>2. LoopInv /\ OrderInv /\ [Next]_vars => LoopInv' /\ OrderInv' /\ [L!Next]_(L!vars)
  BY StepKeepsOrder
<1> QED
  BY <1>1, <1>2, PTL DEF Spec, KeepsOrder, L!Spec

=============================================================================
