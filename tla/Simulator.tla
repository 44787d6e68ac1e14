----------------------------- MODULE Simulator ------------------------------
(***************************************************************************)
(* The network simulator hupsim.pl: routers, one for every node, joined by *)
(* links with a queue in each direction (package NSQueue), the routing     *)
(* tables they compute at the start (createTable of package NSRouter), and *)
(* the loop of package main, which waits for a packet or for the first     *)
(* queued packet to be due, and then lets the routers run.                 *)
(*                                                                         *)
(* Instants are modelled by how long they are ahead, in ticks; packets     *)
(* have sizes in units that a link transmits in one tick.  The loop itself *)
(* takes no time.  All packets are for nodes of nodes.map, and topo.map    *)
(* is connected: createTable follows a way back for ever if it is not, as  *)
(* its test for a missing predecessor comes after the look-up that made    *)
(* one.                                                                    *)
(***************************************************************************)
EXTENDS Integers, Sequences, FiniteSets, FiniteSetsExt, SequencesExt

CONSTANTS
  N,             \* the routers are 1 .. N
  Topology,      \* the maps: sets of links, a link being a set of two routers
  Flow,          \* who sends packets to whom: pairs of routers
  Size,          \* sizes of packets
  Latency,       \* of every link
  QUEUEMAX,      \* packets a queue has room for (10)
  MaxPackets,    \* bound on the packets sent
  Undefined

Router == 1 .. N

INFINITY == 65535

\* No part of the routers is without a link to the rest.
Connects(map) ==
  \A part \in (SUBSET Router) \ {{}, Router} :
    \E a \in part, b \in Router \ part : {a, b} \in map

ASSUME SimulatorAssumption ==
  /\ N \in Nat \ {0}
  /\ N + 1 < INFINITY
  /\ Topology \subseteq SUBSET {{a, b} : a \in Router, b \in Router}
  /\ \A map \in Topology : Connects(map)
  /\ Flow \subseteq {f \in Router \X Router : f[1] # f[2]}
  /\ Size \subseteq Nat \ {0}
  /\ Latency \in Nat
  /\ QUEUEMAX \in Nat \ {0}
  /\ MaxPackets \in Nat
  /\ Undefined \notin Nat

Packet == [flow : Flow, number : 1 .. MaxPackets, size : Size]

VARIABLES
  topo,            \* the links
  pc,              \* "tables", "select" or "run"
  done,            \* the routers visited for the table that is computed
  distance,        \* how far every router is, as far as known
  predecessor,     \* predecessor of every router
  routingTable,    \* routingTable[a][b]: the neighbour a sends packets for b to
  socket,          \* packets sent by nodes and not read yet
  queue,           \* queue[a][b]: of the packets a sends to its neighbour b
  runRouters,      \* the routers that are still to run
  sleepSeconds,    \* how long the next select waits, or Undefined: for ever
  sent,            \* how many packets were sent
  arrived          \* the packets every flow has delivered

table_vars == <<topo, done, distance, predecessor, routingTable>>
loop_vars == <<socket, queue, runRouters, sleepSeconds, sent, arrived>>
vars == <<pc, table_vars, loop_vars>>

Neighbours(a) == {b \in Router \ {a} : {a, b} \in topo}

Init ==
  /\ topo \in Topology
  /\ pc = "tables"
  /\ done = {}
  /\ distance = [v \in Router |-> IF v = 1 THEN 0 ELSE INFINITY]
  /\ predecessor = [v \in Router |-> Undefined]
  /\ routingTable = <<>>
  /\ socket = <<>>
  /\ queue = [a \in Router |-> [b \in Router |-> <<>>]]
  /\ runRouters = <<>>
  /\ sleepSeconds = Undefined
  /\ sent = 0
  /\ arrived = [f \in Flow |-> <<>>]

-----------------------------------------------------------------------------
(* createTable: Dijkstra's algorithm, with links of weight 1, for one      *)
(* router after the other.                                                 *)

\* The router whose table is computed.
Self == Len(routingTable) + 1

\* Predecessors stay as the computation before left them.
Start(self) ==
  /\ done' = {}
  /\ distance' = [v \in Router |-> IF v = self THEN 0 ELSE INFINITY]

\* The first of the nearest routers that are not done.
IsNextVertex(v) ==
  /\ v \notin done
  /\ \A w \in Router \ done :
       \/ distance[v] < distance[w]
       \/ distance[v] = distance[w] /\ v <= w

Visit ==
  /\ pc = "tables"
  /\ done # Router
  /\ LET next   == CHOOSE v \in Router : IsNextVertex(v)
         weight == distance[next] + 1
         nearer == {v \in Neighbours(next) : distance[v] > weight}
     IN  /\ done' = done \cup {next}
         /\ distance' = [v \in Router |-> IF v \in nearer THEN weight
                                                          ELSE distance[v]]
         /\ predecessor' = [v \in Router |-> IF v \in nearer THEN next
                                                         ELSE predecessor[v]]
  /\ UNCHANGED <<topo, pc, routingTable, loop_vars>>

\* Faulty: the way is not followed back to the neighbour of self.
LastStop(v) == predecessor[v]

\* The neighbour of self through which v is reached.
StartRoute(v) ==
  LET back[k \in 0 .. N] ==
        IF k = 0 THEN v
        ELSE LET stop == back[k - 1]
             IN  IF predecessor[stop] = Self THEN stop ELSE predecessor[stop]
  IN  back[N]

FillTable ==
  /\ pc = "tables"
  /\ done = Router
  /\ routingTable' = Append(routingTable,
                            [v \in Router \ {Self} |-> StartRoute(v)])
  /\ IF Self = N
       THEN pc' = "select" /\ UNCHANGED <<done, distance>>
       ELSE pc' = "tables" /\ Start(Self + 1)
  /\ UNCHANGED <<topo, predecessor, loop_vars>>

-----------------------------------------------------------------------------
(* Queues.                                                                 *)

TotalSize(q) ==
  LET total[k \in 0 .. Len(q)] ==
        IF k = 0 THEN 0 ELSE total[k - 1] + q[k].packet.size
  IN  total[Len(q)]

\* Faulty: a packet that comes is put before those that wait.
EnQFirst(q, packet) ==
  IF Len(q) >= QUEUEMAX
    THEN q
    ELSE <<[packet |-> packet,
            txTime |-> Latency + packet.size + TotalSize(q)]>> \o q

\* enQ: a packet waits for the link's latency, for its own transmission, and
\* for that of all packets before it, those on the wire included.
EnQ(q, packet) ==
  IF Len(q) >= QUEUEMAX
    THEN q
    ELSE Append(q, [packet |-> packet,
                    txTime |-> Latency + packet.size + TotalSize(q)])

\* The packets at the head of a queue that are due.
Ready(q) ==
  SubSeq(q, 1, Cardinality({k \in DOMAIN q : \A i \in 1 .. k : q[i].txTime = 0}))

\* Those that stay.
Rest(q) == SubSeq(q, Len(Ready(q)) + 1, Len(q))

Packets(q) == [k \in DOMAIN q |-> q[k].packet]

\* The packets of a flow among others, in their order.
Of(f, packets) ==
  LET some[k \in 0 .. Len(packets)] ==
        IF k = 0 THEN <<>>
        ELSE IF packets[k].flow = f THEN Append(some[k - 1], packets[k])
                                    ELSE some[k - 1]
  IN  some[Len(packets)]

\* The packets for c of those that router b receives, one after the other.
\* They are appended to the queue their table entry says.
QueueAt(b, c, q, packets) ==
  LET enqueued[k \in 0 .. Len(packets)] ==
        IF k = 0 THEN q
        ELSE LET before == enqueued[k - 1]
                 to     == packets[k].flow[2]
             IN  IF to # b /\ routingTable[b][to] = c
                   THEN EnQ(before, packets[k])
                   ELSE before
  IN  enqueued[Len(packets)]

-----------------------------------------------------------------------------
(* The loop of main.                                                       *)

\* A node sends a packet to the simulator, which reads it in select only:
\* one that comes earlier is as one that comes then.
Send(f, size) ==
  /\ pc = "select"
  /\ sent < MaxPackets
  /\ sent' = sent + 1
  /\ socket' = Append(socket, [flow |-> f, number |-> sent + 1, size |-> size])
  /\ UNCHANGED <<pc, table_vars, queue, runRouters, sleepSeconds, arrived>>

AllRouters == [k \in 1 .. N |-> k]

\* select returns with a packet: the router of its node receives it, and
\* then every router runs.
Receive ==
  LET packet == Head(socket)
      self   == packet.flow[1]
  IN  /\ pc = "select"
      /\ socket # <<>>
      /\ pc' = "run"
      /\ socket' = Tail(socket)
      /\ queue' = [queue EXCEPT ![self] =
                     [c \in Router |-> QueueAt(self, c, @[c], <<packet>>)]]
      /\ runRouters' = <<self>> \o AllRouters
      /\ sleepSeconds' = Undefined
      /\ UNCHANGED <<table_vars, sent, arrived>>

\* select returns because the time is over.
Wake ==
  /\ pc = "select"
  /\ socket = <<>>
  /\ sleepSeconds = 0
  /\ pc' = "run"
  /\ runRouters' = AllRouters
  /\ sleepSeconds' = Undefined
  /\ UNCHANGED <<table_vars, socket, queue, sent, arrived>>

\* Faulty: a router that runs does not make its neighbours run again.
PassedNone(self) == <<>>

\* The routers that receive a packet which is not for their node, once for
\* every such packet, in the order of the routes.
Passed(self) ==
  LET toOthers(b) ==
        LET ready == Ready(queue[self][b])
        IN  {k \in DOMAIN ready : ready[k].packet.flow[2] # b}
  IN  FlattenSeq([b \in Router |->
                    [k \in 1 .. Cardinality(toOthers(b)) |-> b]])

Shorter(wait, other) ==
  IF wait = Undefined THEN other
  ELSE IF other = Undefined \/ wait < other THEN wait
  ELSE other

\* How long until the first packet of a router is due.
WaitOf(queues) ==
  LET waits == {q[1].txTime : q \in Range(queues) \ {<<>>}}
  IN  IF waits = {} THEN Undefined ELSE Min(waits)

\* Faulty: only the router that ran last decides.
SleepForLast(wait) == wait

SleepFor(wait) == Shorter(sleepSeconds, wait)

\* One router runs: every packet that is due moves to the next router, which
\* hands it to its node or queues it again.
Run ==
  LET self  == Head(runRouters)
      ready == [b \in Router |-> Ready(queue[self][b])]
      kept  == [b \in Router |-> Rest(queue[self][b])]
  IN  /\ pc = "run"
      /\ runRouters # <<>>
      /\ queue' = [a \in Router |->
                     IF a = self THEN kept
                     ELSE [c \in Router |->
                             QueueAt(a, c, queue[a][c], Packets(ready[a]))]]
      /\ arrived' = [f \in Flow |-> arrived[f] \o Of(f, Packets(ready[f[2]]))]
      /\ runRouters' = Tail(runRouters) \o Passed(self)
      /\ sleepSeconds' = SleepFor(WaitOf(kept))
      /\ UNCHANGED <<pc, table_vars, socket, sent>>

NothingToRun ==
  /\ pc = "run"
  /\ runRouters = <<>>
  /\ pc' = "select"
  /\ UNCHANGED <<table_vars, socket, queue, runRouters, sleepSeconds, sent, arrived>>

Sooner(n) == IF n = 0 THEN 0 ELSE n - 1

\* A tick passes in select.
Tick ==
  /\ pc = "select"
  /\ socket = <<>>
  /\ sleepSeconds # 0
  /\ sleepSeconds' = IF sleepSeconds = Undefined THEN Undefined
                                                 ELSE sleepSeconds - 1
  /\ queue' = [a \in Router |-> [b \in Router |->
                 [k \in DOMAIN queue[a][b] |->
                    [queue[a][b][k] EXCEPT !.txTime = Sooner(@)]]]]
  /\ UNCHANGED <<pc, table_vars, socket, runRouters, sent, arrived>>

Progress == Visit \/ FillTable \/ Receive \/ Wake \/ Run \/ NothingToRun \/ Tick

Next ==
  \/ \E f \in Flow, size \in Size : Send(f, size)
  \/ Progress

Spec == Init /\ [][Next]_vars

\* The simulator goes on, and so does time.
FairSpec == Spec /\ WF_vars(Progress)

-----------------------------------------------------------------------------
\* The routers within n links of a.
Ball(a) ==
  LET within[n \in 0 .. N] ==
        IF n = 0 THEN {a}
        ELSE LET nearer == within[n - 1]
             IN  nearer \cup UNION {Neighbours(b) : b \in nearer}
  IN  within

\* The neighbour that a sends packets for b to is nearer to b, by a link.
OnShortestWay(a, b) ==
  \E c \in Neighbours(a) :
    /\ routingTable[a][b] = c
    /\ \A n \in 1 .. N : b \in Ball(a)[n] => b \in Ball(c)[n - 1]

TableStep ==
  \A a \in DOMAIN routingTable' :
    routingTable' # routingTable =>
      \A b \in Router \ {a} : OnShortestWay(a, b)'

\* Every router sends a packet to a neighbour that is nearer to where it
\* goes, and so does that neighbour: packets take shortest ways and never
\* run in a circle, although each router breaks ties on its own and starts
\* with what the computation before left behind.
ShortestWays == [][TableStep]_vars

\* select never waits longer than the first packet of any queue, also of the
\* queues that were filled after their router had run in this turn.
NeverOversleeps ==
  pc = "select" =>
    \A a, b \in Router :
      queue[a][b] # <<>> =>
        /\ sleepSeconds # Undefined
        /\ sleepSeconds <= queue[a][b][1].txTime

(* The simulator implements links that keep the order.                     *)

\* The routers that a flow passes; it stays at the last one.
Stops(f) ==
  LET stop[n \in 0 .. N] ==
        IF n = 0 THEN f[1]
        ELSE LET before == stop[n - 1]
             IN  IF before = f[2] THEN f[2] ELSE routingTable[before][f[2]]
  IN  stop

\* The packets of a flow that router a queues for b.
Between(f, a, b) == IF a = f[2] THEN <<>> ELSE Of(f, Packets(queue[a][b]))

\* The packets of a flow that are in the simulator, from the one that is
\* nearest to its destination back to those still in the socket.
Way(f) ==
  LET stop == Stops(f)
      upTo[n \in 0 .. N] ==
        IF n = 0 THEN Of(f, socket)
        ELSE Between(f, stop[n - 1], stop[n]) \o upTo[n - 1]
  IN  upTo[N]

L == INSTANCE Links WITH way <- [f \in Flow |-> IF pc = "tables" THEN <<>>
                                                               ELSE Way(f)]

\* Two nodes see links that may lose packets and are late, and never change
\* their order or double one: what Swarm takes the network to be.
KeepsOrder == L!Spec

(* Liveness.                                                               *)

Empty == socket = <<>> /\ \A a, b \in Router : queue[a][b] = <<>>

\* No packet stays in the simulator: each arrives, or finds a queue full.
PacketsLeave == []<>Empty

=============================================================================
