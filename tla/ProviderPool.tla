---------------------------- MODULE ProviderPool ----------------------------
(***************************************************************************)
(* The list of a node's provider connections (connection.c), as linked     *)
(* cells of the heap, and the event loop (peer.c) that walks it.           *)
(*                                                                         *)
(* The two walks of a turn, providers_timeout and                          *)
(* all_provider_connection_send_data, take one step for every cell: the    *)
(* first one may remove and free the cell it stands on, and then reads the *)
(* freed cell's `next'.  With the C library's malloc that is still what it *)
(* was: free writes to the first 16 bytes of a cell, `next' is its last    *)
(* field, and nothing is allocated in between.  Allocation may take any    *)
(* cell that is free.                                                      *)
(*                                                                         *)
(* Peers are arbitrary, as in Provider: any GET and any acknowledgement    *)
(* may arrive in any turn.                                                 *)
(***************************************************************************)
EXTENDS Control, FiniteSets

CONSTANTS
  Peer,                    \* the other nodes of the peer list
  Cell,                    \* addresses of the heap
  NULL,
  NoConnection,
  MaxConn                  \* the values the user may give for max_conn

ASSUME PoolAssumption ==
  /\ NULL \notin Cell
  /\ NoConnection \notin ProviderConnection
  /\ MaxConn \subseteq Nat
  /\ IsFiniteSet(Cell)
  /\ \A limit \in MaxConn : limit <= Cardinality(Cell)

VARIABLES
  max_provider_connection,
  pc,          \* where the loop is: "select", "packet", "timeouts", "send"
  head,        \* provider_connection_head
  next,        \* next[a]: the field of that name, also of a free cell
  receiver,    \* receiver[a]: the peer of the cell, NULL for a free cell
  conn,        \* conn[a]: its other fields, NoConnection for a free cell
  temp,        \* the cell a walk stands on, or NULL
  handled      \* auxiliary: the peers the walk has handled

list_vars == <<head, next, receiver, conn>>
vars == <<max_provider_connection, pc, list_vars, temp, handled>>

Allocated == {a \in Cell : conn[a] # NoConnection}

Init ==
  /\ max_provider_connection \in MaxConn
  /\ pc = "select"
  /\ head = NULL
  /\ next = [a \in Cell |-> NULL]
  /\ receiver = [a \in Cell |-> NULL]
  /\ conn = [a \in Cell |-> NoConnection]
  /\ temp = NULL
  /\ handled = {}

-----------------------------------------------------------------------------
(* The list.                                                               *)

\* The cells in the order of the list, as far as it is not a cycle.
Nth[n \in Nat] ==
  IF n = 0 THEN head
  ELSE IF Nth[n - 1] = NULL THEN NULL
  ELSE next[Nth[n - 1]]

Listed == {Nth[n] : n \in 0 .. Cardinality(Cell)} \ {NULL}

GetProviderConnectionNumber == Cardinality(Listed)

\* search_provider_connection: the first cell of this peer, or none.
SearchProviderConnection(p) ==
  {Nth[n] : n \in {m \in 0 .. Cardinality(Cell) :
                     /\ Nth[m] # NULL
                     /\ receiver[Nth[m]] = p
                     /\ \A k \in 0 .. m - 1 : receiver[Nth[k]] # p}}

AddProviderConnection(a) ==
  /\ next' = [next EXCEPT ![a] = head]
  /\ head' = a

\* Faulty: what followed the target is cut off.
RemoveWithRest(a) ==
  /\ head' = IF head = a THEN NULL ELSE head
  /\ next' = [b \in Cell |-> IF b \in Listed /\ next[b] = a THEN NULL
                                                            ELSE next[b]]

\* Faulty: `next' of the cell is reset, which the walk still has to read.
RemoveAndReset(a) ==
  /\ head' = IF head = a THEN next[a] ELSE head
  /\ next' = [b \in Cell |-> IF b = a THEN NULL
                             ELSE IF b \in Listed /\ next[b] = a THEN next[a]
                             ELSE next[b]]

RemoveProviderConnection(a) ==
  /\ head' = IF head = a THEN next[a] ELSE head
  /\ next' = [b \in Cell |-> IF head # a /\ b \in Listed /\ next[b] = a
                               THEN next[a] ELSE next[b]]

\* finish_provider_connection: removed, then freed.  Of a free cell, only
\* `next' keeps its value.
FinishProviderConnection(a) ==
  /\ RemoveProviderConnection(a)
  /\ conn' = [conn EXCEPT ![a] = NoConnection]
  /\ receiver' = [receiver EXCEPT ![a] = NULL]

\* The connection is kept, with other values in its fields.
Becomes(a, c) ==
  /\ conn' = [conn EXCEPT ![a] = c]
  /\ UNCHANGED <<head, next, receiver>>

-----------------------------------------------------------------------------
(* select, and one packet.                                                 *)

Select(dt) ==
  /\ pc = "select"
  /\ pc' = "packet"
  /\ conn' = [a \in Cell |-> IF a \in Allocated THEN Elapse(conn[a], dt)
                                                ELSE NoConnection]
  /\ UNCHANGED <<max_provider_connection, head, next, receiver, temp, handled>>

\* A walk starts at the head of the list the packet leaves behind.
StartWalk ==
  /\ temp' = head'
  /\ handled' = {}

BelowLimit == GetProviderConnectionNumber < max_provider_connection

\* A GET for a chunk that can be loaded.
AcceptGet(p, chunk) ==
  /\ pc = "packet"
  /\ pc' = "timeouts"
  /\ SearchProviderConnection(p) = {}
  /\ BelowLimit
  /\ \E a \in Cell \ Allocated :
       /\ AddProviderConnection(a)
       /\ receiver' = [receiver EXCEPT ![a] = p]
       /\ conn' = [conn EXCEPT ![a] = InitProviderConnection(chunk)]
  /\ StartWalk
  /\ UNCHANGED max_provider_connection

\* Nothing arrived, or a packet that changes no connection: a GET from a
\* peer that has one, or at the limit, or for a chunk that cannot be loaded;
\* an ACK from a peer without one.
IgnorePacket ==
  /\ pc = "packet"
  /\ pc' = "timeouts"
  /\ UNCHANGED <<max_provider_connection, list_vars>>
  /\ StartWalk

ReceiveAck(p, ack_number) ==
  /\ pc = "packet"
  /\ pc' = "timeouts"
  /\ \E a \in SearchProviderConnection(p) :
       LET c == ProviderControlByAck(conn[a], ack_number)
       IN  IF c.last_packet_acked = CHUNK_DATA_NUM
             THEN FinishProviderConnection(a)
             ELSE Becomes(a, c)
  /\ StartWalk
  /\ UNCHANGED max_provider_connection

-----------------------------------------------------------------------------
(* The two walks.                                                          *)

\* The step to the next cell reads the one the walk leaves, freed or not.
StepOn ==
  /\ temp' = next'[temp]
  /\ handled' = handled \cup {receiver[temp]}

ProviderTimeout ==
  /\ pc = "timeouts"
  /\ temp # NULL
  /\ IF ReceiverCrashed(conn[temp])
       THEN FinishProviderConnection(temp)
       ELSE Becomes(temp, ProviderControlByTimeout(conn[temp]))
  /\ StepOn
  /\ UNCHANGED <<max_provider_connection, pc>>

\* receivers_timeout comes between the two walks.
EndTimeouts ==
  /\ pc = "timeouts"
  /\ temp = NULL
  /\ pc' = "send"
  /\ UNCHANGED <<max_provider_connection, list_vars>>
  /\ StartWalk

ProviderSends ==
  /\ pc = "send"
  /\ temp # NULL
  /\ Becomes(temp, IF CanSend(conn[temp]) THEN SendDataPacket(conn[temp])
                                          ELSE conn[temp])
  /\ StepOn
  /\ UNCHANGED <<max_provider_connection, pc>>

EndTurn ==
  /\ pc = "send"
  /\ temp = NULL
  /\ pc' = "select"
  /\ handled' = {}
  /\ UNCHANGED <<max_provider_connection, list_vars, temp>>

Next ==
  \/ \E dt \in {0, 1} : Select(dt)
  \/ \E p \in Peer, chunk \in Chunk : AcceptGet(p, chunk)
  \/ IgnorePacket
  \/ \E p \in Peer, n \in 0 .. CHUNK_DATA_NUM : ReceiveAck(p, n)
  \/ ProviderTimeout
  \/ EndTimeouts
  \/ ProviderSends
  \/ EndTurn

Spec == Init /\ [][Next]_vars

\* The loop never stops, and the clock runs.
FairSpec == Spec /\ WF_vars(Next) /\ SF_vars(Select(1))

-----------------------------------------------------------------------------
\* The list has every connection that is allocated and no other, it ends,
\* no peer has two connections, and there are no more than the user allowed:
\* a cell that fell off the list would keep its memory and never send or
\* time out, one that is on it after it was freed would do both.
ListWellFormed ==
  /\ Listed = Allocated
  /\ Nth[Cardinality(Listed)] = NULL
  /\ \A a, b \in Listed : receiver[a] = receiver[b] => a = b
  /\ Cardinality(Allocated) <= max_provider_connection

(* To each of the peers, the list is a slot of its own.                    *)

ConnectionOf(p) ==
  IF \E a \in Listed : receiver[a] = p
    THEN conn[CHOOSE a \in Listed : receiver[a] = p]
    ELSE NoConnection

After(phase) == IF phase = "timeouts" THEN "send" ELSE "select"

PhaseOf(p) == IF pc \in {"timeouts", "send"} /\ p \in handled THEN After(pc)
                                                              ELSE pc

Slot(p) == INSTANCE Provider WITH pc   <- PhaseOf(p),
                                  conn <- ConnectionOf(p)

\* Whatever happens to the connections around it, every turn runs the timers
\* of a connection once and then lets it send once: for each peer, the node
\* behaves as the one slot of Provider, and all that holds of the slot holds
\* of every connection of the list.
SlotForEveryPeer ==
  /\ \A p \in Peer : Slot(p)!Init
  /\ [][\A p \in Peer : [Slot(p)!Next]_(Slot(p)!vars)]_vars

\* The list does not stay full of receivers that are gone: a GET that was
\* refused at the limit will find a place when it is repeated, unless some
\* receiver goes on acknowledging.
PlacesComeFree ==
  \/ []<>(GetProviderConnectionNumber < max_provider_connection)
  \/ \E p \in Peer : []<><<Slot(p)!HeardFromReceiver>>_vars

=============================================================================
