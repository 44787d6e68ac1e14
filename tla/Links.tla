------------------------------- MODULE Links --------------------------------
(***************************************************************************)
(* What the network promises to its nodes: the packets from one node to    *)
(* another arrive in the order they were sent in, each once at most.       *)
(* Packets may be lost anywhere on their way, and several may arrive, or   *)
(* be lost, at once.  Two packets are never the same, though their bytes   *)
(* may be.                                                                 *)
(***************************************************************************)
EXTENDS Naturals, Sequences, SequencesExt

CONSTANTS Flow, Packet

VARIABLES
  way,         \* way[f]: the packets of flow f on their way, first one first
  arrived      \* arrived[f]: those that arrived

vars == <<way, arrived>>

Init ==
  /\ way = [f \in Flow |-> <<>>]
  /\ arrived = [f \in Flow |-> <<>>]

Send(f, packet) ==
  /\ way' = [way EXCEPT ![f] = Append(@, packet)]
  /\ UNCHANGED arrived

\* What is left when some packets are lost: each at its place before.
Left(packets, left) ==
  \E place \in [DOMAIN left -> DOMAIN packets] :
    /\ \A k \in DOMAIN left : left[k] = packets[place[k]]
    /\ \A j, k \in DOMAIN left : j < k => place[j] < place[k]

\* Of the packets of f that are not lost, the first ones arrive.  (What is
\* left is bound by \E so that TLC computes it once.)
PassOn(f) ==
  LET now == arrived'[f] \o way'[f]
  IN  /\ IsPrefix(arrived[f], arrived'[f])
      /\ \E left \in {SubSeq(now, Len(arrived[f]) + 1, Len(now))} :
           Left(way[f], left)

Next ==
  \/ \A f \in Flow : PassOn(f)
  \/ \E f \in Flow, packet \in Packet : Send(f, packet)

Spec == Init /\ [][Next]_vars

=============================================================================
