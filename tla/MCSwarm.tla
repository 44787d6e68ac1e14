------------------------------ MODULE MCSwarm -------------------------------
(***************************************************************************)
(* Swarm with a few peers and chunks, and the faults of each run.          *)
(***************************************************************************)
EXTENDS Swarm

CONSTANTS p1, p2, h1, h2, j1

MCHash == {h1, h2}
MCJobId == {j1}
NoPeer == {}

\* One provider and one chunk.
OnePeer == {p1}
OneChunk == [j \in MCJobId |-> <<h1>>]
TwoChunks == [j \in MCJobId |-> <<h1, h2>>]
SameChunkTwice == [j \in MCJobId |-> <<h1, h1>>]
OwnsAll == [p \in OnePeer |-> MCHash]

\* Two providers: both own h1, the second also h2.
TwoPeers == {p1, p2}
Overlap == [p \in TwoPeers |-> IF p = p1 THEN {h1} ELSE {h1, h2}]
OtherPeer == {p2}

=============================================================================
