----------------------------- MODULE MCProvider -----------------------------
(***************************************************************************)
(* Provider with small timeouts, a small chunk and a small threshold, so   *)
(* that slow start, congestion avoidance, fast retransmission, the ACK     *)
(* timeout and the release of a dead connection all happen.                *)
(***************************************************************************)
EXTENDS Provider

CONSTANT c1

MCChunk == {c1}

=============================================================================
