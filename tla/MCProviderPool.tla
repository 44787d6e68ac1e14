--------------------------- MODULE MCProviderPool ---------------------------
(***************************************************************************)
(* ProviderPool with three peers that want one chunk of one packet, and    *)
(* room for one, two or all of them.                                       *)
(***************************************************************************)
EXTENDS ProviderPool

CONSTANTS p1, p2, p3, a1, a2, a3, c1

MCPeer == {p1, p2, p3}
MCCell == {a1, a2, a3}
MCChunk == {c1}
MCMaxConn == {1, 2, 3}

=============================================================================
