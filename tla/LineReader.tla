----------------------------- MODULE LineReader ------------------------------
(***************************************************************************)
(* What the input buffer promises: the bytes that were read and not yet    *)
(* handled wait in order, and they are handled line by line, every line    *)
(* once and complete.                                                      *)
(***************************************************************************)
EXTENDS Integers, Sequences, SequencesExt

CONSTANT NL       \* the byte that ends a line

VARIABLES
  unread,         \* bytes read and not yet handled
  line            \* the last line that was handled

vars == <<unread, line>>

Init == unread = <<>> /\ line = <<>>

Receive ==
  /\ IsPrefix(unread, unread')
  /\ UNCHANGED line

Deliver ==
  \E n \in DOMAIN unread :
    /\ unread[n] = NL
    /\ \A m \in 1 .. n - 1 : unread[m] # NL
    /\ line' = SubSeq(unread, 1, n - 1)
    /\ unread' = SubSeq(unread, n + 1, Len(unread))

Next == Receive \/ Deliver

Spec == Init /\ [][Next]_vars

=============================================================================
