------------------------------- MODULE GoBackN -------------------------------
(***************************************************************************)
(* What the sender of a chunk promises, without windows, congestion        *)
(* control, timers or the event loop: packets are numbered 1 .. N, sent    *)
(* in order, acknowledged cumulatively and only after they were sent, and  *)
(* a loss is repaired by going back to the first packet that was not       *)
(* acknowledged.  A transfer is over when packet N is acknowledged, or     *)
(* when the sender gives up.                                               *)
(***************************************************************************)
EXTENDS Integers

CONSTANT N        \* packets of a chunk, a positive number

VARIABLES
  open,           \* is a transfer going on?
  acked,          \* the last packet acknowledged
  sent            \* the last packet sent

vars == <<open, acked, sent>>

Closed == open = FALSE /\ acked = 0 /\ sent = 0

Init == Closed

Open ==
  /\ ~open
  /\ open' = TRUE
  /\ UNCHANGED <<acked, sent>>

Send ==
  /\ open
  /\ sent < N
  /\ sent' = sent + 1
  /\ UNCHANGED <<open, acked>>

Acknowledge ==
  /\ open
  /\ \E n \in acked + 1 .. sent : n < N /\ acked' = n
  /\ UNCHANGED <<open, sent>>

GoBack ==
  /\ open
  /\ sent' = acked
  /\ UNCHANGED <<open, acked>>

\* The last packet is acknowledged, or the sender gives up.
Close ==
  /\ open
  /\ Closed'

Next == Open \/ Send \/ Acknowledge \/ GoBack \/ Close

Spec == Init /\ [][Next]_vars

=============================================================================
