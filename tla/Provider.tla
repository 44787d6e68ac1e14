------------------------------ MODULE Provider ------------------------------
(***************************************************************************)
(* One slot of the provider's connection list, driven by the event loop    *)
(* peer_run (peer.c).  Every turn of the loop waits in select, handles at  *)
(* most one packet, lets the timers of the connection run, and sends at    *)
(* most one DATA packet.  The other peer is not trusted: any GET and any   *)
(* acknowledgement number may arrive in any turn, which covers packets     *)
(* lost, duplicated, reordered and left over from an earlier transfer.     *)
(*                                                                         *)
(* The connections of a node share nothing but the loop, so one slot, used *)
(* again and again, stands for each of them.                               *)
(***************************************************************************)
EXTENDS Control

CONSTANT NoConnection

ASSUME NoConnectionAssumption == NoConnection \notin ProviderConnection

VARIABLES
  pc,             \* where the loop is: "select", "packet", "timeouts", "send"
  conn            \* the connection with the peer, or NoConnection

vars == <<pc, conn>>

Connected == conn # NoConnection

Init ==
  /\ pc = "select"
  /\ conn = NoConnection

-----------------------------------------------------------------------------
(* select returns, within one tick or after one.                           *)

Select(dt) ==
  /\ pc = "select"
  /\ pc' = "packet"
  /\ conn' = IF Connected THEN Elapse(conn, dt) ELSE conn

-----------------------------------------------------------------------------
(* process_inbound_udp, the packets that concern a provider.               *)

\* GET for a chunk this node owns, and no connection with the peer yet.
AcceptGet(chunk) ==
  /\ pc = "packet"
  /\ pc' = "timeouts"
  /\ ~Connected
  /\ conn' = InitProviderConnection(chunk)

\* Nothing arrived; or a packet of another type, a GET while a connection
\* with the peer exists or for a chunk that cannot be loaded, an ACK
\* without a connection.
IgnorePacket ==
  /\ pc = "packet"
  /\ pc' = "timeouts"
  /\ UNCHANGED conn

\* An ACK: the connection is released once the whole chunk is acknowledged.
ReceiveAck(ack_number) ==
  /\ pc = "packet"
  /\ pc' = "timeouts"
  /\ Connected
  /\ LET c == ProviderControlByAck(conn, ack_number)
     IN  conn' = IF c.last_packet_acked = CHUNK_DATA_NUM THEN NoConnection
                                                         ELSE c

-----------------------------------------------------------------------------
ProvidersTimeout ==
  /\ pc = "timeouts"
  /\ pc' = "send"
  /\ conn' = IF ~Connected \/ ReceiverCrashed(conn)
               THEN NoConnection
               ELSE ProviderControlByTimeout(conn)

AllProviderConnectionSendData ==
  /\ pc = "send"
  /\ pc' = "select"
  /\ conn' = IF Connected /\ CanSend(conn) THEN SendDataPacket(conn) ELSE conn

Next ==
  \/ \E dt \in {0, 1} : Select(dt)
  \/ \E chunk \in Chunk : AcceptGet(chunk)
  \/ IgnorePacket
  \/ \E ack_number \in 0 .. CHUNK_DATA_NUM : ReceiveAck(ack_number)
  \/ ProvidersTimeout
  \/ AllProviderConnectionSendData

Spec == Init /\ [][Next]_vars

\* The loop never stops, and the clock runs: turn after turn, time passes.
Fairness == WF_vars(Next) /\ SF_vars(Select(1))

FairSpec == Spec /\ Fairness

-----------------------------------------------------------------------------
(* Safety.                                                                 *)

\* The connection is absent or a well-formed record, and the duplicate
\* counter never reaches the value that triggers a fast retransmission.
TypeOK ==
  /\ pc \in {"select", "packet", "timeouts", "send"}
  /\ conn \in ProviderConnection \cup {NoConnection}

\* What send_data_packet calls an error that "should not happen": more
\* packets are unacknowledged than the window allows.  The window may only
\* shrink together with a rewind, and it never outgrows the packets that
\* were acknowledged.  A connection whose chunk is acknowledged completely
\* is gone, so that its slot can serve the next GET.
WindowRespected ==
  Connected =>
    /\ conn.last_packet_acked < CHUNK_DATA_NUM
    /\ conn.last_packet_acked <= conn.last_packet_sent
    /\ conn.last_packet_sent - conn.last_packet_acked <= conn.window_size
    /\ conn.window_size <= SLOW_START_INIT_WINDOW_SIZE + conn.last_packet_acked

\* A connection is in congestion avoidance exactly when its window has
\* reached the threshold, although the window also grows on a path that
\* does not recompute the status; and the threshold never falls below 2,
\* so that a restarted connection does a slow start again.
StatusMatchesThreshold ==
  Connected =>
    /\ conn.ssthresh >= 2 \/ conn.ssthresh = DEFAULT_SLOW_START_THRESHOLD
    /\ conn.status = CONGESTION_AVOIDANCE <=> conn.window_size >= conn.ssthresh

(* What a step may never do.                                               *)

InOrderStep ==
  Connected /\ Connected' =>
    /\ conn'.last_packet_acked >= conn.last_packet_acked
    /\ conn'.last_packet_sent \in
         { conn.last_packet_sent, conn.last_packet_sent + 1,
           conn'.last_packet_acked }

\* Within one transfer the acknowledged prefix never shrinks, and the send
\* position either advances by the one packet of this turn or falls back to
\* the first packet that is not acknowledged: no packet is skipped.
InOrder == [][InOrderStep]_vars

WindowStep ==
  Connected /\ Connected' =>
    /\ conn'.window_size > conn.window_size =>
         /\ conn'.window_size = conn.window_size + 1
         /\ conn'.last_packet_acked > conn.last_packet_acked
    /\ conn'.window_size < conn.window_size =>
         /\ conn'.window_size = SLOW_START_INIT_WINDOW_SIZE
         /\ conn'.last_packet_sent = conn.last_packet_acked
         /\ \/ conn'.ssthresh = 2
            \/ 2 * conn'.ssthresh \in conn.window_size - 1 .. conn.window_size

\* Additive increase and multiplicative decrease: a step that enlarges the
\* window adds one, for an acknowledgement that is new; a step that shrinks
\* it goes back to the initial window, rewinds, and leaves a threshold of
\* half the window (2 at least).
WindowChanges == [][WindowStep]_vars

(* The detailed sender implements the abstract one.                        *)

Acked == IF Connected THEN conn.last_packet_acked ELSE 0
Sent  == IF Connected THEN conn.last_packet_sent  ELSE 0

GBN == INSTANCE GoBackN WITH N     <- CHUNK_DATA_NUM,
                             open  <- Connected,
                             acked <- Acked,
                             sent  <- Sent

\* Windows, timers and congestion control change when packets are sent,
\* never which ones: every connection is a go-back-N sender, which starts at
\* the first packet and never acknowledges or skips a packet it did not send.
GoBackNSender == GBN!Spec

(* Liveness.                                                               *)

HeardFromReceiver ==
  \E n \in 0 .. CHUNK_DATA_NUM :
    Connected /\ InWindow(conn, n) /\ ReceiveAck(n)

\* The slot of a receiver that crashed (or whose acknowledgements are all
\* lost or stale) is released: a connection that is never released keeps
\* receiving acknowledgements that fall in its window.
CrashedReceiverReleased ==
  \/ []<>~Connected
  \/ []<><<HeardFromReceiver>>_vars

\* A packet that is sent and not acknowledged does not wait for ever: it is
\* acknowledged, or the sender goes back to it, or the connection ends.
Unacknowledged(n) ==
  Connected /\ conn.last_packet_acked < n /\ n <= conn.last_packet_sent

LossRepaired ==
  \A n \in 1 .. CHUNK_DATA_NUM : Unacknowledged(n) ~> ~Unacknowledged(n)

=============================================================================
