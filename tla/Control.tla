------------------------------- MODULE Control -------------------------------
(***************************************************************************)
(* The sender's side of one transfer: the record                           *)
(* `struct provider_connection_s' (connection.h) and every function that   *)
(* changes it, the congestion control of control.c and the sliding window  *)
(* of connection.c.  Each C function is an operator that takes the         *)
(* connection and returns the connection it leaves behind; the modules     *)
(* that extend this one decide when the functions are called.              *)
(*                                                                         *)
(* Instants (`struct timeval') are modelled by their age, the value        *)
(* get_time_diff returns for them, in ticks: a field since_X is 0 when the *)
(* code stores the present time in X, grows with Elapse, and saturates at  *)
(* MaxAge, which lies beyond every timeout it is compared with.            *)
(***************************************************************************)
EXTENDS Integers

CONSTANTS
  CHUNK_DATA_NUM,                \* DATA packets of a chunk (512)
  SLOW_START_INIT_WINDOW_SIZE,   \* (1)
  DEFAULT_SLOW_START_THRESHOLD,  \* (64)
  DUPLICATE_ACK_NUM,             \* (3)
  DEFAULT_RTT_MS,                \* (2000)
  ACK_TIMEOUT,                   \* (500)
  PEER_CRASH_TIMEOUT,            \* (10000)
  MaxAge,                        \* bound: ages saturate here
  Chunk                          \* the chunks a node owns

ASSUME ControlAssumption ==
  /\ CHUNK_DATA_NUM \in Nat \ {0}
  /\ SLOW_START_INIT_WINDOW_SIZE \in Nat \ {0}
  /\ DEFAULT_SLOW_START_THRESHOLD \in Nat
  /\ SLOW_START_INIT_WINDOW_SIZE < DEFAULT_SLOW_START_THRESHOLD
  /\ DUPLICATE_ACK_NUM \in Nat \ {0, 1}
  /\ ACK_TIMEOUT \in Nat
  /\ PEER_CRASH_TIMEOUT \in Nat
  /\ ACK_TIMEOUT < PEER_CRASH_TIMEOUT
  /\ MaxAge \in Nat
  /\ PEER_CRASH_TIMEOUT < MaxAge
  /\ DEFAULT_RTT_MS \in 0 .. MaxAge - 1

SLOW_START == "slow_start"
CONGESTION_AVOIDANCE == "congestion_avoidance"
RTT_NOT_START == -1

Age == 0 .. MaxAge

ProviderConnection ==
  [ chunk             : Chunk,
    ssthresh          : Nat,
    window_size       : Nat,
    status            : {SLOW_START, CONGESTION_AVOIDANCE},
    num_duplicate_ack : 0 .. DUPLICATE_ACK_NUM - 1,
    last_packet_acked : 0 .. CHUNK_DATA_NUM,
    last_packet_sent  : 0 .. CHUNK_DATA_NUM,
    RTT               : Age,
    RTT_ack_num       : {RTT_NOT_START} \cup 1 .. CHUNK_DATA_NUM,
    since_RTT_sent    : Age,   \* RTT_data_sent_time
    since_increase    : Age,   \* CA_last_increase_time
    since_acked       : Age,   \* last_acked_received_time
    since_send        : Age ]  \* last_data_send_time

\* malloc_provider_connection and init_provider_connection.  The instant of
\* the RTT sample is left uninitialised by the code; it is not read before
\* send_data_packet stores it, so its first value is immaterial.
InitProviderConnection(chunk) ==
  [ chunk             |-> chunk,
    ssthresh          |-> DEFAULT_SLOW_START_THRESHOLD,
    window_size       |-> SLOW_START_INIT_WINDOW_SIZE,
    status            |-> SLOW_START,
    num_duplicate_ack |-> 0,
    last_packet_acked |-> 0,
    last_packet_sent  |-> 0,
    RTT               |-> DEFAULT_RTT_MS,
    RTT_ack_num       |-> RTT_NOT_START,
    since_RTT_sent    |-> 0,
    since_increase    |-> 0,
    since_acked       |-> 0,
    since_send        |-> 0 ]

-----------------------------------------------------------------------------
(* The passage of time: every stored instant grows older.                  *)

Older(age, dt) == IF age + dt < MaxAge THEN age + dt ELSE MaxAge

Elapse(c, dt) ==
  [c EXCEPT !.since_RTT_sent = Older(@, dt),
            !.since_increase = Older(@, dt),
            !.since_acked    = Older(@, dt),
            !.since_send     = Older(@, dt)]

-----------------------------------------------------------------------------
(* Congestion control (control.c).                                         *)

ChangeWindowSizeTo(c, new_size) == [c EXCEPT !.window_size = new_size]

ChangeConnectionStatus(c) ==
  [c EXCEPT !.status = IF c.window_size >= c.ssthresh
                         THEN CONGESTION_AVOIDANCE
                         ELSE SLOW_START]

HalvedThreshold(c) ==
  IF c.window_size \div 2 > 2 THEN c.window_size \div 2 ELSE 2

SlowStartIncrease(c) ==
  ChangeConnectionStatus(ChangeWindowSizeTo(c, c.window_size + 1))

SlowStartDecrease(c) ==
  ChangeConnectionStatus([c EXCEPT !.ssthresh = HalvedThreshold(c)])

CongestionControlIncrease(c) ==
  IF c.since_increase > c.RTT
    THEN [ChangeWindowSizeTo(c, c.window_size + 1) EXCEPT !.since_increase = 0]
    ELSE c

\* Faulty: the window falls to half its size, as after a fast recovery.
CongestionControlHalve(c) ==
  ChangeConnectionStatus(
    ChangeWindowSizeTo([c EXCEPT !.ssthresh = HalvedThreshold(c)],
                       HalvedThreshold(c)))

\* Faulty: the status is not recomputed after the restart.
CongestionControlDecreaseStatusKept(c) ==
  ChangeWindowSizeTo([c EXCEPT !.ssthresh = HalvedThreshold(c)],
                     SLOW_START_INIT_WINDOW_SIZE)

CongestionControlDecrease(c) ==
  ChangeConnectionStatus(
    ChangeWindowSizeTo([c EXCEPT !.ssthresh = HalvedThreshold(c)],
                       SLOW_START_INIT_WINDOW_SIZE))

ConnectionScaleUp(c) ==
  IF c.status = SLOW_START THEN SlowStartIncrease(c)
                           ELSE CongestionControlIncrease(c)

ConnectionScaleDown(c) ==
  IF c.status = SLOW_START THEN SlowStartDecrease(c)
                           ELSE CongestionControlDecrease(c)

ResetSenderBuffer(c) == [c EXCEPT !.last_packet_sent = c.last_packet_acked]

-----------------------------------------------------------------------------
(* Acknowledgements and timeouts (control.c).                              *)

SetRTT(c, ack_num) ==
  IF c.RTT_ack_num = RTT_NOT_START \/ c.RTT_ack_num # ack_num
    THEN c
    ELSE [c EXCEPT !.RTT = (c.RTT + c.since_RTT_sent) \div 2,
                   !.RTT_ack_num = RTT_NOT_START]

\* Faulty: the test for the last duplicate is off by one.
DuplicateAckLate(c) ==
  IF c.num_duplicate_ack + 1 > DUPLICATE_ACK_NUM
    THEN ResetSenderBuffer(
           ConnectionScaleDown([c EXCEPT !.num_duplicate_ack = 0]))
    ELSE [c EXCEPT !.num_duplicate_ack = @ + 1]

\* Faulty: a fast retransmission that does not go back.
DuplicateAckNoReset(c) ==
  IF c.num_duplicate_ack + 1 >= DUPLICATE_ACK_NUM
    THEN ConnectionScaleDown([c EXCEPT !.num_duplicate_ack = 0])
    ELSE [c EXCEPT !.num_duplicate_ack = @ + 1]

DuplicateAck(c) ==
  IF c.num_duplicate_ack + 1 >= DUPLICATE_ACK_NUM
    THEN ResetSenderBuffer(
           ConnectionScaleDown([c EXCEPT !.num_duplicate_ack = 0]))
    ELSE [c EXCEPT !.num_duplicate_ack = @ + 1]

NewAck(c, ack_number) ==
  ConnectionScaleUp([c EXCEPT !.num_duplicate_ack = 1,
                              !.last_packet_acked = ack_number])

\* Faulty: one of the two ends of the window is not tested.
NotBeyondWindow(c, ack_number) == ack_number <= c.last_packet_sent
NotBeforeWindow(c, ack_number) == ack_number >= c.last_packet_acked

\* An acknowledgement outside the window is ignored, but only after SetRTT
\* has looked at it.
InWindow(c, ack_number) ==
  ack_number \in c.last_packet_acked .. c.last_packet_sent

\* Faulty: an ignored acknowledgement also tells that the receiver lives.
ProviderControlByAnyAck(c, ack_number) ==
  LET s == SetRTT(c, ack_number)
      t == IF ack_number = s.last_packet_acked THEN DuplicateAck(s)
                                               ELSE NewAck(s, ack_number)
  IN  IF InWindow(c, ack_number) THEN [t EXCEPT !.since_acked = 0]
                                 ELSE [s EXCEPT !.since_acked = 0]

ProviderControlByAck(c, ack_number) ==
  LET s == SetRTT(c, ack_number)
      t == IF ack_number = s.last_packet_acked THEN DuplicateAck(s)
                                               ELSE NewAck(s, ack_number)
  IN  IF InWindow(c, ack_number) THEN [t EXCEPT !.since_acked = 0] ELSE s

\* Faulty: every packet that is sent puts the release off.
ReceiverCrashedSilent(c) ==
  c.since_acked > PEER_CRASH_TIMEOUT /\ c.since_send > PEER_CRASH_TIMEOUT

\* The first test of provider_control_by_timeout: the connection is released.
ReceiverCrashed(c) == c.since_acked > PEER_CRASH_TIMEOUT

\* Faulty: a timeout that shrinks the window but does not go back.
TimeoutNoReset(c) ==
  IF c.since_acked > ACK_TIMEOUT /\ c.since_send > ACK_TIMEOUT
    THEN ConnectionScaleDown(c)
    ELSE c

\* The rest of provider_control_by_timeout.
ProviderControlByTimeout(c) ==
  IF c.since_acked > ACK_TIMEOUT /\ c.since_send > ACK_TIMEOUT
    THEN ResetSenderBuffer(ConnectionScaleDown(c))
    ELSE c

-----------------------------------------------------------------------------
(* The sliding window (send_data_packet of connection.c).                  *)

CanSend(c) ==
  /\ c.last_packet_sent - c.last_packet_acked < c.window_size
  /\ c.last_packet_sent # CHUNK_DATA_NUM

\* The connection after it sent the packet numbered last_packet_sent + 1.
SendDataPacket(c) ==
  LET seq == c.last_packet_sent + 1
  IN  [c EXCEPT !.last_packet_sent = seq,
                !.since_send = 0,
                !.RTT_ack_num =
                   IF @ = RTT_NOT_START THEN seq ELSE @,
                !.since_RTT_sent =
                   IF c.RTT_ack_num = RTT_NOT_START THEN 0 ELSE @]

=============================================================================
