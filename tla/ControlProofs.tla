---------------------------- MODULE ControlProofs ----------------------------
(***************************************************************************)
(* What the functions of control.c, and the sliding window of              *)
(* connection.c, preserve of a provider's connection, for every size of    *)
(* chunk, window, threshold and timeout: one lemma for each function, that *)
(* it leaves a sound connection and how it moves the ends of the window,   *)
(* and one for what it does to the size of the window.                     *)
(***************************************************************************)
EXTENDS Control, TLAPS

\* A connection with its window never below its initial size and otherwise
\* as WindowRespected and StatusMatchesThreshold say.  The last packet may
\* be acknowledged: that is seen after the functions of control.c returned.
Sound(c) ==
  /\ c \in ProviderConnection
  /\ c.last_packet_acked <= c.last_packet_sent
  /\ c.last_packet_sent - c.last_packet_acked <= c.window_size
  /\ c.window_size >= SLOW_START_INIT_WINDOW_SIZE
  /\ c.window_size <= SLOW_START_INIT_WINDOW_SIZE + c.last_packet_acked
  /\ c.ssthresh >= 2 \/ c.ssthresh = DEFAULT_SLOW_START_THRESHOLD
  /\ c.status = CONGESTION_AVOIDANCE <=> c.window_size >= c.ssthresh

-----------------------------------------------------------------------------
\* init_provider_connection leaves a sound connection.
LEMMA InitSound ==
  ASSUME NEW chunk \in Chunk
  PROVE  Sound(InitProviderConnection(chunk))
BY ControlAssumption, SMT
DEF Sound, InitProviderConnection, ProviderConnection, Age, SLOW_START,
    CONGESTION_AVOIDANCE, RTT_NOT_START

\* Time does not harm a connection.
LEMMA ElapseSound ==
  ASSUME NEW c, Sound(c), NEW dt \in {0, 1}
  PROVE  /\ Sound(Elapse(c, dt))
         /\ Elapse(c, dt).last_packet_acked = c.last_packet_acked
         /\ Elapse(c, dt).last_packet_sent = c.last_packet_sent
<1> DEFINE c1 == [c  EXCEPT !.since_RTT_sent = Older(@, dt)]
           c2 == [c1 EXCEPT !.since_increase = Older(@, dt)]
           c3 == [c2 EXCEPT !.since_acked    = Older(@, dt)]
           c4 == [c3 EXCEPT !.since_send     = Older(@, dt)]
<1> HIDE DEF c1, c2, c3, c4
<1>1. \A age \in Age : Older(age, dt) \in Age
  BY ControlAssumption, SMT DEF Older, Age
<1>2. /\ Sound(c1)
      /\ c1.last_packet_acked = c.last_packet_acked
      /\ c1.last_packet_sent = c.last_packet_sent
  BY <1>1, SMT DEF c1, Sound, ProviderConnection
<1>3. /\ Sound(c2)
      /\ c2.last_packet_acked = c.last_packet_acked
      /\ c2.last_packet_sent = c.last_packet_sent
  BY <1>1, <1>2, SMT DEF c2, Sound, ProviderConnection
<1>4. /\ Sound(c3)
      /\ c3.last_packet_acked = c.last_packet_acked
      /\ c3.last_packet_sent = c.last_packet_sent
  BY <1>1, <1>3, SMT DEF c3, Sound, ProviderConnection
<1>5. /\ Sound(c4)
      /\ c4.last_packet_acked = c.last_packet_acked
      /\ c4.last_packet_sent = c.last_packet_sent
  BY <1>1, <1>4, SMT DEF c4, Sound, ProviderConnection
<1>6. Elapse(c, dt) = c4
  BY DEF Elapse, c1, c2, c3, c4
<1> QED
  BY <1>2, <1>3, <1>4, <1>5, <1>6

\* A round-trip sample stays within the range of the ages it is made of.
LEMMA SetRTTSound ==
  ASSUME NEW c, Sound(c), NEW n \in 0 .. CHUNK_DATA_NUM
  PROVE  /\ Sound(SetRTT(c, n))
         /\ SetRTT(c, n).last_packet_acked = c.last_packet_acked
         /\ SetRTT(c, n).last_packet_sent = c.last_packet_sent
         /\ SetRTT(c, n).window_size = c.window_size
<1> DEFINE r == (c.RTT + c.since_RTT_sent) \div 2
           e == [c EXCEPT !.RTT = r]
           d == [e EXCEPT !.RTT_ack_num = RTT_NOT_START]
<1>1. r \in Age
  <2>1. c.RTT \in Age /\ c.since_RTT_sent \in Age
    BY DEF Sound, ProviderConnection
  <2> QED
    BY <2>1, ControlAssumption, SMT DEF Age
<1> HIDE DEF r, e, d
<1>2. /\ Sound(e)
      /\ e.last_packet_acked = c.last_packet_acked
      /\ e.last_packet_sent = c.last_packet_sent
      /\ e.window_size = c.window_size
  BY <1>1, SMT DEF e, Sound, ProviderConnection
<1>3. /\ Sound(d)
      /\ d.last_packet_acked = c.last_packet_acked
      /\ d.last_packet_sent = c.last_packet_sent
      /\ d.window_size = c.window_size
  BY <1>2, SMT DEF d, Sound, ProviderConnection
<1>4. SetRTT(c, n) \in {c, d}
  BY DEF SetRTT, d, e, r
<1> QED
  BY <1>3, <1>4

-----------------------------------------------------------------------------
\* change_connection_status makes the status agree with the threshold and
\* leaves everything else as it is.
LEMMA ChangeConnectionStatusAgrees ==
  ASSUME NEW c \in ProviderConnection
  PROVE  LET d == ChangeConnectionStatus(c)
         IN  /\ d \in ProviderConnection
             /\ d.status = CONGESTION_AVOIDANCE <=> d.window_size >= d.ssthresh
             /\ d.window_size = c.window_size
             /\ d.ssthresh = c.ssthresh
             /\ d.last_packet_acked = c.last_packet_acked
             /\ d.last_packet_sent = c.last_packet_sent
BY SMT DEF ChangeConnectionStatus, ProviderConnection, SLOW_START,
           CONGESTION_AVOIDANCE

\* The reaction to a loss, connection_scale_down then reset_sender_buffer:
\* between the two calls the window may be smaller than what is in flight.
Rewind(c) == ResetSenderBuffer(ConnectionScaleDown(c))

\* connection_scale_down leaves the window or restarts it.
LEMMA ScaleDown ==
  ASSUME NEW c, Sound(c)
  PROVE  LET d == ConnectionScaleDown(c)
         IN  /\ d \in ProviderConnection
             /\ d.status = CONGESTION_AVOIDANCE <=> d.window_size >= d.ssthresh
             /\ d.ssthresh = HalvedThreshold(c)
             /\ d.window_size \in {c.window_size, SLOW_START_INIT_WINDOW_SIZE}
             /\ d.last_packet_acked = c.last_packet_acked
             /\ d.last_packet_sent = c.last_packet_sent
<1> DEFINE h == HalvedThreshold(c)
           s == [c EXCEPT !.ssthresh = h]
           w == [s EXCEPT !.window_size = SLOW_START_INIT_WINDOW_SIZE]
<1>1. h \in Nat
  BY SMT DEF HalvedThreshold, Sound, ProviderConnection
<1> HIDE DEF h, s, w
<1>2. /\ s \in ProviderConnection
      /\ s.ssthresh = h
      /\ s.window_size = c.window_size
      /\ s.last_packet_acked = c.last_packet_acked
      /\ s.last_packet_sent = c.last_packet_sent
  BY <1>1, SMT DEF s, Sound, ProviderConnection
<1>3. /\ w \in ProviderConnection
      /\ w.ssthresh = h
      /\ w.window_size = SLOW_START_INIT_WINDOW_SIZE
      /\ w.last_packet_acked = c.last_packet_acked
      /\ w.last_packet_sent = c.last_packet_sent
  BY <1>2, ControlAssumption, SMT DEF w, ProviderConnection
<1>4. ConnectionScaleDown(c) \in
        {ChangeConnectionStatus(s), ChangeConnectionStatus(w)}
  BY DEF ConnectionScaleDown, SlowStartDecrease, CongestionControlDecrease,
         ChangeWindowSizeTo, h, s, w
<1> QED
  BY <1>2, <1>3, <1>4, ChangeConnectionStatusAgrees DEF h

\* The reaction to a loss leaves a sound connection that has gone back.
LEMMA RewindSound ==
  ASSUME NEW c, Sound(c)
  PROVE  /\ Sound(Rewind(c))
         /\ Rewind(c).last_packet_acked = c.last_packet_acked
         /\ Rewind(c).last_packet_sent = c.last_packet_acked
<1> DEFINE d == ConnectionScaleDown(c)
<1>1. HalvedThreshold(c) >= 2
  BY SMT DEF HalvedThreshold, Sound, ProviderConnection
<1>2. /\ d \in ProviderConnection
      /\ d.status = CONGESTION_AVOIDANCE <=> d.window_size >= d.ssthresh
      /\ d.ssthresh >= 2
      /\ d.window_size \in {c.window_size, SLOW_START_INIT_WINDOW_SIZE}
      /\ d.last_packet_acked = c.last_packet_acked
  BY <1>1, ScaleDown
<1> HIDE DEF d
<1>3. Rewind(c) = [d EXCEPT !.last_packet_sent = d.last_packet_acked]
  BY DEF Rewind, ResetSenderBuffer, d
<1> QED
  BY <1>2, <1>3, ControlAssumption, SMT DEF Sound, ProviderConnection

\* The reaction to a new acknowledgement, connection_scale_up: the window
\* may grow because one more packet was acknowledged.
LEMMA ScaleUpSound ==
  ASSUME NEW c, Sound(c),
         c.window_size < SLOW_START_INIT_WINDOW_SIZE + c.last_packet_acked
  PROVE  /\ Sound(ConnectionScaleUp(c))
         /\ ConnectionScaleUp(c).last_packet_acked = c.last_packet_acked
         /\ ConnectionScaleUp(c).last_packet_sent = c.last_packet_sent
<1> DEFINE w == [c EXCEPT !.window_size = c.window_size + 1]
           t == [w EXCEPT !.since_increase = 0]
<1> HIDE DEF w, t
<1>1. /\ w \in ProviderConnection
      /\ w.window_size = c.window_size + 1
      /\ w.ssthresh = c.ssthresh
      /\ w.status = c.status
      /\ w.last_packet_acked = c.last_packet_acked
      /\ w.last_packet_sent = c.last_packet_sent
  BY SMT DEF w, Sound, ProviderConnection
<1>2. CASE c.status = SLOW_START
  <2>1. ConnectionScaleUp(c) = ChangeConnectionStatus(w)
    BY <1>2 DEF ConnectionScaleUp, SlowStartIncrease, ChangeWindowSizeTo, w
  <2>2. /\ ChangeConnectionStatus(w) \in ProviderConnection
        /\ ChangeConnectionStatus(w).status = CONGESTION_AVOIDANCE
             <=> ChangeConnectionStatus(w).window_size
                   >= ChangeConnectionStatus(w).ssthresh
        /\ ChangeConnectionStatus(w).window_size = c.window_size + 1
        /\ ChangeConnectionStatus(w).ssthresh = c.ssthresh
        /\ ChangeConnectionStatus(w).last_packet_acked = c.last_packet_acked
        /\ ChangeConnectionStatus(w).last_packet_sent = c.last_packet_sent
    BY <1>1, ChangeConnectionStatusAgrees
  <2>3. /\ c.window_size \in Nat
        /\ c.last_packet_acked \in Nat
        /\ c.last_packet_sent \in Nat
    BY ControlAssumption, SMT DEF Sound, ProviderConnection
  <2> QED
    BY <2>1, <2>2, <2>3, ControlAssumption, SMT DEF Sound
<1>3. CASE c.status # SLOW_START
  <2>1. c.status = CONGESTION_AVOIDANCE
    BY <1>3 DEF Sound, ProviderConnection
  <2>2. Sound(w)
    BY <1>1, <2>1, ControlAssumption, SMT DEF Sound, ProviderConnection
  <2>3. /\ Sound(t)
        /\ t.last_packet_acked = c.last_packet_acked
        /\ t.last_packet_sent = c.last_packet_sent
    BY <1>1, <2>2, ControlAssumption, SMT DEF t, Sound, ProviderConnection, Age
  <2>4. ConnectionScaleUp(c) \in {c, t}
    BY <1>3 DEF ConnectionScaleUp, CongestionControlIncrease,
                ChangeWindowSizeTo, w, t
  <2> QED
    BY <2>3, <2>4
<1> QED
  BY <1>2, <1>3

\* A new acknowledgement in the window moves the acknowledged prefix to it.
LEMMA NewAckSound ==
  ASSUME NEW c, Sound(c),
         NEW n \in c.last_packet_acked .. c.last_packet_sent,
         n # c.last_packet_acked
  PROVE  /\ Sound(NewAck(c, n))
         /\ NewAck(c, n).last_packet_acked = n
         /\ NewAck(c, n).last_packet_sent = c.last_packet_sent
<1> DEFINE d == [c EXCEPT !.num_duplicate_ack = 1]
           e == [d EXCEPT !.last_packet_acked = n]
<1> HIDE DEF d, e
<1>1. /\ Sound(d)
      /\ d.last_packet_acked = c.last_packet_acked
      /\ d.last_packet_sent = c.last_packet_sent
  BY ControlAssumption, SMT DEF d, Sound, ProviderConnection
<1>2. /\ Sound(e)
      /\ e.window_size < SLOW_START_INIT_WINDOW_SIZE + e.last_packet_acked
      /\ e.last_packet_acked = n
      /\ e.last_packet_sent = c.last_packet_sent
  BY <1>1, ControlAssumption, SMT DEF e, Sound, ProviderConnection
<1>3. NewAck(c, n) = ConnectionScaleUp(e)
  BY DEF NewAck, e, d
<1> QED
  BY <1>2, <1>3, ScaleUpSound

\* A duplicate acknowledgement is counted or makes the sender go back.
LEMMA DuplicateAckSound ==
  ASSUME NEW c, Sound(c)
  PROVE  /\ Sound(DuplicateAck(c))
         /\ DuplicateAck(c).last_packet_acked = c.last_packet_acked
         /\ DuplicateAck(c).last_packet_sent \in
              {c.last_packet_sent, c.last_packet_acked}
<1> DEFINE d == [c EXCEPT !.num_duplicate_ack = 0]
           e == [c EXCEPT !.num_duplicate_ack = c.num_duplicate_ack + 1]
<1> HIDE DEF d, e
<1>1. Sound(d) /\ d.last_packet_acked = c.last_packet_acked
  BY ControlAssumption, SMT DEF d, Sound, ProviderConnection
<1>2. CASE c.num_duplicate_ack + 1 >= DUPLICATE_ACK_NUM
  <2>1. DuplicateAck(c) = Rewind(d)
    BY <1>2 DEF DuplicateAck, Rewind, d
  <2> QED
    BY <1>1, <2>1, RewindSound
<1>3. CASE ~(c.num_duplicate_ack + 1 >= DUPLICATE_ACK_NUM)
  <2>1. DuplicateAck(c) = e
    BY <1>3 DEF DuplicateAck, e
  <2>2. c.num_duplicate_ack + 1 \in 0 .. DUPLICATE_ACK_NUM - 1
    BY <1>3, ControlAssumption, SMT DEF Sound, ProviderConnection
  <2>3. /\ Sound(e)
        /\ e.last_packet_acked = c.last_packet_acked
        /\ e.last_packet_sent = c.last_packet_sent
    BY <2>2, SMT DEF e, Sound, ProviderConnection
  <2> QED
    BY <2>1, <2>3
<1> QED
  BY <1>2, <1>3

\* What an acknowledgement does, as the abstract sender sees it: nothing,
\* one step back, or a move of the acknowledged prefix.
LEMMA ProviderControlByAckSound ==
  ASSUME NEW c, Sound(c), NEW n \in 0 .. CHUNK_DATA_NUM
  PROVE  LET d == ProviderControlByAck(c, n)
         IN  /\ Sound(d)
             /\ \/ /\ d.last_packet_acked = c.last_packet_acked
                   /\ d.last_packet_sent \in
                        {c.last_packet_sent, c.last_packet_acked}
                \/ /\ d.last_packet_acked = n
                   /\ n \in c.last_packet_acked + 1 .. c.last_packet_sent
                   /\ d.last_packet_sent = c.last_packet_sent
<1> DEFINE s == SetRTT(c, n)
           t == IF n = s.last_packet_acked THEN DuplicateAck(s)
                                           ELSE NewAck(s, n)
           r == [t EXCEPT !.since_acked = 0]
<1>1. /\ Sound(s)
      /\ s.last_packet_acked = c.last_packet_acked
      /\ s.last_packet_sent = c.last_packet_sent
  BY SetRTTSound
<1> HIDE DEF s, t, r
<1>2. CASE ~InWindow(c, n)
  <2>1. ProviderControlByAck(c, n) = s
    BY <1>2 DEF ProviderControlByAck, s
  <2> QED
    BY <1>1, <2>1
<1>3. CASE InWindow(c, n)
  <2>1. ProviderControlByAck(c, n) = r
    BY <1>3 DEF ProviderControlByAck, r, t, s
  <2>2. Sound(t) => /\ Sound(r)
                    /\ r.last_packet_acked = t.last_packet_acked
                    /\ r.last_packet_sent = t.last_packet_sent
    BY ControlAssumption, SMT DEF r, Sound, ProviderConnection, Age
  <2>3. CASE n = s.last_packet_acked
    <3>1. t = DuplicateAck(s)
      BY <2>3 DEF t
    <3> QED
      BY <1>1, <2>1, <2>2, <3>1, DuplicateAckSound
  <2>4. CASE n # s.last_packet_acked
    <3>1. t = NewAck(s, n)
      BY <2>4 DEF t
    <3>2. n \in s.last_packet_acked .. s.last_packet_sent
      BY <1>1, <1>3 DEF InWindow
    <3>3. n \in c.last_packet_acked + 1 .. c.last_packet_sent
      BY <1>1, <2>4, <3>2, ControlAssumption, SMT DEF Sound, ProviderConnection
    <3>4. /\ Sound(t)
          /\ t.last_packet_acked = n
          /\ t.last_packet_sent = s.last_packet_sent
      BY <1>1, <2>4, <3>1, <3>2, NewAckSound
    <3> QED
      BY <1>1, <2>1, <2>2, <3>3, <3>4
  <2> QED
    BY <2>3, <2>4
<1> QED
  BY <1>2, <1>3

\* What a timeout does: nothing, or one step back.
LEMMA ProviderControlByTimeoutSound ==
  ASSUME NEW c, Sound(c)
  PROVE  LET d == ProviderControlByTimeout(c)
         IN  /\ Sound(d)
             /\ d.last_packet_acked = c.last_packet_acked
             /\ d.last_packet_sent \in
                  {c.last_packet_sent, c.last_packet_acked}
<1>1. ProviderControlByTimeout(c) \in {c, Rewind(c)}
  BY DEF ProviderControlByTimeout, Rewind
<1> QED
  BY <1>1, RewindSound

\* What send_data_packet does when the window allows it.
LEMMA SendDataPacketSound ==
  ASSUME NEW c, Sound(c), CanSend(c)
  PROVE  LET d == SendDataPacket(c)
         IN  /\ Sound(d)
             /\ d.last_packet_acked = c.last_packet_acked
             /\ d.last_packet_sent = c.last_packet_sent + 1
             /\ c.last_packet_sent < CHUNK_DATA_NUM
<1> DEFINE seq == c.last_packet_sent + 1
           c1 == [c EXCEPT !.last_packet_sent = seq]
           c2 == [c1 EXCEPT !.since_send = 0]
           c3 == [c2 EXCEPT !.RTT_ack_num =
                              IF @ = RTT_NOT_START THEN seq ELSE @]
           c4 == [c3 EXCEPT !.since_RTT_sent =
                              IF c.RTT_ack_num = RTT_NOT_START THEN 0 ELSE @]
<1>1. /\ c.last_packet_sent < CHUNK_DATA_NUM
      /\ seq \in 1 .. CHUNK_DATA_NUM
      /\ seq - c.last_packet_acked <= c.window_size
      /\ c.last_packet_acked <= seq
  BY ControlAssumption, SMT DEF CanSend, Sound, ProviderConnection
<1> HIDE DEF seq, c1, c2, c3, c4
<1>2. /\ Sound(c1)
      /\ c1.last_packet_acked = c.last_packet_acked
      /\ c1.last_packet_sent = seq
  BY <1>1, SMT DEF c1, Sound, ProviderConnection
<1>3. /\ Sound(c2)
      /\ c2.last_packet_acked = c.last_packet_acked
      /\ c2.last_packet_sent = seq
  BY <1>2, ControlAssumption, SMT DEF c2, Sound, ProviderConnection, Age
<1>4. /\ Sound(c3)
      /\ c3.last_packet_acked = c.last_packet_acked
      /\ c3.last_packet_sent = seq
  BY <1>1, <1>3, SMT DEF c3, Sound, ProviderConnection
<1>5. /\ Sound(c4)
      /\ c4.last_packet_acked = c.last_packet_acked
      /\ c4.last_packet_sent = seq
  BY <1>4, ControlAssumption, SMT DEF c4, Sound, ProviderConnection, Age
<1>6. SendDataPacket(c) = c4
  BY DEF SendDataPacket, c4, c3, c2, c1, seq
<1> QED
  BY <1>1, <1>5, <1>6 DEF seq

-----------------------------------------------------------------------------
(* How the window changes.  The same functions once more, by what they are *)
(* given and what they leave: each keeps the window, or grows it by one    *)
(* for a new acknowledgement, or restarts it and goes back.                *)

\* What a step may change of the window.
WindowChange(c, d) ==
  /\ d.window_size > c.window_size =>
       /\ d.window_size = c.window_size + 1
       /\ d.last_packet_acked > c.last_packet_acked
  /\ d.window_size < c.window_size =>
       /\ d.window_size = SLOW_START_INIT_WINDOW_SIZE
       /\ d.last_packet_sent = c.last_packet_acked
       /\ \/ d.ssthresh = 2
          \/ 2 * d.ssthresh \in c.window_size - 1 .. c.window_size

\* A function that leaves the window alone.
LEMMA SameWindow ==
  ASSUME NEW c, Sound(c), NEW d, d.window_size = c.window_size
  PROVE  WindowChange(c, d)
<1>1. c.window_size \in Nat
  BY DEF Sound, ProviderConnection
<1> QED
  BY <1>1, SMT DEF WindowChange

\* A window that shrinks leaves half of it in the threshold, or the least
\* value a threshold may have.
LEMMA RewindWindow ==
  ASSUME NEW c, Sound(c)
  PROVE  WindowChange(c, Rewind(c))
<1> DEFINE d == ConnectionScaleDown(c)
<1>1. /\ d \in ProviderConnection
      /\ d.ssthresh = HalvedThreshold(c)
      /\ d.window_size \in {c.window_size, SLOW_START_INIT_WINDOW_SIZE}
      /\ d.last_packet_acked = c.last_packet_acked
  BY ScaleDown
<1> HIDE DEF d
<1>2. Rewind(c) = [d EXCEPT !.last_packet_sent = d.last_packet_acked]
  BY DEF Rewind, ResetSenderBuffer, d
<1>3. /\ Rewind(c).ssthresh = HalvedThreshold(c)
      /\ Rewind(c).window_size \in {c.window_size, SLOW_START_INIT_WINDOW_SIZE}
      /\ Rewind(c).last_packet_sent = c.last_packet_acked
  BY <1>1, <1>2, SMT DEF ProviderConnection
<1>4. /\ c.window_size \in Nat
      /\ SLOW_START_INIT_WINDOW_SIZE \in Nat
      /\ c.window_size >= SLOW_START_INIT_WINDOW_SIZE
  BY ControlAssumption DEF Sound, ProviderConnection
<1>5. \/ HalvedThreshold(c) = 2
      \/ 2 * HalvedThreshold(c) \in c.window_size - 1 .. c.window_size
  BY <1>4, SMT DEF HalvedThreshold
<1> QED
  BY <1>3, <1>4, <1>5, SMT DEF WindowChange

\* connection_scale_up adds one packet or none.
LEMMA ScaleUpWindow ==
  ASSUME NEW c \in ProviderConnection
  PROVE  ConnectionScaleUp(c).window_size \in
           {c.window_size, c.window_size + 1}
<1> DEFINE w == [c EXCEPT !.window_size = c.window_size + 1]
           t == [w EXCEPT !.since_increase = 0]
<1> HIDE DEF w, t
<1>1. w \in ProviderConnection /\ w.window_size = c.window_size + 1
  BY SMT DEF w, ProviderConnection
<1>2. t.window_size = c.window_size + 1
  BY <1>1, SMT DEF t, ProviderConnection
<1>3. ConnectionScaleUp(c) \in {ChangeConnectionStatus(w), c, t}
  BY DEF ConnectionScaleUp, SlowStartIncrease, CongestionControlIncrease,
         ChangeWindowSizeTo, w, t
<1> QED
  BY <1>1, <1>2, <1>3, ChangeConnectionStatusAgrees

\* A new acknowledgement adds one packet to the window at most.
LEMMA NewAckWindow ==
  ASSUME NEW c, Sound(c),
         NEW n \in c.last_packet_acked .. c.last_packet_sent,
         n # c.last_packet_acked
  PROVE  WindowChange(c, NewAck(c, n))
<1> DEFINE d == [c EXCEPT !.num_duplicate_ack = 1]
           e == [d EXCEPT !.last_packet_acked = n]
<1> HIDE DEF d, e
<1>1. d \in ProviderConnection /\ d.window_size = c.window_size
  BY ControlAssumption, SMT DEF d, Sound, ProviderConnection
<1>2. e \in ProviderConnection /\ e.window_size = c.window_size
  BY <1>1, ControlAssumption, SMT DEF e, Sound, ProviderConnection
<1>3. NewAck(c, n).window_size \in {c.window_size, c.window_size + 1}
  BY <1>2, ScaleUpWindow DEF NewAck, d, e
<1>4. NewAck(c, n).last_packet_acked > c.last_packet_acked
  <2>1. NewAck(c, n).last_packet_acked = n
    BY NewAckSound
  <2>2. n > c.last_packet_acked
    BY ControlAssumption, SMT DEF Sound, ProviderConnection
  <2> QED
    BY <2>1, <2>2
<1>5. c.window_size \in Nat
  BY DEF Sound, ProviderConnection
<1> QED
  BY <1>3, <1>4, <1>5, SMT DEF WindowChange

\* A duplicate acknowledgement leaves the window or restarts it.
LEMMA DuplicateAckWindow ==
  ASSUME NEW c, Sound(c)
  PROVE  WindowChange(c, DuplicateAck(c))
<1> DEFINE d == [c EXCEPT !.num_duplicate_ack = 0]
           e == [c EXCEPT !.num_duplicate_ack = c.num_duplicate_ack + 1]
<1> HIDE DEF d, e
<1>1. /\ Sound(d)
      /\ d.window_size = c.window_size
      /\ d.last_packet_acked = c.last_packet_acked
  BY ControlAssumption, SMT DEF d, Sound, ProviderConnection
<1>2. WindowChange(c, Rewind(d))
  BY <1>1, RewindWindow DEF WindowChange
<1>3. WindowChange(c, e)
  <2>1. e.window_size = c.window_size
    BY SMT DEF e, Sound, ProviderConnection
  <2> QED
    BY <2>1, SameWindow
<1>4. DuplicateAck(c) \in {Rewind(d), e}
  BY DEF DuplicateAck, Rewind, d, e
<1> QED
  BY <1>2, <1>3, <1>4

\* provider_control_by_ack changes the window by one of its two branches.
LEMMA ProviderControlByAckWindow ==
  ASSUME NEW c, Sound(c), NEW n \in 0 .. CHUNK_DATA_NUM
  PROVE  WindowChange(c, ProviderControlByAck(c, n))
<1> DEFINE s == SetRTT(c, n)
           t == IF n = s.last_packet_acked THEN DuplicateAck(s)
                                           ELSE NewAck(s, n)
           r == [t EXCEPT !.since_acked = 0]
<1>1. /\ Sound(s)
      /\ s.last_packet_acked = c.last_packet_acked
      /\ s.last_packet_sent = c.last_packet_sent
      /\ s.window_size = c.window_size
  BY SetRTTSound
<1> HIDE DEF s, t, r
<1>2. CASE ~InWindow(c, n)
  BY <1>1, <1>2, SameWindow DEF ProviderControlByAck, s
<1>3. CASE InWindow(c, n)
  <2>1. n \in s.last_packet_acked .. s.last_packet_sent
    BY <1>1, <1>3 DEF InWindow
  <2>2. Sound(t) /\ WindowChange(s, t)
    BY <1>1, <2>1, DuplicateAckSound, DuplicateAckWindow, NewAckSound,
       NewAckWindow DEF t
  <2>3. /\ r.window_size = t.window_size
        /\ r.ssthresh = t.ssthresh
        /\ r.last_packet_acked = t.last_packet_acked
        /\ r.last_packet_sent = t.last_packet_sent
    BY <2>2, SMT DEF r, Sound, ProviderConnection
  <2>4. ProviderControlByAck(c, n) = r
    BY <1>3 DEF ProviderControlByAck, r, t, s
  <2> QED
    BY <1>1, <2>2, <2>3, <2>4 DEF WindowChange
<1> QED
  BY <1>2, <1>3

\* Time leaves the window alone.
LEMMA ElapseWindow ==
  ASSUME NEW c \in ProviderConnection, NEW dt
  PROVE  Elapse(c, dt).window_size = c.window_size
BY SMT DEF Elapse, ProviderConnection

\* Sending leaves the window alone.
LEMMA SendDataPacketWindow ==
  ASSUME NEW c \in ProviderConnection
  PROVE  SendDataPacket(c).window_size = c.window_size
BY SMT DEF SendDataPacket, ProviderConnection

-----------------------------------------------------------------------------
(* What the functions keep: the chunk, and the time of the last            *)
(* acknowledgement, which only provider_control_by_ack stores.             *)

\* The step does not change the chunk, nor when it was last acknowledged.
SameTransfer(c, d) == d.chunk = c.chunk /\ d.since_acked = c.since_acked

\* The functions that change the window are about the same transfer.
LEMMA ScaleSame ==
  ASSUME NEW c \in ProviderConnection
  PROVE  /\ SameTransfer(c, Rewind(c))
         /\ SameTransfer(c, ConnectionScaleUp(c))
<1> DEFINE s == [c EXCEPT !.ssthresh = HalvedThreshold(c)]
           r == [s EXCEPT !.window_size = SLOW_START_INIT_WINDOW_SIZE]
           w == [c EXCEPT !.window_size = c.window_size + 1]
           t == [w EXCEPT !.since_increase = 0]
           changed(d) == [d EXCEPT !.status =
                            IF d.window_size >= d.ssthresh
                              THEN CONGESTION_AVOIDANCE ELSE SLOW_START]
           back(d) == [d EXCEPT !.last_packet_sent = d.last_packet_acked]
<1>1. \A d : {"chunk", "since_acked"} \subseteq DOMAIN d =>
        /\ SameTransfer(d, changed(d))
        /\ {"chunk", "since_acked"} \subseteq DOMAIN changed(d)
        /\ SameTransfer(d, back(d))
  BY DEF SameTransfer
<1>2. DOMAIN c = DOMAIN [chunk |-> 0, ssthresh |-> 0, window_size |-> 0,
                         status |-> 0, num_duplicate_ack |-> 0,
                         last_packet_acked |-> 0, last_packet_sent |-> 0,
                         RTT |-> 0, RTT_ack_num |-> 0, since_RTT_sent |-> 0,
                         since_increase |-> 0, since_acked |-> 0,
                         since_send |-> 0]
  BY DEF ProviderConnection
<1>3. \A d \in {c, s, r, w, t} :
        SameTransfer(c, d) /\ {"chunk", "since_acked"} \subseteq DOMAIN d
  BY <1>2 DEF SameTransfer
<1>4. Rewind(c) \in {back(changed(s)), back(changed(r))}
  BY DEF Rewind, ResetSenderBuffer, ConnectionScaleDown, SlowStartDecrease,
         CongestionControlDecrease, ChangeWindowSizeTo, ChangeConnectionStatus
<1>5. ConnectionScaleUp(c) \in {changed(w), t, c}
  BY DEF ConnectionScaleUp, SlowStartIncrease, CongestionControlIncrease,
         ChangeWindowSizeTo, ChangeConnectionStatus
<1> HIDE DEF s, r, w, t, changed, back
<1> QED
  BY <1>1, <1>3, <1>4, <1>5 DEF SameTransfer

\* provider_control_by_ack goes on with the chunk; an acknowledgement of
\* packets in flight is always taken, and noted.
LEMMA ProviderControlByAckSame ==
  ASSUME NEW c, Sound(c), NEW n \in 0 .. CHUNK_DATA_NUM
  PROVE  LET d == ProviderControlByAck(c, n)
         IN  /\ d.chunk = c.chunk
             /\ d.since_acked \in {0, c.since_acked}
             /\ n \in c.last_packet_acked + 1 .. c.last_packet_sent =>
                  d.last_packet_acked = n /\ d.since_acked = 0
<1> DEFINE s == SetRTT(c, n)
           t == IF n = s.last_packet_acked THEN DuplicateAck(s)
                                           ELSE NewAck(s, n)
           r == [t EXCEPT !.since_acked = 0]
<1>1. /\ Sound(s)
      /\ s.last_packet_acked = c.last_packet_acked
      /\ s.last_packet_sent = c.last_packet_sent
  BY SetRTTSound
<1>2. SameTransfer(c, s)
  BY DEF SameTransfer, SetRTT, Sound, ProviderConnection
<1>3. InWindow(c, n) <=> n \in c.last_packet_acked .. c.last_packet_sent
  BY DEF InWindow
<1> HIDE DEF s, t, r
<1>4. CASE ~InWindow(c, n)
  <2>1. ProviderControlByAck(c, n) = s
    BY <1>4 DEF ProviderControlByAck, s
  <2>2. c.last_packet_acked \in Nat /\ c.last_packet_sent \in Nat
    BY ControlAssumption DEF Sound, ProviderConnection
  <2>3. ~(n \in c.last_packet_acked + 1 .. c.last_packet_sent)
    BY <1>3, <1>4, <2>2
  <2> QED
    BY <1>2, <2>1, <2>3 DEF SameTransfer
<1>5. CASE InWindow(c, n)
  <2>1. ProviderControlByAck(c, n) = r
    BY <1>5 DEF ProviderControlByAck, r, t, s
  <2>2. CASE n = s.last_packet_acked
    <3> DEFINE d == [s EXCEPT !.num_duplicate_ack = 0]
               e == [s EXCEPT !.num_duplicate_ack = s.num_duplicate_ack + 1]
    <3>1. t \in {Rewind(d), e}
      BY <2>2 DEF t, DuplicateAck, Rewind
    <3>2. Sound(t)
      BY <1>1, <2>2, DuplicateAckSound DEF t
    <3>3. /\ d \in ProviderConnection
          /\ SameTransfer(s, d)
          /\ SameTransfer(s, e)
      BY <1>1, ControlAssumption DEF SameTransfer, Sound, ProviderConnection
    <3>4. SameTransfer(s, t)
      <4> HIDE DEF d, e
      <4> QED
        BY <3>1, <3>3, ScaleSame DEF SameTransfer
    <3>5. r.chunk = t.chunk /\ r.since_acked = 0
      BY <3>2 DEF r, Sound, ProviderConnection
    <3>6. ~(n \in c.last_packet_acked + 1 .. c.last_packet_sent)
      <4>1. c.last_packet_acked \in Nat
        BY ControlAssumption DEF Sound, ProviderConnection
      <4> QED
        BY <1>1, <2>2, <4>1
    <3> QED
      BY <1>2, <2>1, <3>4, <3>5, <3>6 DEF SameTransfer
  <2>3. CASE n # s.last_packet_acked
    <3>1. t = NewAck(s, n)
      BY <2>3 DEF t
    <3>2. n \in s.last_packet_acked .. s.last_packet_sent
      BY <1>1, <1>3, <1>5
    <3>3. Sound(t) /\ t.last_packet_acked = n
      BY <1>1, <2>3, <3>1, <3>2, NewAckSound
    <3> DEFINE d == [s EXCEPT !.num_duplicate_ack = 1]
               e == [d EXCEPT !.last_packet_acked = n]
    <3>4. d \in ProviderConnection /\ SameTransfer(s, d)
      BY <1>1, ControlAssumption DEF SameTransfer, Sound, ProviderConnection
    <3> HIDE DEF d
    <3>5. e \in ProviderConnection /\ SameTransfer(s, e)
      BY <3>4 DEF SameTransfer, ProviderConnection
    <3>6. t = ConnectionScaleUp(e)
      BY <3>1 DEF NewAck, d
    <3> HIDE DEF e
    <3>7. SameTransfer(s, t)
      BY <3>5, <3>6, ScaleSame DEF SameTransfer
    <3>8. r.chunk = t.chunk /\ r.since_acked = 0 /\ r.last_packet_acked = n
      BY <3>3 DEF r, Sound, ProviderConnection
    <3> QED
      BY <1>2, <2>1, <3>7, <3>8 DEF SameTransfer
  <2> QED
    BY <2>2, <2>3
<1> QED
  BY <1>4, <1>5

\* So does the rest of provider_control_by_timeout.
LEMMA ProviderControlByTimeoutSame ==
  ASSUME NEW c \in ProviderConnection
  PROVE  SameTransfer(c, ProviderControlByTimeout(c))
<1>1. ProviderControlByTimeout(c) \in {c, Rewind(c)}
  BY DEF ProviderControlByTimeout, Rewind
<1> QED
  BY <1>1, ScaleSame DEF SameTransfer

\* So does a packet that is sent.
LEMMA SendDataPacketSame ==
  ASSUME NEW c \in ProviderConnection
  PROVE  SameTransfer(c, SendDataPacket(c))
BY SMT DEF SendDataPacket, SameTransfer, ProviderConnection

\* A tick makes the last acknowledgement older by one at most.
LEMMA ElapseSame ==
  ASSUME NEW c \in ProviderConnection
  PROVE  /\ Elapse(c, 1).chunk = c.chunk
         /\ Elapse(c, 1).last_packet_acked = c.last_packet_acked
         /\ Elapse(c, 1).since_acked <= c.since_acked + 1
<1>1. /\ Elapse(c, 1).chunk = c.chunk
      /\ Elapse(c, 1).last_packet_acked = c.last_packet_acked
  BY SMT DEF Elapse, ProviderConnection
<1>2. Elapse(c, 1).since_acked = Older(c.since_acked, 1)
  BY SMT DEF Elapse, ProviderConnection
<1>3. c.since_acked \in Nat
  BY ControlAssumption DEF ProviderConnection, Age
<1>4. Older(c.since_acked, 1) <= c.since_acked + 1
  BY <1>3, ControlAssumption, SMT DEF Older
<1> QED
  BY <1>1, <1>2, <1>4

=============================================================================
