--------------------------- MODULE ProviderProofs ---------------------------
(***************************************************************************)
(* What holds of the provider's connection for every size of chunk,        *)
(* window, threshold and timeout: type correctness, the window invariant,  *)
(* the agreement of status and threshold, the order of the packets, the    *)
(* changes of the window, and the implementation of go-back-N.             *)
(*                                                                         *)
(* The inductive invariant is a property of the connection record alone,   *)
(* Sound, which each function of control.c preserves (ControlProofs);      *)
(* there is one step for each action here.                                 *)
(***************************************************************************)
EXTENDS Provider, ControlProofs

\* The inductive invariant.
IInv ==
  /\ pc \in {"select", "packet", "timeouts", "send"}
  /\ Connected => Sound(conn) /\ conn.last_packet_acked < CHUNK_DATA_NUM

-----------------------------------------------------------------------------
(* The steps of the loop.  Each action keeps the invariant, is a step of   *)
(* the abstract sender or none, and keeps the packets in order.            *)

\* What is sound is a connection, and its counters are numbers.
LEMMA SoundIsConnection ==
  ASSUME NEW c, Sound(c)
  PROVE  /\ c # NoConnection
         /\ c.last_packet_acked \in Nat
         /\ c.last_packet_sent \in Nat
BY NoConnectionAssumption, ControlAssumption, SMT DEF Sound, ProviderConnection

GoodStep == IInv' /\ [GBN!Next]_(GBN!vars) /\ InOrderStep

\* While the connection lasts, a step of the abstract sender is recognised
\* by what happens to the two ends of the window.
LEMMA ConnectedStep ==
  ASSUME IInv, Connected,
         pc' \in {"select", "packet", "timeouts", "send"},
         Sound(conn'),
         conn'.last_packet_acked < CHUNK_DATA_NUM,
         \/ /\ conn'.last_packet_acked = conn.last_packet_acked
            /\ conn'.last_packet_sent \in
                 {conn.last_packet_sent, conn.last_packet_acked}
         \/ /\ conn'.last_packet_acked \in
                 conn.last_packet_acked + 1 .. conn.last_packet_sent
            /\ conn'.last_packet_sent = conn.last_packet_sent
         \/ /\ conn'.last_packet_acked = conn.last_packet_acked
            /\ conn'.last_packet_sent = conn.last_packet_sent + 1
            /\ conn.last_packet_sent < CHUNK_DATA_NUM
  PROVE  GoodStep
<1>1. /\ Sound(conn)
      /\ conn.last_packet_acked \in Nat /\ conn.last_packet_sent \in Nat
      /\ conn'.last_packet_acked \in Nat /\ conn'.last_packet_sent \in Nat
  BY SoundIsConnection DEF IInv
<1>2. Connected'
  BY SoundIsConnection DEF Connected
<1>3. /\ Acked = conn.last_packet_acked /\ Sent = conn.last_packet_sent
      /\ Acked' = conn'.last_packet_acked /\ Sent' = conn'.last_packet_sent
  BY <1>2 DEF Acked, Sent
<1>4. IInv'
  BY <1>2 DEF IInv
<1>5. InOrderStep
  BY <1>1, SMT DEF InOrderStep
<1>6. [GBN!Next]_(GBN!vars)
  <2>1. CASE /\ conn'.last_packet_acked = conn.last_packet_acked
             /\ conn'.last_packet_sent = conn.last_packet_sent
    BY <1>2, <1>3, <2>1 DEF GBN!vars
  <2>2. CASE /\ conn'.last_packet_acked = conn.last_packet_acked
             /\ conn'.last_packet_sent = conn.last_packet_acked
    BY <1>2, <1>3, <2>2 DEF GBN!Next, GBN!GoBack
  <2>3. CASE /\ conn'.last_packet_acked \in
                  conn.last_packet_acked + 1 .. conn.last_packet_sent
             /\ conn'.last_packet_sent = conn.last_packet_sent
    BY <1>2, <1>3, <2>3 DEF GBN!Next, GBN!Acknowledge
  <2>4. CASE /\ conn'.last_packet_acked = conn.last_packet_acked
             /\ conn'.last_packet_sent = conn.last_packet_sent + 1
             /\ conn.last_packet_sent < CHUNK_DATA_NUM
    BY <1>2, <1>3, <2>4 DEF GBN!Next, GBN!Send
  <2> QED
    BY <2>1, <2>2, <2>3, <2>4
<1> QED
  BY <1>4, <1>5, <1>6 DEF GoodStep

\* A connection that ends is an abstract transfer that ends.
LEMMA ReleaseStep ==
  ASSUME IInv,
         pc' \in {"select", "packet", "timeouts", "send"},
         conn' = NoConnection
  PROVE  GoodStep
<1>1. ~Connected' /\ Acked' = 0 /\ Sent' = 0
  BY DEF Connected, Acked, Sent
<1>2. CASE Connected
  BY <1>1, <1>2 DEF IInv, GoodStep, InOrderStep, GBN!Next, GBN!Close, GBN!Closed
<1>3. CASE ~Connected
  <2>1. Acked = 0 /\ Sent = 0
    BY <1>3 DEF Acked, Sent
  <2>2. Connected' = Connected
    BY <1>1, <1>3 DEF Connected
  <2> QED
    BY <1>1, <2>1, <2>2 DEF IInv, GoodStep, InOrderStep, GBN!vars
<1> QED
  BY <1>2, <1>3

\* select returns and time has passed.
LEMMA SelectStep ==
  ASSUME IInv, NEW dt \in {0, 1}, Select(dt)
  PROVE  GoodStep
<1>1. CASE ~Connected
  BY <1>1, ReleaseStep DEF Select, Connected
<1>2. CASE Connected
  <2>1. Sound(conn) /\ conn.last_packet_acked < CHUNK_DATA_NUM
    BY <1>2 DEF IInv
  <2>2. conn' = Elapse(conn, dt) /\ pc' = "packet"
    BY <1>2 DEF Select
  <2> QED
    BY <1>2, <2>1, <2>2, ElapseSound, ConnectedStep
<1> QED
  BY <1>1, <1>2

\* A GET opens a transfer.
LEMMA AcceptGetStep ==
  ASSUME IInv, NEW chunk \in Chunk, AcceptGet(chunk)
  PROVE  GoodStep
<1>1. /\ Sound(conn')
      /\ conn'.last_packet_acked = 0
      /\ conn'.last_packet_sent = 0
  BY InitSound DEF AcceptGet, InitProviderConnection
<1>2. Connected' /\ ~Connected
  BY <1>1, SoundIsConnection DEF Connected, AcceptGet
<1>3. IInv'
  BY <1>1, <1>2, ControlAssumption, SMT DEF IInv, AcceptGet
<1>4. GBN!Open
  BY <1>1, <1>2 DEF GBN!Open, Acked, Sent
<1> QED
  BY <1>2, <1>3, <1>4 DEF GoodStep, InOrderStep, GBN!Next

\* A packet that is ignored changes nothing.
LEMMA IgnorePacketStep ==
  ASSUME IInv, IgnorePacket
  PROVE  GoodStep
<1>1. CASE ~Connected
  BY <1>1, ReleaseStep DEF IgnorePacket, Connected
<1>2. CASE Connected
  BY <1>2, ConnectedStep DEF IInv, IgnorePacket
<1> QED
  BY <1>1, <1>2

\* An ACK acknowledges, makes the sender go back, or ends the transfer.
LEMMA ReceiveAckStep ==
  ASSUME IInv, NEW n \in 0 .. CHUNK_DATA_NUM, ReceiveAck(n)
  PROVE  GoodStep
<1> DEFINE d == ProviderControlByAck(conn, n)
<1>1. /\ Connected
      /\ pc' = "timeouts"
      /\ conn' = IF d.last_packet_acked = CHUNK_DATA_NUM THEN NoConnection
                                                         ELSE d
  BY DEF ReceiveAck
<1>2. /\ Sound(conn)
      /\ conn.last_packet_acked < CHUNK_DATA_NUM
  BY <1>1 DEF IInv
<1>3. /\ Sound(d)
      /\ \/ /\ d.last_packet_acked = conn.last_packet_acked
            /\ d.last_packet_sent \in
                 {conn.last_packet_sent, conn.last_packet_acked}
         \/ /\ d.last_packet_acked = n
            /\ n \in conn.last_packet_acked + 1 .. conn.last_packet_sent
            /\ d.last_packet_sent = conn.last_packet_sent
  BY <1>2, ProviderControlByAckSound
<1> HIDE DEF d
<1>4. CASE d.last_packet_acked = CHUNK_DATA_NUM
  BY <1>1, <1>4, ReleaseStep
<1>5. CASE d.last_packet_acked # CHUNK_DATA_NUM
  <2>1. d.last_packet_acked < CHUNK_DATA_NUM
    BY <1>3, <1>5, ControlAssumption, SMT DEF Sound, ProviderConnection
  <2> QED
    BY <1>1, <1>3, <1>5, <2>1, ConnectedStep
<1> QED
  BY <1>4, <1>5

\* A timer makes the sender go back or ends the transfer.
LEMMA ProvidersTimeoutStep ==
  ASSUME IInv, ProvidersTimeout
  PROVE  GoodStep
<1>1. CASE ~Connected \/ ReceiverCrashed(conn)
  BY <1>1, ReleaseStep DEF ProvidersTimeout
<1>2. CASE Connected /\ ~ReceiverCrashed(conn)
  BY <1>2, ProviderControlByTimeoutSound, ConnectedStep
  DEF IInv, ProvidersTimeout
<1> QED
  BY <1>1, <1>2

\* The next packet is sent, or none.
LEMMA AllProviderConnectionSendDataStep ==
  ASSUME IInv, AllProviderConnectionSendData
  PROVE  GoodStep
<1>1. CASE ~Connected
  BY <1>1, ReleaseStep DEF AllProviderConnectionSendData, Connected
<1>2. CASE Connected /\ CanSend(conn)
  BY <1>2, SendDataPacketSound, ConnectedStep
  DEF IInv, AllProviderConnectionSendData
<1>3. CASE Connected /\ ~CanSend(conn)
  BY <1>3, ConnectedStep DEF IInv, AllProviderConnectionSendData
<1> QED
  BY <1>1, <1>2, <1>3

\* Nothing happens.
LEMMA StutteringStep ==
  ASSUME IInv, UNCHANGED vars
  PROVE  GoodStep
<1>1. CASE ~Connected
  BY <1>1, ReleaseStep DEF vars, Connected, IInv
<1>2. CASE Connected
  BY <1>2, ConnectedStep DEF IInv, vars
<1> QED
  BY <1>1, <1>2

\* All of them together.
LEMMA EveryStepIsGood ==
  ASSUME IInv, [Next]_vars
  PROVE  GoodStep
BY SelectStep, AcceptGetStep, IgnorePacketStep, ReceiveAckStep,
   ProvidersTimeoutStep, AllProviderConnectionSendDataStep, StutteringStep
DEF Next

\* Every action hands the connection to one of these functions, or leaves
\* it alone, or ends it.
LEMMA EveryStepChangesTheWindowWell ==
  ASSUME IInv, [Next]_vars
  PROVE  WindowStep
<1> SUFFICES ASSUME Connected, Connected'
             PROVE  WindowChange(conn, conn')
  BY DEF WindowStep, WindowChange
<1>1. Sound(conn) /\ conn \in ProviderConnection
  BY DEF IInv, Sound
<1>2. ASSUME NEW dt \in {0, 1}, Select(dt)
      PROVE  WindowChange(conn, conn')
  BY <1>1, <1>2, ElapseWindow, SameWindow DEF Select
<1>3. ASSUME NEW n \in 0 .. CHUNK_DATA_NUM, ReceiveAck(n)
      PROVE  WindowChange(conn, conn')
  BY <1>1, <1>3, ProviderControlByAckWindow DEF ReceiveAck, Connected
<1>4. CASE ProvidersTimeout
  <2>1. conn' \in {conn, Rewind(conn)}
    BY <1>4 DEF ProvidersTimeout, ProviderControlByTimeout, Rewind, Connected
  <2> QED
    BY <1>1, <2>1, SameWindow, RewindWindow
<1>5. CASE AllProviderConnectionSendData
  BY <1>1, <1>5, SendDataPacketWindow, SameWindow
  DEF AllProviderConnectionSendData
<1>6. CASE IgnorePacket \/ UNCHANGED vars
  BY <1>1, <1>6, SameWindow DEF IgnorePacket, vars
<1> QED
  BY <1>2, <1>3, <1>4, <1>5, <1>6 DEF Next, AcceptGet

-----------------------------------------------------------------------------
(* The theorems.                                                           *)

\* The connection of a node is sound in every state of every run of its
\* event loop, whatever packets reach it.
THEOREM Invariance == Spec => []IInv
<1>1. Init => IInv
  BY DEF Init, IInv, Connected
<1>2. IInv /\ [Next]_vars => IInv'
  BY EveryStepIsGood DEF GoodStep
<1> QED
  BY <1>1, <1>2, PTL DEF Spec

\* The connection is always a well-formed record: no counter leaves its
\* range, and no acknowledgement number outside the chunk gets in.
THEOREM TypeCorrectness == Spec => []TypeOK
<1>1. IInv => TypeOK
  BY DEF IInv, TypeOK, Connected, Sound
<1> QED
  BY <1>1, Invariance, PTL

\* What send_data_packet reports as an error cannot happen: never are more
\* packets in flight than the window allows, however losses, timeouts and
\* stale acknowledgements interleave.
THEOREM WindowIsRespected == Spec => []WindowRespected
<1>1. IInv => WindowRespected
  BY DEF IInv, WindowRespected, Sound
<1> QED
  BY <1>1, Invariance, PTL

\* The status always tells whether the window has reached the threshold.
THEOREM StatusAgrees == Spec => []StatusMatchesThreshold
<1>1. IInv => StatusMatchesThreshold
  BY DEF IInv, StatusMatchesThreshold, Sound
<1> QED
  BY <1>1, Invariance, PTL

\* Packets are sent in order, and a loss is repaired from the first packet
\* that is not acknowledged.
THEOREM SendsInOrder == Spec => InOrder
<1>1. IInv /\ [Next]_vars => [InOrderStep]_vars
  BY EveryStepIsGood DEF GoodStep
<1> QED
  BY <1>1, Invariance, PTL DEF Spec, InOrder

\* Additive increase, multiplicative decrease: the window grows by one for a
\* new acknowledgement and by nothing else, and falls only back to its
\* initial size, with the send position and half the window remembered.
THEOREM WindowChangesWell == Spec => WindowChanges
<1>1. IInv /\ [Next]_vars => [WindowStep]_vars
  BY EveryStepChangesTheWindowWell
<1> QED
  BY <1>1, Invariance, PTL DEF Spec, WindowChanges

\* The connection with its windows and timers implements go-back-N.
THEOREM ImplementsGoBackN == Spec => GoBackNSender
<1>1. Init => GBN!Init
  BY DEF Init, GBN!Init, GBN!Closed, Connected, Acked, Sent
<1>2. IInv /\ [Next]_vars => [GBN!Next]_(GBN!vars)
  BY EveryStepIsGood DEF GoodStep
<1> QED
  BY <1>1, <1>2, Invariance, PTL DEF Spec, GoBackNSender, GBN!Spec

=============================================================================
