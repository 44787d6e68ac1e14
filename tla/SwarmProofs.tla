----------------------------- MODULE SwarmProofs -----------------------------
(***************************************************************************)
(* Theorems about Swarm, while nothing is lost and no packet is later than *)
(* half a crash timeout, for any peers, jobs, chunks and crashes: nobody   *)
(* is taken for crashed who is not, and a downloader never keeps the DATA  *)
(* of another chunk.                                                       *)
(*                                                                         *)
(* DATA does not name its chunk, so both rest on what the two queues       *)
(* between a downloader and a peer may hold.  The transfer is in one of    *)
(* three stages: the provider is idle and the GET, if any, is on its way;  *)
(* it serves the chunk that is awaited; or its last acknowledgement is on  *)
(* its way, behind it maybe the next GET.  The packets from the peer are   *)
(* some of the transfer before, without a packet 1, and behind them those  *)
(* of the present one, without a gap: the downloader ignores the former,   *)
(* since it awaits packet 1 until they are read.  While a transfer goes on *)
(* some packet is on its way that moves it, so time passes only while that *)
(* packet is late: who waits, waits at most for a late packet and its late *)
(* answer.                                                                 *)
(***************************************************************************)
EXTENDS Swarm, ControlProofs, NaturalsOrder, SequenceTheorems

\* The downloader, with what is proved of it: peers may offer any hashes.
P == INSTANCE DownloadProofs WITH IHave          <- Seq(Hash),
                                  SaveFailure    <- {},
                                  MaxShortWrites <- 0

-----------------------------------------------------------------------------
(* The queues between the downloader and a peer: T to it, F from it.       *)

\* The k-th packet is the DATA packet n.
IsData(packets, k, n) ==
  packets[k].type = "DATA" /\ packets[k].seq_number = n

\* The k-th packet acknowledges everything up to n.
IsAck(packets, k, n) ==
  packets[k].type = "ACK" /\ packets[k].ack_number = n

\* Behind the first b packets, DATA goes on with what was received, or repeats,
\* and never jumps ahead.
NoGap(F, b, received) ==
  \A k \in b + 1 .. Len(F) : F[k].type = "DATA" =>
    \/ F[k].seq_number <= received + 1
    \/ \E j \in b + 1 .. k - 1 : IsData(F, j, F[k].seq_number - 1)

\* When the first packet is sent again, at most a first window preceded it.
FirstAgain(F, b) ==
  \A k \in b + 1 .. Len(F) : IsData(F, k, 1) =>
    \A j \in b + 1 .. k - 1 :
      F[j].type = "DATA" => F[j].seq_number <= SLOW_START_INIT_WINDOW_SIZE

\* The packets from a peer: the first b are left over from the transfer before
\* (none of them is its packet 1), the rest are cut from the chunk that is
\* awaited now, without a gap.
Flow(F, b, con, want, received) ==
  /\ b \in 0 .. Len(F)
  /\ received # 0 => b = 0
  /\ \A k \in 1 .. b : F[k].type = "DATA" => F[k].seq_number >= 2
  /\ \A k \in b + 1 .. Len(F) : F[k].type = "DATA" => con /\ F[k].hash = want
  /\ NoGap(F, b, received)
  /\ FirstAgain(F, b)

\* The acknowledgements among the first z packets to a peer grow, one by one,
\* from the last one that the peer took.
Chain(T, z, acked) ==
  /\ \A k \in 1 .. z : T[k].type = "ACK" =>
       /\ acked <= T[k].ack_number
       /\ \/ T[k].ack_number <= acked + 1
          \/ \E j \in 1 .. k - 1 : IsAck(T, j, T[k].ack_number - 1)
  /\ \A j, k \in 1 .. z :
       j < k /\ T[j].type = "ACK" /\ T[k].type = "ACK"
         => T[j].ack_number <= T[k].ack_number

\* The packets to a peer behind the z-th belong to a transfer that the peer
\* has not started: its GET, and acknowledgements of nothing.
After(T, z, con, want, received) ==
  /\ \A k \in z + 1 .. Len(T) :
       /\ T[k].type = "ACK" => T[k].ack_number = 0
       /\ T[k].type = "GET" => con /\ T[k].hash = want
  /\ con => /\ received = 0
            /\ \E k \in z + 1 .. Len(T) : T[k].type = "GET"

\* The provider has no connection: no DATA of the present transfer was sent.
Idle(c, T, F, b, con, want, received) ==
  /\ c = NoConnection
  /\ b = Len(F)
  /\ After(T, 0, con, want, received)

\* The downloader has the whole chunk and the provider does not know it yet:
\* the last acknowledgement is the z-th packet on its way.
Ending(c, T, F, b, con, want, received, z) ==
  /\ c # NoConnection
  /\ b = Len(F)
  /\ z \in 1 .. Len(T)
  /\ IsAck(T, z, CHUNK_DATA_NUM)
  /\ \A k \in 1 .. z - 1 : T[k].type = "ACK" => T[k].ack_number < CHUNK_DATA_NUM
  /\ Chain(T, z, c.last_packet_acked)
  /\ c.last_packet_acked \in 1 .. CHUNK_DATA_NUM - 1
  /\ After(T, z, con, want, received)

\* The provider serves the chunk that is awaited; what the downloader received
\* and what it acknowledged agree with the window, and either the last packet
\* sent is on its way or the downloader has it.
Serving(c, T, F, b, con, want, received) ==
  /\ c # NoConnection
  /\ con
  /\ c.chunk = want
  /\ c.last_packet_acked <= received
  /\ Chain(T, Len(T), c.last_packet_acked)
  /\ \A k \in 1 .. Len(T) : T[k].type = "ACK" => T[k].ack_number <= received
  /\ \/ c.last_packet_acked = received
     \/ \E k \in 1 .. Len(T) : IsAck(T, k, received)
  /\ \/ c.last_packet_sent <= received
     \/ \E k \in b + 1 .. Len(F) : IsData(F, k, c.last_packet_sent)
  /\ c.last_packet_acked = 0 =>
       /\ received <= SLOW_START_INIT_WINDOW_SIZE
       /\ \A k \in b + 1 .. Len(F) : F[k].type = "DATA" =>
            F[k].seq_number <= SLOW_START_INIT_WINDOW_SIZE

\* What the two ends know of the transfer is one of the three.
Stage(c, T, F, b, con, want, received) ==
  \/ Idle(c, T, F, b, con, want, received)
  \/ \E z \in 1 .. Len(T) : Ending(c, T, F, b, con, want, received, z)
  \/ Serving(c, T, F, b, con, want, received)

\* The head of the packets is read.
Shifted(s, t) ==
  /\ Len(s) \in Nat \ {0}
  /\ Len(t) = Len(s) - 1
  /\ \A k \in 1 .. Len(t) : t[k] = s[k + 1]

\* Packets join the others.
Longer(s, t) ==
  /\ Len(s) \in Nat
  /\ Len(t) \in Nat
  /\ Len(s) <= Len(t)
  /\ \A k \in 1 .. Len(s) : t[k] = s[k]

\* The numbers of DATA packets are those of a chunk.
FromOK(F) ==
  /\ Len(F) \in Nat
  /\ \A k \in 1 .. Len(F) : F[k].type = "DATA" =>
       F[k].seq_number \in 1 .. CHUNK_DATA_NUM

\* The numbers of acknowledgements are those of a chunk.
ToOK(T) ==
  /\ Len(T) \in Nat
  /\ \A k \in 1 .. Len(T) : T[k].type = "ACK" =>
       T[k].ack_number \in 0 .. CHUNK_DATA_NUM

\* A chunk has more packets than a first window.
LEMMA Sizes ==
  /\ CHUNK_DATA_NUM \in Nat /\ CHUNK_DATA_NUM >= 2
  /\ SLOW_START_INIT_WINDOW_SIZE \in Nat /\ SLOW_START_INIT_WINDOW_SIZE >= 1
  /\ SLOW_START_INIT_WINDOW_SIZE < CHUNK_DATA_NUM
BY ControlAssumption, SwarmAssumption

\* An old packet of the present transfer, or one that is left over.
LEMMA HeadIsOld ==
  ASSUME NEW F, FromOK(F), Len(F) # 0,
         NEW b, NEW con \in BOOLEAN, NEW want, NEW received \in Nat,
         Flow(F, b, con, want, received),
         b = 0, F[1].type = "DATA",
         ~(con /\ IsData(F, 1, received + 1))
  PROVE  con /\ F[1].seq_number <= received
<1>1. 1 \in b + 1 .. Len(F) /\ 1 \in 1 .. Len(F)
  BY DEF FromOK
<1>2. con /\ F[1].seq_number \in Nat
  BY <1>1 DEF Flow, FromOK
<1>3. F[1].seq_number <= received + 1
  <2>1. ~\E j \in b + 1 .. 1 - 1 : IsData(F, j, F[1].seq_number - 1)
    OBVIOUS
  <2> QED
    BY <1>1, <2>1 DEF Flow, NoGap
<1>4. F[1].seq_number # received + 1
  BY <1>2 DEF IsData
<1> QED
  BY <1>2, <1>3, <1>4

\* When the head is read, the packets behind those of before move up.
Ahead(b) == IF b = 0 THEN 0 ELSE b - 1

\* The head of the packets is not the DATA packet that is expected.
LEMMA FlowPassed ==
  ASSUME NEW F, NEW F2, FromOK(F), Shifted(F, F2),
         NEW b, NEW con \in BOOLEAN, NEW want, NEW received \in Nat,
         Flow(F, b, con, want, received),
         ~(con /\ IsData(F, 1, received + 1))
  PROVE  Flow(F2, Ahead(b), con, want, received)
<1> DEFINE d == IF b = 0 THEN 0 ELSE b - 1
<1>1. /\ Len(F) \in Nat \ {0}
      /\ Len(F2) = Len(F) - 1
      /\ b \in 0 .. Len(F)
      /\ d \in 0 .. Len(F2)
  BY DEF Shifted, Flow
<1>2. /\ \A k \in 1 .. Len(F2) : F2[k] = F[k + 1] /\ k + 1 \in 1 .. Len(F)
      /\ \A k \in d + 1 .. Len(F2) : k + 1 \in b + 1 .. Len(F)
      /\ \A k \in 1 .. d : k + 1 \in 1 .. b
  BY <1>1 DEF Shifted
<1>3. received # 0 => d = 0
  BY DEF Flow
<1>4. \A k \in 1 .. d : F2[k].type = "DATA" => F2[k].seq_number >= 2
  BY <1>1, <1>2 DEF Flow
<1>5. \A k \in d + 1 .. Len(F2) : F2[k].type = "DATA" => con /\ F2[k].hash = want
  BY <1>1, <1>2 DEF Flow
\* A current packet at the head was received before.
<1>6. b = 0 /\ F[1].type = "DATA" => F[1].seq_number <= received
  BY <1>1, HeadIsOld
<1>7. NoGap(F2, d, received)
  <2> SUFFICES ASSUME NEW k \in d + 1 .. Len(F2), F2[k].type = "DATA",
                      ~(F2[k].seq_number <= received + 1)
               PROVE  \E j \in d + 1 .. k - 1 : IsData(F2, j, F2[k].seq_number - 1)
    BY DEF NoGap
  <2>1. F2[k] = F[k + 1] /\ k + 1 \in b + 1 .. Len(F) /\ k + 1 \in 1 .. Len(F)
    BY <1>1, <1>2
  <2>2. PICK j \in b + 1 .. (k + 1) - 1 : IsData(F, j, F[k + 1].seq_number - 1)
    BY <2>1 DEF Flow, NoGap
  <2>3. F[k + 1].seq_number \in Nat
    BY <2>1 DEF FromOK
  <2>4. ~(b = 0 /\ j = 1)
    BY <1>6, <2>1, <2>2, <2>3 DEF IsData
  <2>5. /\ j - 1 \in d + 1 .. k - 1
        /\ F2[j - 1] = F[j]
    <3>1. j - 1 \in 1 .. Len(F2) /\ (j - 1) + 1 = j /\ j - 1 \in d + 1 .. k - 1
      BY <1>1, <2>1, <2>2, <2>4
    <3> QED
      BY <1>2, <3>1
  <2> QED
    BY <2>1, <2>2, <2>5 DEF IsData
<1>8. FirstAgain(F2, d)
  <2> SUFFICES ASSUME NEW k \in d + 1 .. Len(F2), IsData(F2, k, 1),
                      NEW j \in d + 1 .. k - 1, F2[j].type = "DATA"
               PROVE  F2[j].seq_number <= SLOW_START_INIT_WINDOW_SIZE
    BY DEF FirstAgain
  <2>1. /\ k + 1 \in b + 1 .. Len(F)
        /\ j + 1 \in b + 1 .. (k + 1) - 1
        /\ F2[k] = F[k + 1]
        /\ F2[j] = F[j + 1]
    BY <1>1, <1>2
  <2> QED
    BY <2>1 DEF Flow, FirstAgain, IsData
<1> QED
  BY <1>1, <1>3, <1>4, <1>5, <1>7, <1>8 DEF Flow, Ahead

\* The head of the packets is the DATA packet that is expected: it is one of
\* the present transfer, and the first of those on their way.
LEMMA FlowExpected ==
  ASSUME NEW F, FromOK(F), Len(F) # 0,
         NEW b, NEW con \in BOOLEAN, NEW want, NEW received \in Nat,
         Flow(F, b, con, want, received),
         IsData(F, 1, received + 1)
  PROVE  b = 0 /\ F[1].hash = want
<1>1. b \in 0 .. Len(F) /\ Len(F) \in Nat \ {0}
  BY DEF Flow, FromOK
<1>2. b = 0
  BY <1>1 DEF Flow, IsData
<1> QED
  BY <1>1, <1>2 DEF Flow, IsData

\* That packet is saved.
LEMMA FlowSaved ==
  ASSUME NEW F, NEW F2, FromOK(F), Shifted(F, F2),
         NEW b, NEW con \in BOOLEAN, NEW want, NEW received \in Nat,
         Flow(F, b, con, want, received),
         IsData(F, 1, received + 1)
  PROVE  Flow(F2, 0, con, want, received + 1)
<1>1. /\ Len(F) \in Nat \ {0}
      /\ Len(F2) = Len(F) - 1
      /\ b = 0
  BY FlowExpected DEF Shifted
<1>2. \A k \in 1 .. Len(F2) : F2[k] = F[k + 1] /\ k + 1 \in 1 .. Len(F)
  BY <1>1 DEF Shifted
<1>3. \A k \in 1 .. Len(F2) : F2[k].type = "DATA" => con /\ F2[k].hash = want
  BY <1>1, <1>2 DEF Flow
<1>4. NoGap(F2, 0, received + 1)
  <2> SUFFICES ASSUME NEW k \in 1 .. Len(F2), F2[k].type = "DATA",
                      ~(F2[k].seq_number <= received + 1 + 1)
               PROVE  \E j \in 1 .. k - 1 : IsData(F2, j, F2[k].seq_number - 1)
    BY DEF NoGap
  <2>1. F2[k] = F[k + 1] /\ k + 1 \in 1 .. Len(F)
    BY <1>2
  <2>2. F[k + 1].seq_number \in Nat
    BY <2>1 DEF FromOK
  <2>3. ~(F[k + 1].seq_number <= received + 1)
    BY <2>1, <2>2
  <2>4. PICK j \in 1 .. (k + 1) - 1 : IsData(F, j, F[k + 1].seq_number - 1)
    BY <1>1, <2>1, <2>3 DEF Flow, NoGap
  <2>5. j # 1
    BY <2>1, <2>2, <2>4 DEF IsData
  <2>6. j - 1 \in 1 .. k - 1 /\ F2[j - 1] = F[j]
    <3>1. j - 1 \in 1 .. Len(F2) /\ (j - 1) + 1 = j /\ j - 1 \in 1 .. k - 1
      BY <1>1, <2>1, <2>4, <2>5
    <3> QED
      BY <1>2, <3>1
  <2> QED
    BY <2>1, <2>4, <2>6 DEF IsData
<1>5. FirstAgain(F2, 0)
  <2> SUFFICES ASSUME NEW k \in 1 .. Len(F2), IsData(F2, k, 1),
                      NEW j \in 1 .. k - 1, F2[j].type = "DATA"
               PROVE  F2[j].seq_number <= SLOW_START_INIT_WINDOW_SIZE
    BY DEF FirstAgain
  <2>1. /\ k + 1 \in 1 .. Len(F)
        /\ j + 1 \in 1 .. (k + 1) - 1
        /\ F2[k] = F[k + 1]
        /\ F2[j] = F[j + 1]
    BY <1>1, <1>2
  <2> QED
    BY <1>1, <2>1 DEF Flow, FirstAgain, IsData
<1> QED
  BY <1>1, <1>3, <1>4, <1>5 DEF Flow

\* That packet ends the chunk: those behind it are left over.
LEMMA FlowFinished ==
  ASSUME NEW F, NEW F2, FromOK(F), Shifted(F, F2),
         NEW b, NEW con \in BOOLEAN, NEW want, NEW received \in Nat,
         Flow(F, b, con, want, received),
         IsData(F, 1, received + 1), received + 1 = CHUNK_DATA_NUM,
         NEW con2, NEW want2
  PROVE  Flow(F2, Len(F2), con2, want2, 0)
<1>1. /\ Len(F) \in Nat \ {0}
      /\ Len(F2) = Len(F) - 1
      /\ b = 0
  BY FlowExpected DEF Shifted
<1>2. \A k \in 1 .. Len(F2) : F2[k] = F[k + 1] /\ k + 1 \in 1 .. Len(F)
  BY <1>1 DEF Shifted
<1>3. \A k \in 1 .. Len(F2) : F2[k].type = "DATA" => F2[k].seq_number >= 2
  <2> SUFFICES ASSUME NEW k \in 1 .. Len(F2), F2[k].type = "DATA"
               PROVE  F2[k].seq_number >= 2
    OBVIOUS
  <2>1. F2[k] = F[k + 1] /\ k + 1 \in 1 .. Len(F) /\ 1 \in 1 .. (k + 1) - 1
    BY <1>2
  <2>2. F[k + 1].seq_number \in Nat \ {0}
    BY <2>1 DEF FromOK
  <2>3. F[1].type = "DATA" /\ ~(F[1].seq_number <= SLOW_START_INIT_WINDOW_SIZE)
    BY Sizes DEF IsData
  <2>4. ~IsData(F, k + 1, 1)
    BY <1>1, <2>1, <2>3 DEF Flow, FirstAgain
  <2> QED
    BY <2>1, <2>2, <2>4 DEF IsData
<1>4. \A k : k \notin Len(F2) + 1 .. Len(F2)
  BY <1>1
<1> QED
  BY <1>1, <1>3, <1>4 DEF Flow, NoGap, FirstAgain

\* With a new connection, what is on its way is left over.
LEMMA FlowConnected ==
  ASSUME NEW F, FromOK(F), NEW b, NEW want, NEW received,
         Flow(F, b, FALSE, want, received), NEW h
  PROVE  Flow(F, b, TRUE, h, 0)
<1>1. \A k \in b + 1 .. Len(F) : F[k].type # "DATA"
  BY DEF Flow
<1> QED
  BY <1>1 DEF Flow, NoGap, FirstAgain, IsData

\* A packet that is not DATA joins those on their way.
LEMMA FlowJoined ==
  ASSUME NEW F, NEW F2, FromOK(F), Longer(F, F2),
         \A k \in Len(F) + 1 .. Len(F2) : F2[k].type # "DATA",
         NEW b, NEW con, NEW want, NEW received,
         Flow(F, b, con, want, received)
  PROVE  Flow(F2, b, con, want, received)
<1>1. /\ Len(F) \in Nat /\ Len(F2) \in Nat /\ Len(F) <= Len(F2)
      /\ b \in 0 .. Len(F)
      /\ \A k \in 1 .. Len(F) : F2[k] = F[k]
  BY DEF Longer, Flow
<1>2. \A k \in 1 .. Len(F2) : F2[k].type = "DATA" => k \in 1 .. Len(F)
  BY <1>1
<1>3. \A k \in 1 .. b : F2[k].type = "DATA" => F2[k].seq_number >= 2
  BY <1>1 DEF Flow
<1>4. \A k \in b + 1 .. Len(F2) : F2[k].type = "DATA" =>
        k \in b + 1 .. Len(F) /\ F2[k] = F[k] /\ con /\ F2[k].hash = want
  BY <1>1, <1>2 DEF Flow
<1>5. NoGap(F2, b, received)
  <2> SUFFICES ASSUME NEW k \in b + 1 .. Len(F2), F2[k].type = "DATA",
                      ~(F2[k].seq_number <= received + 1)
               PROVE  \E j \in b + 1 .. k - 1 : IsData(F2, j, F2[k].seq_number - 1)
    BY DEF NoGap
  <2>1. k \in b + 1 .. Len(F) /\ F2[k] = F[k]
    BY <1>4
  <2>2. PICK j \in b + 1 .. k - 1 : IsData(F, j, F[k].seq_number - 1)
    BY <2>1 DEF Flow, NoGap
  <2>3. F2[j] = F[j]
    BY <1>1, <2>1, <2>2
  <2> QED
    BY <2>1, <2>2, <2>3 DEF IsData
<1>6. FirstAgain(F2, b)
  <2> SUFFICES ASSUME NEW k \in b + 1 .. Len(F2), IsData(F2, k, 1),
                      NEW j \in b + 1 .. k - 1, F2[j].type = "DATA"
               PROVE  F2[j].seq_number <= SLOW_START_INIT_WINDOW_SIZE
    BY DEF FirstAgain
  <2>1. k \in b + 1 .. Len(F) /\ F2[k] = F[k] /\ F2[j] = F[j]
    <3>1. k \in b + 1 .. Len(F) /\ F2[k] = F[k]
      BY <1>4 DEF IsData
    <3> QED
      BY <1>1, <3>1
  <2> QED
    BY <2>1 DEF Flow, FirstAgain, IsData
<1> QED
  BY <1>1, <1>3, <1>4, <1>5, <1>6 DEF Flow

\* A DATA packet joins them, the one behind the last that was sent.
LEMMA FlowSent ==
  ASSUME NEW F, NEW F2, FromOK(F), Longer(F, F2), Len(F2) = Len(F) + 1,
         NEW b, NEW con, NEW want, NEW received \in Nat,
         Flow(F, b, con, want, received),
         NEW sent \in Nat,
         IsData(F2, Len(F2), sent + 1),
         con, F2[Len(F2)].hash = want,
         \/ sent <= received
         \/ \E k \in b + 1 .. Len(F) : IsData(F, k, sent),
         sent = 0 => \A k \in b + 1 .. Len(F) : F[k].type = "DATA" =>
                       F[k].seq_number <= SLOW_START_INIT_WINDOW_SIZE
  PROVE  Flow(F2, b, con, want, received)
<1>1. /\ Len(F) \in Nat /\ Len(F2) \in Nat /\ Len(F2) = Len(F) + 1
      /\ b \in 0 .. Len(F)
      /\ \A k \in 1 .. Len(F) : F2[k] = F[k]
  BY DEF Longer, Flow
<1>2. \A k \in b + 1 .. Len(F2) :
        \/ k \in b + 1 .. Len(F) /\ F2[k] = F[k]
        \/ k = Len(F2)
  BY <1>1
<1>3. \A k \in 1 .. b : F2[k].type = "DATA" => F2[k].seq_number >= 2
  BY <1>1 DEF Flow
<1>4. \A k \in b + 1 .. Len(F2) : F2[k].type = "DATA" => con /\ F2[k].hash = want
  BY <1>2 DEF Flow
<1>5. NoGap(F2, b, received)
  <2> SUFFICES ASSUME NEW k \in b + 1 .. Len(F2), F2[k].type = "DATA",
                      ~(F2[k].seq_number <= received + 1)
               PROVE  \E j \in b + 1 .. k - 1 : IsData(F2, j, F2[k].seq_number - 1)
    BY DEF NoGap
  <2>1. CASE k \in b + 1 .. Len(F) /\ F2[k] = F[k]
    <3>1. PICK j \in b + 1 .. k - 1 : IsData(F, j, F[k].seq_number - 1)
      BY <2>1 DEF Flow, NoGap
    <3>2. F2[j] = F[j]
      BY <1>1, <2>1, <3>1
    <3> QED
      BY <2>1, <3>1, <3>2 DEF IsData
  <2>2. CASE k = Len(F2)
    <3>1. F2[k].seq_number = sent + 1
      BY <2>2 DEF IsData
    <3>2. PICK j \in b + 1 .. Len(F) : IsData(F, j, sent)
      BY <3>1
    <3>3. F2[j] = F[j] /\ j \in b + 1 .. k - 1
      BY <1>1, <2>2, <3>2
    <3> QED
      BY <3>1, <3>2, <3>3 DEF IsData
  <2> QED
    BY <1>2, <2>1, <2>2
<1>6. FirstAgain(F2, b)
  <2> SUFFICES ASSUME NEW k \in b + 1 .. Len(F2), IsData(F2, k, 1),
                      NEW j \in b + 1 .. k - 1, F2[j].type = "DATA"
               PROVE  F2[j].seq_number <= SLOW_START_INIT_WINDOW_SIZE
    BY DEF FirstAgain
  <2>0. j \in b + 1 .. Len(F) /\ F2[j] = F[j]
    BY <1>1
  <2>1. CASE k \in b + 1 .. Len(F) /\ F2[k] = F[k]
    BY <2>0, <2>1 DEF Flow, FirstAgain, IsData
  <2>2. CASE k = Len(F2)
    <3>1. sent = 0
      BY <2>2 DEF IsData
    <3> QED
      BY <2>0, <3>1
  <2> QED
    BY <1>2, <2>1, <2>2
<1> QED
  BY <1>1, <1>3, <1>4, <1>5, <1>6 DEF Flow

-----------------------------------------------------------------------------
(* What becomes of the stage when the downloader takes a packet or sends.  *)

\* A chain of acknowledgements does not depend on what is behind it.
LEMMA ChainKept ==
  ASSUME NEW T, NEW T2, Longer(T, T2), NEW z \in 0 .. Len(T), NEW acked,
         Chain(T, z, acked)
  PROVE  Chain(T2, z, acked)
<1>1. /\ Len(T) \in Nat
      /\ \A k \in 1 .. z : T2[k] = T[k]
      /\ \A k \in 1 .. z : \A j \in 1 .. k - 1 : T2[j] = T[j]
  BY DEF Longer
<1> QED
  BY <1>1 DEF Chain, IsAck

\* Packets that are no acknowledgements leave a chain as long as it is.
LEMMA ChainJoined ==
  ASSUME NEW T, NEW T2, Longer(T, T2), NEW acked,
         Chain(T, Len(T), acked),
         \A k \in Len(T) + 1 .. Len(T2) : T2[k].type # "ACK"
  PROVE  Chain(T2, Len(T2), acked)
<1>1. /\ Len(T) \in Nat /\ Len(T2) \in Nat
      /\ \A k \in 1 .. Len(T) : T2[k] = T[k]
      /\ \A k \in 1 .. Len(T) : \A j \in 1 .. k - 1 : T2[j] = T[j]
  BY DEF Longer
<1>2. \A k \in 1 .. Len(T2) : T2[k].type = "ACK" => k \in 1 .. Len(T)
  BY <1>1
<1> QED
  BY <1>1, <1>2 DEF Chain, IsAck

\* The next acknowledgement makes it longer.
LEMMA ChainAcked ==
  ASSUME NEW T, NEW T2, ToOK(T), Longer(T, T2), NEW acked \in Nat,
         Chain(T, Len(T), acked),
         NEW received \in Nat, acked <= received,
         \A k \in 1 .. Len(T) : T[k].type = "ACK" => T[k].ack_number <= received,
         \/ acked = received
         \/ \E k \in 1 .. Len(T) : IsAck(T, k, received),
         NEW n \in {received, received + 1},
         Len(T2) >= Len(T) + 1,
         IsAck(T2, Len(T) + 1, n)
  PROVE  Chain(T2, Len(T) + 1, acked)
<1>1. /\ Len(T) \in Nat /\ Len(T2) \in Nat
      /\ \A k \in 1 .. Len(T) : T2[k] = T[k]
      /\ \A k \in 1 .. Len(T) : \A j \in 1 .. k - 1 : T2[j] = T[j]
  BY DEF Longer
<1>2. \A k \in 1 .. Len(T) + 1 : k \in 1 .. Len(T) \/ k = Len(T) + 1
  BY <1>1
<1>3. \A k \in 1 .. Len(T) : T[k].type = "ACK" => T[k].ack_number \in Nat
  BY DEF ToOK
<1>4. \/ n <= acked + 1
      \/ \E j \in 1 .. (Len(T) + 1) - 1 : IsAck(T2, j, n - 1)
  <2>1. CASE acked = received
    BY <2>1
  <2>2. CASE \E k \in 1 .. Len(T) : IsAck(T, k, received)
    <3>1. PICK k \in 1 .. Len(T) : IsAck(T, k, received)
      BY <2>2
    <3>2. CASE n = received + 1
      BY <1>1, <3>1, <3>2 DEF IsAck
    <3>3. CASE n = received
      <4>1. \/ received <= acked + 1
            \/ \E j \in 1 .. k - 1 : IsAck(T, j, received - 1)
        BY <3>1 DEF Chain, IsAck
      <4>2. \A j \in 1 .. k - 1 : T2[j] = T[j] /\ j \in 1 .. (Len(T) + 1) - 1
        BY <1>1
      <4> QED
        BY <3>3, <4>1, <4>2 DEF IsAck
    <3> QED
      BY <3>2, <3>3
  <2> QED
    BY <2>1, <2>2
<1>5. \A k \in 1 .. Len(T) + 1 : T2[k].type = "ACK" =>
        /\ acked <= T2[k].ack_number
        /\ \/ T2[k].ack_number <= acked + 1
           \/ \E j \in 1 .. k - 1 : IsAck(T2, j, T2[k].ack_number - 1)
  <2> SUFFICES ASSUME NEW k \in 1 .. Len(T) + 1, T2[k].type = "ACK"
               PROVE  /\ acked <= T2[k].ack_number
                      /\ \/ T2[k].ack_number <= acked + 1
                         \/ \E j \in 1 .. k - 1 : IsAck(T2, j, T2[k].ack_number - 1)
    OBVIOUS
  <2>1. CASE k = Len(T) + 1
    BY <1>4, <2>1 DEF IsAck
  <2>2. CASE k \in 1 .. Len(T)
    BY <1>1, <2>2 DEF Chain, IsAck
  <2> QED
    BY <1>2, <2>1, <2>2
<1>6. \A j, k \in 1 .. Len(T) + 1 :
        j < k /\ T2[j].type = "ACK" /\ T2[k].type = "ACK"
          => T2[j].ack_number <= T2[k].ack_number
  <2> SUFFICES ASSUME NEW j \in 1 .. Len(T) + 1, NEW k \in 1 .. Len(T) + 1,
                      j < k, T2[j].type = "ACK", T2[k].type = "ACK"
               PROVE  T2[j].ack_number <= T2[k].ack_number
    OBVIOUS
  <2>1. j \in 1 .. Len(T) /\ T2[j] = T[j] /\ T[j].ack_number \in Nat
    BY <1>1, <1>3
  <2>2. CASE k = Len(T) + 1
    BY <2>1, <2>2 DEF IsAck
  <2>3. CASE k \in 1 .. Len(T)
    BY <1>1, <2>1, <2>3 DEF Chain
  <2> QED
    BY <1>2, <2>2, <2>3
<1> QED
  BY <1>5, <1>6 DEF Chain

\* What may follow the end of a transfer.
LEMMA AfterJoined ==
  ASSUME NEW T, NEW T2, Longer(T, T2), NEW z \in 0 .. Len(T),
         NEW con, NEW want, NEW received,
         After(T, z, con, want, received),
         \A k \in Len(T) + 1 .. Len(T2) :
           /\ T2[k].type = "ACK" => T2[k].ack_number = 0
           /\ T2[k].type = "GET" => con /\ T2[k].hash = want
  PROVE  After(T2, z, con, want, received)
<1>1. /\ Len(T) \in Nat /\ Len(T2) \in Nat /\ Len(T) <= Len(T2)
      /\ \A k \in 1 .. Len(T) : T2[k] = T[k]
  BY DEF Longer
<1>2. \A k \in z + 1 .. Len(T2) :
        k \in Len(T) + 1 .. Len(T2) \/ (k \in z + 1 .. Len(T) /\ T2[k] = T[k])
  BY <1>1
<1>3. \A k \in z + 1 .. Len(T) : T2[k] = T[k] /\ k \in z + 1 .. Len(T2)
  BY <1>1
<1> QED
  BY <1>2, <1>3 DEF After

\* The downloader asks all peers for chunks, or its peer again for the one
\* it waits for.
LEMMA StageJoined ==
  ASSUME NEW c, NEW T, NEW T2, NEW F, NEW b, NEW con, NEW want, NEW received,
         ToOK(T), Longer(T, T2),
         \A k \in Len(T) + 1 .. Len(T2) :
           /\ T2[k].type # "ACK"
           /\ T2[k].type = "GET" => con /\ T2[k].hash = want,
         Stage(c, T, F, b, con, want, received)
  PROVE  Stage(c, T2, F, b, con, want, received)
<1>1. /\ Len(T) \in Nat /\ Len(T2) \in Nat /\ Len(T) <= Len(T2)
      /\ \A k \in 1 .. Len(T) : T2[k] = T[k]
  BY DEF Longer
<1>2. CASE Idle(c, T, F, b, con, want, received)
  <2>1. After(T2, 0, con, want, received)
    <3>1. 0 \in 0 .. Len(T)
      BY <1>1
    <3> QED
      BY <1>2, <3>1, AfterJoined DEF Idle
  <2> QED
    BY <1>2, <2>1 DEF Stage, Idle
<1>3. ASSUME NEW z \in 1 .. Len(T), Ending(c, T, F, b, con, want, received, z)
      PROVE  Stage(c, T2, F, b, con, want, received)
  <2>1. z \in 1 .. Len(T2) /\ z \in 0 .. Len(T)
    BY <1>1
  <2>2. After(T2, z, con, want, received)
    BY <1>3, <2>1, AfterJoined DEF Ending
  <2>3. Chain(T2, z, c.last_packet_acked)
    BY <1>3, <2>1, ChainKept DEF Ending
  <2>4. T2[z] = T[z] /\ \A k \in 1 .. z - 1 : T2[k] = T[k]
    BY <1>1
  <2>5. Ending(c, T2, F, b, con, want, received, z)
    BY <1>3, <2>1, <2>2, <2>3, <2>4 DEF Ending, IsAck
  <2> QED
    BY <2>1, <2>5 DEF Stage
<1>4. CASE Serving(c, T, F, b, con, want, received)
  <2>1. Chain(T2, Len(T2), c.last_packet_acked)
    BY <1>4, ChainJoined DEF Serving
  <2>2. \A k \in 1 .. Len(T2) : T2[k].type = "ACK" =>
          k \in 1 .. Len(T) /\ T2[k] = T[k]
    BY <1>1
  <2>3. \A k \in 1 .. Len(T) : T2[k] = T[k] /\ k \in 1 .. Len(T2)
    BY <1>1
  <2>4. \A k \in 1 .. Len(T2) : T2[k].type = "ACK" => T2[k].ack_number <= received
    BY <1>4, <2>2 DEF Serving
  <2>5. \/ c.last_packet_acked = received
        \/ \E k \in 1 .. Len(T2) : IsAck(T2, k, received)
    BY <1>4, <2>3 DEF Serving, IsAck
  <2>6. Serving(c, T2, F, b, con, want, received)
    BY <1>4, <2>1, <2>4, <2>5 DEF Serving
  <2> QED
    BY <2>6 DEF Stage
<1> QED
  BY <1>2, <1>3, <1>4 DEF Stage

\* The stage of a transfer after the downloader took the packet at the head.
\* A packet that is ignored.
LEMMA StagePassed ==
  ASSUME NEW c, NEW T, NEW F, NEW F2, FromOK(F), Shifted(F, F2),
         NEW b, NEW con \in BOOLEAN, NEW want, NEW received \in Nat,
         Flow(F, b, con, want, received),
         ~(con /\ IsData(F, 1, received + 1)),
         Stage(c, T, F, b, con, want, received)
  PROVE  Stage(c, T, F2, Ahead(b), con, want, received)
<1>1. /\ Len(F) \in Nat \ {0}
      /\ Len(F2) = Len(F) - 1
      /\ b \in 0 .. Len(F)
      /\ Ahead(b) \in 0 .. Len(F2)
  BY DEF Shifted, Flow, Ahead
<1>2. \A k \in Ahead(b) + 1 .. Len(F2) :
        F2[k] = F[k + 1] /\ k + 1 \in b + 1 .. Len(F)
  BY <1>1 DEF Shifted, Ahead
<1>3. b = Len(F) => Ahead(b) = Len(F2)
  BY <1>1 DEF Ahead
<1>4. CASE Idle(c, T, F, b, con, want, received)
  BY <1>3, <1>4 DEF Stage, Idle
<1>5. ASSUME NEW z \in 1 .. Len(T), Ending(c, T, F, b, con, want, received, z)
      PROVE  Stage(c, T, F2, Ahead(b), con, want, received)
  BY <1>3, <1>5 DEF Stage, Ending
<1>6. CASE Serving(c, T, F, b, con, want, received)
  <2>1. \/ c.last_packet_sent <= received
        \/ \E k \in Ahead(b) + 1 .. Len(F2) : IsData(F2, k, c.last_packet_sent)
    <3>1. SUFFICES ASSUME NEW k \in b + 1 .. Len(F), IsData(F, k, c.last_packet_sent),
                          ~(c.last_packet_sent <= received)
                   PROVE  \E i \in Ahead(b) + 1 .. Len(F2) :
                            IsData(F2, i, c.last_packet_sent)
      BY <1>6 DEF Serving
    <3>2. ~(b = 0 /\ k = 1)
      BY <1>1, <3>1, HeadIsOld DEF IsData
    <3>3. k - 1 \in Ahead(b) + 1 .. Len(F2) /\ (k - 1) + 1 = k
      BY <1>1, <3>2 DEF Ahead
    <3> QED
      BY <1>2, <3>1, <3>3 DEF IsData
  <2>2. c.last_packet_acked = 0 =>
          /\ received <= SLOW_START_INIT_WINDOW_SIZE
          /\ \A k \in Ahead(b) + 1 .. Len(F2) : F2[k].type = "DATA" =>
               F2[k].seq_number <= SLOW_START_INIT_WINDOW_SIZE
    BY <1>2, <1>6 DEF Serving
  <2>3. Serving(c, T, F2, Ahead(b), con, want, received)
    BY <1>6, <2>1, <2>2 DEF Serving
  <2> QED
    BY <2>3 DEF Stage
<1> QED
  BY <1>4, <1>5, <1>6 DEF Stage

\* A later packet arrived first: only what is left over comes so, and what
\* is acknowledged again is nothing.
LEMMA StageRepeated ==
  ASSUME NEW c, NEW T, NEW T2, NEW F, NEW F2, FromOK(F), ToOK(T),
         Shifted(F, F2), Longer(T, T2), Len(T2) = Len(T) + 1,
         c # NoConnection => c.last_packet_acked \in Nat,
         NEW b, NEW want, NEW received \in Nat,
         Flow(F, b, TRUE, want, received),
         F[1].type = "DATA", F[1].seq_number > received + 1,
         IsAck(T2, Len(T2), received),
         Stage(c, T, F, b, TRUE, want, received)
  PROVE  Stage(c, T2, F2, Ahead(b), TRUE, want, received)
<1>1. /\ Len(T) \in Nat /\ Len(T2) \in Nat
      /\ \A k \in 1 .. Len(T) : T2[k] = T[k]
      /\ \A k \in Len(T) + 1 .. Len(T2) : k = Len(T2)
  BY DEF Longer
<1>2. Len(F) # 0 /\ 1 \in 1 .. Len(F) /\ F[1].seq_number \in Nat
  BY DEF Shifted, FromOK
<1>3. ~IsData(F, 1, received + 1)
  BY <1>2 DEF IsData
<1>4. received = 0
  <2>1. b = 0 => F[1].seq_number <= received
    BY <1>2, <1>3, HeadIsOld
  <2> QED
    BY <1>2, <2>1 DEF Flow
<1>5. Stage(c, T, F2, Ahead(b), TRUE, want, received)
  BY <1>3, StagePassed
<1>6. CASE Idle(c, T, F2, Ahead(b), TRUE, want, received)
  <2>1. After(T2, 0, TRUE, want, received)
    <3>1. 0 \in 0 .. Len(T)
      BY <1>1
    <3> QED
      BY <1>1, <1>4, <1>6, <3>1, AfterJoined DEF Idle, IsAck
  <2> QED
    BY <1>6, <2>1 DEF Stage, Idle
<1>7. ASSUME NEW z \in 1 .. Len(T),
             Ending(c, T, F2, Ahead(b), TRUE, want, received, z)
      PROVE  Stage(c, T2, F2, Ahead(b), TRUE, want, received)
  <2>1. z \in 1 .. Len(T2) /\ z \in 0 .. Len(T)
    BY <1>1
  <2>2. After(T2, z, TRUE, want, received)
    BY <1>1, <1>4, <1>7, <2>1, AfterJoined DEF Ending, IsAck
  <2>3. Chain(T2, z, c.last_packet_acked)
    BY <1>7, <2>1, ChainKept DEF Ending
  <2>4. T2[z] = T[z] /\ \A k \in 1 .. z - 1 : T2[k] = T[k]
    BY <1>1
  <2>5. Ending(c, T2, F2, Ahead(b), TRUE, want, received, z)
    BY <1>7, <2>1, <2>2, <2>3, <2>4 DEF Ending, IsAck
  <2> QED
    BY <2>1, <2>5 DEF Stage
<1>8. CASE Serving(c, T, F2, Ahead(b), TRUE, want, received)
  <2>1. c.last_packet_acked \in Nat /\ c.last_packet_acked <= received
    BY <1>8 DEF Serving
  <2>2. Chain(T2, Len(T) + 1, c.last_packet_acked)
    BY <1>1, <1>8, <2>1, ChainAcked DEF Serving
  <2>3. \A k \in 1 .. Len(T2) : T2[k].type = "ACK" => T2[k].ack_number <= received
    <3>1. \A k \in 1 .. Len(T2) : k = Len(T2) \/ (k \in 1 .. Len(T) /\ T2[k] = T[k])
      BY <1>1
    <3> QED
      BY <1>8, <3>1 DEF Serving, IsAck
  <2>4. \/ c.last_packet_acked = received
        \/ \E k \in 1 .. Len(T2) : IsAck(T2, k, received)
    BY <1>1
  <2>5. Serving(c, T2, F2, Ahead(b), TRUE, want, received)
    BY <1>8, <2>2, <2>3, <2>4 DEF Serving
  <2> QED
    BY <2>5 DEF Stage
<1> QED
  BY <1>5, <1>6, <1>7, <1>8 DEF Stage

\* A connection opens: its GET is the first the provider has not yet taken.
LEMMA StageConnected ==
  ASSUME NEW c, NEW T, NEW T2, NEW F, NEW F2, FromOK(F), ToOK(T),
         Shifted(F, F2), Longer(T, T2), Len(T2) = Len(T) + 1,
         NEW b, NEW want, NEW received \in Nat,
         Flow(F, b, FALSE, want, received),
         NEW h, T2[Len(T2)].type = "GET", T2[Len(T2)].hash = h,
         Stage(c, T, F, b, FALSE, want, received)
  PROVE  Stage(c, T2, F2, Ahead(b), TRUE, h, 0)
<1>1. /\ Len(T) \in Nat /\ Len(T2) \in Nat
      /\ \A k \in 1 .. Len(T) : T2[k] = T[k]
  BY DEF Longer
<1>2. /\ Len(F) \in Nat \ {0}
      /\ Len(F2) = Len(F) - 1
      /\ b \in 0 .. Len(F)
  BY DEF Shifted, Flow
<1>3. b = Len(F) => Ahead(b) = Len(F2)
  BY <1>2 DEF Ahead
<1>4. ASSUME NEW z \in 0 .. Len(T), After(T, z, FALSE, want, received)
      PROVE  After(T2, z, TRUE, h, 0)
  <2>1. \A k \in z + 1 .. Len(T2) :
          k = Len(T2) \/ (k \in z + 1 .. Len(T) /\ T2[k] = T[k])
    BY <1>1
  <2>2. Len(T2) \in z + 1 .. Len(T2)
    BY <1>1
  <2> QED
    BY <1>4, <2>1, <2>2 DEF After
<1>5. CASE Idle(c, T, F, b, FALSE, want, received)
  <2>1. 0 \in 0 .. Len(T)
    BY <1>1
  <2> QED
    BY <1>3, <1>4, <1>5, <2>1 DEF Stage, Idle
<1>6. ASSUME NEW z \in 1 .. Len(T), Ending(c, T, F, b, FALSE, want, received, z)
      PROVE  Stage(c, T2, F2, Ahead(b), TRUE, h, 0)
  <2>1. z \in 1 .. Len(T2) /\ z \in 0 .. Len(T)
    BY <1>1
  <2>2. After(T2, z, TRUE, h, 0)
    BY <1>4, <1>6, <2>1 DEF Ending
  <2>3. Chain(T2, z, c.last_packet_acked)
    BY <1>6, <2>1, ChainKept DEF Ending
  <2>4. T2[z] = T[z] /\ \A k \in 1 .. z - 1 : T2[k] = T[k]
    BY <1>1
  <2>5. Ending(c, T2, F2, Ahead(b), TRUE, h, 0, z)
    BY <1>3, <1>6, <2>1, <2>2, <2>3, <2>4 DEF Ending, IsAck
  <2> QED
    BY <2>1, <2>5 DEF Stage
<1>7. ~Serving(c, T, F, b, FALSE, want, received)
  BY DEF Serving
<1> QED
  BY <1>5, <1>6, <1>7 DEF Stage

\* The expected packet arrives only while the provider serves.
LEMMA ExpectedWhileServing ==
  ASSUME NEW c, NEW T, NEW F, FromOK(F), Len(F) # 0,
         NEW b, NEW con \in BOOLEAN, NEW want, NEW received \in Nat,
         Flow(F, b, con, want, received),
         IsData(F, 1, received + 1),
         Stage(c, T, F, b, con, want, received)
  PROVE  b = 0 /\ Serving(c, T, F, b, con, want, received)
<1>1. b = 0
  BY FlowExpected
<1> QED
  BY <1>1 DEF Stage, Idle, Ending

\* What is known while the provider serves and the expected packet arrives.
LEMMA ServingAcked ==
  ASSUME NEW c, NEW T, NEW T2, NEW F, FromOK(F), ToOK(T), Len(F) # 0,
         Longer(T, T2), Len(T2) >= Len(T) + 1,
         c.last_packet_acked \in Nat,
         NEW want, NEW received \in Nat,
         IsData(F, 1, received + 1),
         Serving(c, T, F, 0, TRUE, want, received),
         IsAck(T2, Len(T) + 1, received + 1)
  PROVE  /\ Chain(T2, Len(T) + 1, c.last_packet_acked)
         /\ c.last_packet_acked = 0 => received + 1 <= SLOW_START_INIT_WINDOW_SIZE
<1>1. Chain(T2, Len(T) + 1, c.last_packet_acked)
  BY ChainAcked DEF Serving
<1>2. 1 \in 1 .. Len(F) /\ 1 \in 0 + 1 .. Len(F)
  BY DEF FromOK
<1> QED
  BY <1>1, <1>2 DEF Serving, IsData

\* The expected packet is saved, and acknowledged.
LEMMA StageSaved ==
  ASSUME NEW c, NEW T, NEW T2, NEW F, NEW F2, FromOK(F), ToOK(T),
         Shifted(F, F2), Longer(T, T2), Len(T2) = Len(T) + 1,
         c # NoConnection => /\ c.last_packet_acked \in Nat
                             /\ c.last_packet_sent \in Nat,
         NEW b, NEW want, NEW received \in Nat,
         Flow(F, b, TRUE, want, received),
         IsData(F, 1, received + 1),
         IsAck(T2, Len(T2), received + 1),
         Stage(c, T, F, b, TRUE, want, received)
  PROVE  Stage(c, T2, F2, 0, TRUE, want, received + 1)
<1>1. /\ Len(T) \in Nat /\ Len(T2) \in Nat
      /\ \A k \in 1 .. Len(T2) : k = Len(T2) \/ (k \in 1 .. Len(T) /\ T2[k] = T[k])
      /\ Len(T2) \in 1 .. Len(T2)
  BY DEF Longer
<1>2. /\ Len(F) \in Nat \ {0}
      /\ \A k \in 1 .. Len(F2) : F2[k] = F[k + 1] /\ k + 1 \in 1 .. Len(F)
      /\ \A k \in 1 .. Len(F) : k # 1 => k - 1 \in 1 .. Len(F2) /\ F2[k - 1] = F[k]
  <2>1. /\ Len(F) \in Nat \ {0}
        /\ Len(F2) = Len(F) - 1
        /\ \A k \in 1 .. Len(F2) : F2[k] = F[k + 1] /\ k + 1 \in 1 .. Len(F)
    BY DEF Shifted
  <2>2. \A k \in 1 .. Len(F) : k # 1 => k - 1 \in 1 .. Len(F2) /\ (k - 1) + 1 = k
    BY <2>1
  <2> QED
    BY <2>1, <2>2
<1>3. b = 0 /\ Serving(c, T, F, 0, TRUE, want, received)
  BY <1>2, ExpectedWhileServing
<1>4. c.last_packet_acked \in Nat /\ c.last_packet_acked <= received
  BY <1>3 DEF Serving
<1>5. /\ Chain(T2, Len(T2), c.last_packet_acked)
      /\ c.last_packet_acked = 0 => received + 1 <= SLOW_START_INIT_WINDOW_SIZE
  <2>1. /\ Len(F) # 0 /\ Len(T2) = Len(T) + 1 /\ Len(T2) >= Len(T) + 1
        /\ IsAck(T2, Len(T) + 1, received + 1)
    BY <1>1, <1>2
  <2> QED
    BY <1>3, <1>4, <2>1, ServingAcked
<1>6. \A k \in 1 .. Len(T2) : T2[k].type = "ACK" => T2[k].ack_number <= received + 1
  <2>1. \A k \in 1 .. Len(T) : T[k].type = "ACK" =>
          T[k].ack_number \in Nat /\ T[k].ack_number <= received
    BY <1>3 DEF Serving, ToOK
  <2> QED
    BY <1>1, <2>1 DEF IsAck
<1>7. \E k \in 1 .. Len(T2) : IsAck(T2, k, received + 1)
  BY <1>1
<1>8. \/ c.last_packet_sent <= received + 1
      \/ \E k \in 0 + 1 .. Len(F2) : IsData(F2, k, c.last_packet_sent)
  <2>1. SUFFICES ASSUME NEW k \in 1 .. Len(F), IsData(F, k, c.last_packet_sent),
                        ~(c.last_packet_sent <= received + 1)
                 PROVE  \E i \in 1 .. Len(F2) : IsData(F2, i, c.last_packet_sent)
    <3>1. c.last_packet_sent <= received => c.last_packet_sent <= received + 1
      BY <1>3 DEF Serving
    <3> QED
      BY <1>3, <3>1 DEF Serving
  <2>2. k # 1
    BY <2>1 DEF IsData
  <2> QED
    BY <1>2, <2>1, <2>2 DEF IsData
<1>9. c.last_packet_acked = 0 =>
        \A k \in 0 + 1 .. Len(F2) : F2[k].type = "DATA" =>
          F2[k].seq_number <= SLOW_START_INIT_WINDOW_SIZE
  BY <1>2, <1>3 DEF Serving
<1>10. Serving(c, T2, F2, 0, TRUE, want, received + 1)
  BY <1>3, <1>4, <1>5, <1>6, <1>7, <1>8, <1>9 DEF Serving
<1> QED
  BY <1>10 DEF Stage

\* The last packet of a chunk was acknowledged, and if the connection goes on
\* the next chunk was requested.
Ended(T, T2, con, want) ==
  /\ Longer(T, T2)
  /\ Len(T2) = Len(T) + (IF con THEN 2 ELSE 1)
  /\ IsAck(T2, Len(T) + 1, CHUNK_DATA_NUM)
  /\ con => T2[Len(T2)].type = "GET" /\ T2[Len(T2)].hash = want

\* The expected packet is the last of the chunk: its acknowledgement ends
\* the transfer at the provider, and the GET for the next chunk follows it.
LEMMA StageFinished ==
  ASSUME NEW c, NEW T, NEW T2, NEW F, NEW F2,
         NEW b, NEW want, NEW received \in Nat, NEW con2 \in BOOLEAN, NEW want2,
         FromOK(F), ToOK(T), Shifted(F, F2),
         c # NoConnection => c.last_packet_acked \in Nat,
         Flow(F, b, TRUE, want, received),
         IsData(F, 1, received + 1), received + 1 = CHUNK_DATA_NUM,
         Ended(T, T2, con2, want2),
         Stage(c, T, F, b, TRUE, want, received)
  PROVE  Stage(c, T2, F2, Len(F2), con2, want2, 0)
<1> DEFINE z == Len(T) + 1
<1>1. /\ Len(T) \in Nat /\ Len(T2) \in Nat
      /\ z \in 1 .. Len(T2)
      /\ \A k \in 1 .. z - 1 : T2[k] = T[k] /\ k \in 1 .. Len(T)
      /\ \A k \in z + 1 .. Len(T2) : con2 /\ k = Len(T2)
      /\ con2 => Len(T2) \in z + 1 .. Len(T2)
  BY DEF Ended, Longer
<1>2. Len(F) \in Nat \ {0} /\ Len(F) # 0
  BY DEF Shifted
<1>3. b = 0 /\ Serving(c, T, F, 0, TRUE, want, received)
  <2>1. TRUE \in BOOLEAN /\ IsData(F, 1, received + 1)
    OBVIOUS
  <2>2. b = 0 /\ Serving(c, T, F, b, TRUE, want, received)
    BY <1>2, <2>1, ExpectedWhileServing
  <2> QED
    BY <2>2
<1>4. c.last_packet_acked \in Nat /\ c.last_packet_acked <= received
  BY <1>3 DEF Serving
<1>5. /\ Chain(T2, z, c.last_packet_acked)
      /\ c.last_packet_acked = 0 => received + 1 <= SLOW_START_INIT_WINDOW_SIZE
  <2>1. /\ Len(T2) >= Len(T) + 1
        /\ Longer(T, T2)
        /\ IsAck(T2, Len(T) + 1, received + 1)
    BY <1>1 DEF Ended
  <2> QED
    BY <1>2, <1>3, <1>4, <2>1, ServingAcked
<1>6. c.last_packet_acked \in 1 .. CHUNK_DATA_NUM - 1
  BY <1>4, <1>5, Sizes
<1>7. \A k \in 1 .. z - 1 : T2[k].type = "ACK" => T2[k].ack_number < CHUNK_DATA_NUM
  <2>1. \A k \in 1 .. Len(T) : T[k].type = "ACK" =>
          T[k].ack_number \in Nat /\ T[k].ack_number <= received
    BY <1>3 DEF Serving, ToOK
  <2> QED
    BY <1>1, <2>1
<1>8. After(T2, z, con2, want2, 0)
  BY <1>1 DEF After, Ended
<1>9. Ending(c, T2, F2, Len(F2), con2, want2, 0, z)
  BY <1>1, <1>3, <1>5, <1>6, <1>7, <1>8 DEF Ending, Serving, Ended
<1> QED
  BY <1>1, <1>9 DEF Stage

-----------------------------------------------------------------------------
(* What becomes of the stage in a turn of the provider.                    *)

\* The packet at the head of a chain is taken: the connection has
\* acknowledged n now.
LEMMA ChainTaken ==
  ASSUME NEW T, NEW T2, ToOK(T), Shifted(T, T2), NEW z \in 1 .. Len(T),
         NEW acked \in Nat, NEW n \in Nat, Chain(T, z, acked),
         n = IF T[1].type = "ACK" THEN T[1].ack_number ELSE acked
  PROVE  Chain(T2, z - 1, n)
<1>1. /\ Len(T) \in Nat
      /\ \A k \in 1 .. z - 1 : T2[k] = T[k + 1] /\ k + 1 \in 1 .. z
                               /\ k + 1 \in 1 .. Len(T)
      /\ \A k \in 1 .. z - 1 : \A j \in 1 .. (k + 1) - 1 : j # 1 =>
           j - 1 \in 1 .. k - 1 /\ T2[j - 1] = T[j]
  <2>1. /\ Len(T) \in Nat /\ Len(T2) = Len(T) - 1
        /\ \A k \in 1 .. Len(T2) : T2[k] = T[k + 1]
    BY DEF Shifted
  <2>2. \A k \in 1 .. z - 1 : k \in 1 .. Len(T2) /\ k + 1 \in 1 .. z
                              /\ k + 1 \in 1 .. Len(T)
    BY <2>1
  <2>3. \A k \in 1 .. z - 1 : \A j \in 1 .. (k + 1) - 1 : j # 1 =>
          j - 1 \in 1 .. k - 1 /\ j - 1 \in 1 .. Len(T2) /\ (j - 1) + 1 = j
    BY <2>1
  <2> QED
    BY <2>1, <2>2, <2>3
<1>2. \A k \in 1 .. z - 1 : T2[k].type = "ACK" =>
        /\ n <= T2[k].ack_number
        /\ \/ T2[k].ack_number <= n + 1
           \/ \E j \in 1 .. k - 1 : IsAck(T2, j, T2[k].ack_number - 1)
  <2> SUFFICES ASSUME NEW k \in 1 .. z - 1, T2[k].type = "ACK"
               PROVE  /\ n <= T2[k].ack_number
                      /\ \/ T2[k].ack_number <= n + 1
                         \/ \E j \in 1 .. k - 1 : IsAck(T2, j, T2[k].ack_number - 1)
    OBVIOUS
  <2>1. /\ T2[k] = T[k + 1] /\ k + 1 \in 1 .. z
        /\ T[k + 1].ack_number \in Nat
        /\ 1 \in 1 .. z /\ 1 < k + 1
    BY <1>1 DEF ToOK
  <2>2. /\ acked <= T[k + 1].ack_number
        /\ \/ T[k + 1].ack_number <= acked + 1
           \/ \E j \in 1 .. (k + 1) - 1 : IsAck(T, j, T[k + 1].ack_number - 1)
    BY <2>1 DEF Chain
  <2>3. n <= T[k + 1].ack_number
    BY <2>1, <2>2 DEF Chain
  <2>4. acked <= n
    BY <2>1 DEF Chain
  <2>5. CASE T[k + 1].ack_number <= acked + 1
    BY <2>1, <2>3, <2>4, <2>5
  <2>6. CASE \E j \in 1 .. (k + 1) - 1 : IsAck(T, j, T[k + 1].ack_number - 1)
    <3>1. PICK j \in 1 .. (k + 1) - 1 : IsAck(T, j, T[k + 1].ack_number - 1)
      BY <2>6
    <3>2. CASE j = 1
      BY <2>1, <2>3, <3>1, <3>2 DEF IsAck
    <3>3. CASE j # 1
      BY <1>1, <2>1, <2>3, <3>1, <3>3 DEF IsAck
    <3> QED
      BY <3>2, <3>3
  <2> QED
    BY <2>2, <2>5, <2>6
<1>3. \A j, k \in 1 .. z - 1 :
        j < k /\ T2[j].type = "ACK" /\ T2[k].type = "ACK"
          => T2[j].ack_number <= T2[k].ack_number
  <2> SUFFICES ASSUME NEW j \in 1 .. z - 1, NEW k \in 1 .. z - 1,
                      j < k, T2[j].type = "ACK", T2[k].type = "ACK"
               PROVE  T2[j].ack_number <= T2[k].ack_number
    OBVIOUS
  <2>1. /\ T2[j] = T[j + 1] /\ j + 1 \in 1 .. z
        /\ T2[k] = T[k + 1] /\ k + 1 \in 1 .. z
        /\ j + 1 < k + 1
    BY <1>1
  <2> QED
    BY <2>1 DEF Chain
<1> QED
  BY <1>2, <1>3 DEF Chain

\* The packet at the head of T is none that After is about, or is gone.
LEMMA AfterTaken ==
  ASSUME NEW T, NEW T2, Shifted(T, T2), NEW z \in 0 .. Len(T),
         NEW con, NEW want, NEW received,
         After(T, z, con, want, received),
         z # 0 \/ T[1].type # "GET"
  PROVE  After(T2, IF z = 0 THEN 0 ELSE z - 1, con, want, received)
<1> DEFINE y == IF z = 0 THEN 0 ELSE z - 1
<1>1. /\ Len(T) \in Nat /\ Len(T2) = Len(T) - 1
      /\ \A k \in 1 .. Len(T2) : T2[k] = T[k + 1]
  BY DEF Shifted
<1>2. \A k \in y + 1 .. Len(T2) : k \in 1 .. Len(T2) /\ k + 1 \in z + 1 .. Len(T)
  BY <1>1
<1>3. \A k \in z + 1 .. Len(T) : ~(z = 0 /\ k = 1) =>
        k - 1 \in y + 1 .. Len(T2) /\ k - 1 \in 1 .. Len(T2) /\ (k - 1) + 1 = k
  BY <1>1
<1>4. \A k \in y + 1 .. Len(T2) :
        /\ T2[k].type = "ACK" => T2[k].ack_number = 0
        /\ T2[k].type = "GET" => con /\ T2[k].hash = want
  BY <1>1, <1>2 DEF After
<1>5. ASSUME con
      PROVE  received = 0 /\ \E k \in y + 1 .. Len(T2) : T2[k].type = "GET"
  <2>1. PICK k \in z + 1 .. Len(T) : T[k].type = "GET"
    BY <1>5 DEF After
  <2>2. T2[k - 1].type = "GET" /\ k - 1 \in y + 1 .. Len(T2)
    BY <1>1, <1>3, <2>1
  <2> QED
    BY <1>5, <2>2 DEF After
<1> QED
  BY <1>4, <1>5 DEF After

\* process_inbound_udp, of any packet, for a node that owns the hashes.
Taken(c, packet, hashes) ==
  IF packet.type = "GET"
    THEN IF c = NoConnection /\ packet.hash \in hashes
           THEN InitProviderConnection(packet.hash)
           ELSE c
  ELSE IF packet.type = "ACK" /\ c # NoConnection
    THEN LET d == ProviderControlByAck(c, packet.ack_number)
         IN  IF d.last_packet_acked = CHUNK_DATA_NUM THEN NoConnection
                                                     ELSE d
  ELSE c

\* A connection that is free, or has packets in flight.
Busy(c) ==
  c # NoConnection => Sound(c) /\ c.last_packet_acked < c.last_packet_sent

\* An acknowledgement of the chain that does not end the chunk is taken.
LEMMA AckTaken ==
  ASSUME NEW c, c # NoConnection, Busy(c),
         NEW T, ToOK(T), Len(T) # 0, NEW z \in 1 .. Len(T),
         Chain(T, z, c.last_packet_acked),
         T[1].type = "ACK", NEW hashes
  PROVE  LET n == T[1].ack_number
             d == ProviderControlByAck(c, n)
         IN  /\ n \in {c.last_packet_acked, c.last_packet_acked + 1}
             /\ n \in 0 .. CHUNK_DATA_NUM
             /\ Sound(d)
             /\ d.chunk = c.chunk
             /\ d.last_packet_acked = n
             /\ d.last_packet_sent \in {c.last_packet_sent, c.last_packet_acked}
             /\ \/ d.since_acked = 0
                \/ d.since_acked = c.since_acked /\ n = c.last_packet_acked
             /\ Taken(c, T[1], hashes) =
                  IF n = CHUNK_DATA_NUM THEN NoConnection ELSE d
<1> DEFINE n == T[1].ack_number
           d == ProviderControlByAck(c, n)
<1>1. /\ Sound(c)
      /\ c.last_packet_acked \in 0 .. CHUNK_DATA_NUM
      /\ c.last_packet_sent \in 0 .. CHUNK_DATA_NUM
      /\ c.last_packet_acked < c.last_packet_sent
  BY DEF Busy, Sound, ProviderConnection
<1>2. 1 \in 1 .. Len(T) /\ 1 \in 1 .. z
  BY DEF ToOK
<1>3. n \in 0 .. CHUNK_DATA_NUM
  BY <1>2 DEF ToOK
<1>4. n \in {c.last_packet_acked, c.last_packet_acked + 1}
  <2>1. ~\E j \in 1 .. 1 - 1 : IsAck(T, j, n - 1)
    OBVIOUS
  <2>2. c.last_packet_acked <= n /\ n <= c.last_packet_acked + 1
    BY <1>2, <2>1 DEF Chain
  <2> QED
    BY <1>1, <1>3, <2>2
<1>5. /\ Sound(d)
      /\ \/ /\ d.last_packet_acked = c.last_packet_acked
            /\ d.last_packet_sent \in {c.last_packet_sent, c.last_packet_acked}
         \/ /\ d.last_packet_acked = n
            /\ n \in c.last_packet_acked + 1 .. c.last_packet_sent
            /\ d.last_packet_sent = c.last_packet_sent
  BY <1>1, <1>3, ProviderControlByAckSound
<1>6. /\ d.chunk = c.chunk
      /\ d.since_acked \in {0, c.since_acked}
      /\ n \in c.last_packet_acked + 1 .. c.last_packet_sent =>
           d.last_packet_acked = n /\ d.since_acked = 0
  BY <1>1, <1>3, ProviderControlByAckSame
<1>7. Taken(c, T[1], hashes) =
        IF d.last_packet_acked = CHUNK_DATA_NUM THEN NoConnection ELSE d
  BY DEF Taken
<1> HIDE DEF d, n
<1>8. /\ d.last_packet_acked = n
      /\ d.since_acked = 0 \/ n = c.last_packet_acked
  <2>1. CASE n = c.last_packet_acked
    BY <1>1, <1>5, <2>1
  <2>2. CASE n = c.last_packet_acked + 1
    BY <1>1, <1>6, <2>2
  <2> QED
    BY <1>4, <2>1, <2>2
<1> QED
  BY <1>3, <1>4, <1>5, <1>6, <1>7, <1>8 DEF d, n

\* What the provider has when it took a packet: no connection, or one that
\* goes on, with no more acknowledged than before or as of now.
GoesOn(c, d) ==
  d # NoConnection =>
    /\ Sound(d)
    /\ d.last_packet_acked < CHUNK_DATA_NUM
    /\ \/ d.since_acked = 0
       \/ /\ c # NoConnection
          /\ d.since_acked = c.since_acked
          /\ d.last_packet_acked = c.last_packet_acked

\* A connection that is left alone goes on.
LEMMA BusyGoesOn ==
  ASSUME NEW c, Busy(c)
  PROVE  GoesOn(c, c)
BY Sizes, SMT DEF Busy, GoesOn, Sound, ProviderConnection

\* The provider is free: only the GET of the present transfer starts one.
LEMMA IdleTaken ==
  ASSUME NEW c, NEW T, NEW T2, ToOK(T), Shifted(T, T2), NEW F, FromOK(F),
         NEW b, NEW con, NEW want, NEW received \in Nat,
         NEW hashes, hashes \subseteq Hash, con => want \in hashes,
         Idle(c, T, F, b, con, want, received)
  PROVE  /\ Stage(Taken(c, T[1], hashes), T2, F, b, con, want, received)
         /\ GoesOn(c, Taken(c, T[1], hashes))
<1> DEFINE d == Taken(c, T[1], hashes)
<1>1. /\ Len(T) \in Nat \ {0}
      /\ Len(T2) = Len(T) - 1
      /\ 1 \in 0 + 1 .. Len(T)
      /\ 0 \in 0 .. Len(T)
      /\ \A k \in 1 .. Len(T2) : T2[k] = T[k + 1] /\ k + 1 \in 0 + 1 .. Len(T)
  BY DEF Shifted
<1>2. CASE T[1].type = "GET"
  <2>1. con /\ T[1].hash = want /\ want \in hashes /\ want \in Hash /\ received = 0
    BY <1>1, <1>2 DEF Idle, After
  <2>2. d = InitProviderConnection(want)
    BY <1>2, <2>1 DEF Taken, Idle
  <2> DEFINE e == InitProviderConnection(want)
  <2>3. Sound(e)
    BY <2>1, InitSound, SwarmAssumption
  <2>4. e # NoConnection
    BY <2>3, NoConnectionAssumption DEF Sound
  <2>5. /\ e.chunk = want
        /\ e.last_packet_acked = 0
        /\ e.last_packet_sent = 0
        /\ e.since_acked = 0
    BY DEF InitProviderConnection
  <2> HIDE DEF e
  <2>6. \A k \in 1 .. Len(T2) : T2[k].type = "ACK" => T2[k].ack_number = 0
    BY <1>1 DEF Idle, After
  <2>7. Chain(T2, Len(T2), 0)
    BY <2>6 DEF Chain
  <2>8. \A k : k \notin b + 1 .. Len(F)
    BY DEF Idle, FromOK
  <2>9. Serving(e, T2, F, b, con, want, received)
    BY <2>1, <2>4, <2>5, <2>6, <2>7, <2>8, Sizes DEF Serving
  <2>10. GoesOn(c, e)
    BY <2>3, <2>5, Sizes DEF GoesOn
  <2> QED
    BY <2>2, <2>9, <2>10 DEF Stage, e
<1>3. CASE T[1].type # "GET"
  <2>1. d = c /\ c = NoConnection
    BY <1>3 DEF Taken, Idle
  <2>2. After(T2, 0, con, want, received)
    BY <1>1, <1>3, AfterTaken DEF Idle
  <2> QED
    BY <2>1, <2>2 DEF Stage, Idle, GoesOn
<1> QED
  BY <1>2, <1>3

\* The provider has yet to see the end of the last transfer.
LEMMA EndingTaken ==
  ASSUME NEW c, NEW T, NEW T2, ToOK(T), Shifted(T, T2), NEW F, FromOK(F),
         NEW b, NEW con, NEW want, NEW received \in Nat,
         NEW hashes, Busy(c),
         NEW z \in 1 .. Len(T),
         Ending(c, T, F, b, con, want, received, z)
  PROVE  /\ Stage(Taken(c, T[1], hashes), T2, F, b, con, want, received)
         /\ GoesOn(c, Taken(c, T[1], hashes))
<1> DEFINE d == Taken(c, T[1], hashes)
<1>1. /\ Len(T) \in Nat \ {0}
      /\ Len(T2) = Len(T) - 1
      /\ z \in Nat \ {0} /\ z \in 0 .. Len(T)
      /\ \A k \in 1 .. Len(T2) : T2[k] = T[k + 1]
  BY DEF Shifted
<1>2. /\ c # NoConnection
      /\ c.last_packet_acked \in 1 .. CHUNK_DATA_NUM - 1
      /\ Chain(T, z, c.last_packet_acked)
  BY DEF Ending
<1>3. After(T2, z - 1, con, want, received)
  BY <1>1, AfterTaken DEF Ending
\* The connection that is left, unless the last acknowledgement came.
<1>4. ASSUME NEW e, e # NoConnection, z # 1,
             e.last_packet_acked \in 1 .. CHUNK_DATA_NUM - 1,
             Chain(T2, z - 1, e.last_packet_acked)
      PROVE  Stage(e, T2, F, b, con, want, received)
  <2>1. /\ z - 1 \in 1 .. Len(T2)
        /\ T2[z - 1] = T[z]
        /\ \A k \in 1 .. (z - 1) - 1 : T2[k] = T[k + 1] /\ k + 1 \in 1 .. z - 1
    <3>1. z - 1 \in 1 .. Len(T2) /\ (z - 1) + 1 = z
      BY <1>1, <1>4
    <3>2. \A k \in 1 .. (z - 1) - 1 : k \in 1 .. Len(T2) /\ k + 1 \in 1 .. z - 1
      BY <1>1
    <3> QED
      BY <1>1, <3>1, <3>2
  <2>2. IsAck(T2, z - 1, CHUNK_DATA_NUM)
    BY <2>1 DEF Ending, IsAck
  <2>3. \A k \in 1 .. (z - 1) - 1 : T2[k].type = "ACK" =>
          T2[k].ack_number < CHUNK_DATA_NUM
    BY <2>1 DEF Ending
  <2>4. Ending(e, T2, F, b, con, want, received, z - 1)
    BY <1>3, <1>4, <2>1, <2>2, <2>3 DEF Ending
  <2> QED
    BY <2>1, <2>4 DEF Stage
<1>5. CASE T[1].type # "ACK"
  <2>1. d = c
    BY <1>2, <1>5 DEF Taken
  <2>2. z # 1
    BY <1>5 DEF Ending, IsAck
  <2>3. Chain(T2, z - 1, c.last_packet_acked)
    BY <1>1, <1>2, <1>5, ChainTaken
  <2> QED
    BY <1>2, <1>4, <2>1, <2>2, <2>3, BusyGoesOn
<1>6. CASE T[1].type = "ACK"
  <2> DEFINE n == T[1].ack_number
             e == ProviderControlByAck(c, n)
  <2>0. /\ Len(T) # 0 /\ c # NoConnection
        /\ \E y \in 1 .. Len(T) : Chain(T, y, c.last_packet_acked)
    BY <1>1, <1>2
  <2>1. /\ n \in {c.last_packet_acked, c.last_packet_acked + 1}
        /\ n \in 0 .. CHUNK_DATA_NUM
        /\ Sound(e)
        /\ e.last_packet_acked = n
        /\ \/ e.since_acked = 0
           \/ e.since_acked = c.since_acked /\ n = c.last_packet_acked
        /\ d = IF n = CHUNK_DATA_NUM THEN NoConnection ELSE e
    BY <1>6, <2>0, AckTaken
  <2> HIDE DEF e, n
  <2>2. CASE z = 1
    <3>1. n = CHUNK_DATA_NUM
      BY <2>2 DEF Ending, IsAck, n
    <3>2. Idle(NoConnection, T2, F, b, con, want, received)
      BY <1>3, <2>2 DEF Ending, Idle
    <3> QED
      BY <2>1, <3>1, <3>2 DEF Stage, GoesOn
  <2>3. CASE z # 1
    <3>1. n < CHUNK_DATA_NUM
      <4>1. 1 \in 1 .. z - 1
        BY <1>1, <2>3
      <4> QED
        BY <1>6, <4>1 DEF Ending, n
    <3>2. d = e /\ n # CHUNK_DATA_NUM
      BY <2>1, <3>1
    <3>3. e # NoConnection
      BY <2>1, NoConnectionAssumption DEF Sound
    <3>4. e.last_packet_acked \in 1 .. CHUNK_DATA_NUM - 1
      BY <1>2, <2>1, <3>1, Sizes
    <3>5. Chain(T2, z - 1, e.last_packet_acked)
      BY <1>1, <1>2, <1>6, <2>1, ChainTaken DEF n
    <3>6. GoesOn(c, e)
      BY <1>2, <2>1, <3>1 DEF GoesOn
    <3> QED
      BY <1>4, <2>3, <3>2, <3>3, <3>4, <3>5, <3>6
  <2> QED
    BY <2>2, <2>3
<1> QED
  BY <1>5, <1>6

\* The provider serves the present transfer.
LEMMA ServingTaken ==
  ASSUME NEW c, NEW T, NEW T2, ToOK(T), Shifted(T, T2), NEW F, FromOK(F),
         NEW b, NEW con, NEW want, NEW received \in 0 .. CHUNK_DATA_NUM - 1,
         NEW hashes, Busy(c),
         Serving(c, T, F, b, con, want, received)
  PROVE  /\ Stage(Taken(c, T[1], hashes), T2, F, b, con, want, received)
         /\ GoesOn(c, Taken(c, T[1], hashes))
<1> DEFINE d == Taken(c, T[1], hashes)
<1>1. /\ Len(T) \in Nat \ {0} /\ Len(T) # 0
      /\ Len(T) \in 1 .. Len(T)
      /\ Len(T2) = Len(T) - 1
      /\ \A k \in 1 .. Len(T2) : T2[k] = T[k + 1] /\ k + 1 \in 1 .. Len(T)
      /\ \A k \in 1 .. Len(T) : k # 1 => k - 1 \in 1 .. Len(T2) /\ T2[k - 1] = T[k]
  <2>1. /\ Len(T) \in Nat \ {0}
        /\ Len(T2) = Len(T) - 1
        /\ \A k \in 1 .. Len(T2) : T2[k] = T[k + 1] /\ k + 1 \in 1 .. Len(T)
    BY DEF Shifted
  <2>2. \A k \in 1 .. Len(T) : k # 1 => k - 1 \in 1 .. Len(T2) /\ (k - 1) + 1 = k
    BY <2>1
  <2> QED
    BY <2>1, <2>2
<1>2. /\ c # NoConnection /\ con /\ c.chunk = want
      /\ c.last_packet_acked \in Nat
      /\ c.last_packet_sent \in Nat
      /\ c.last_packet_acked < c.last_packet_sent
      /\ c.last_packet_acked <= received
      /\ Chain(T, Len(T), c.last_packet_acked)
  BY DEF Serving, Busy, Sound, ProviderConnection
<1>3. \A k \in 1 .. Len(T2) : T2[k].type = "ACK" => T2[k].ack_number <= received
  BY <1>1 DEF Serving
<1>4. CASE T[1].type # "ACK"
  <2>1. d = c
    BY <1>2, <1>4 DEF Taken
  <2>2. Chain(T2, Len(T2), c.last_packet_acked)
    BY <1>1, <1>2, <1>4, ChainTaken
  <2>3. \/ c.last_packet_acked = received
        \/ \E k \in 1 .. Len(T2) : IsAck(T2, k, received)
    BY <1>1, <1>4 DEF Serving, IsAck
  <2>4. Serving(c, T2, F, b, con, want, received)
    BY <1>3, <2>2, <2>3 DEF Serving
  <2> QED
    BY <2>1, <2>4, BusyGoesOn DEF Stage
<1>5. CASE T[1].type = "ACK"
  <2> DEFINE n == T[1].ack_number
             e == ProviderControlByAck(c, n)
  <2>0. /\ Len(T) # 0 /\ c # NoConnection
        /\ \E z \in 1 .. Len(T) : Chain(T, z, c.last_packet_acked)
    BY <1>1, <1>2
  <2>1. /\ n \in {c.last_packet_acked, c.last_packet_acked + 1}
        /\ n \in 0 .. CHUNK_DATA_NUM
        /\ Sound(e)
        /\ e.chunk = c.chunk
        /\ e.last_packet_acked = n
        /\ e.last_packet_sent \in {c.last_packet_sent, c.last_packet_acked}
        /\ \/ e.since_acked = 0
           \/ e.since_acked = c.since_acked /\ n = c.last_packet_acked
        /\ d = IF n = CHUNK_DATA_NUM THEN NoConnection ELSE e
    BY <1>5, <2>0, AckTaken
  <2>2. n <= received
    BY <1>1, <1>5 DEF Serving
  <2>3. Chain(T2, Len(T2), n)
    <3>1. /\ n \in Nat
          /\ Len(T) - 1 = Len(T2)
          /\ n = IF T[1].type = "ACK" THEN T[1].ack_number ELSE c.last_packet_acked
      BY <1>1, <1>5, <2>1
    <3> HIDE DEF n
    <3>2. Chain(T2, Len(T) - 1, n)
      BY <1>1, <1>2, <3>1, ChainTaken
    <3> QED
      BY <3>1, <3>2
  <2>4. \/ n = received
        \/ \E k \in 1 .. Len(T2) : IsAck(T2, k, received)
    <3>1. CASE c.last_packet_acked = received
      BY <1>2, <2>1, <2>2, <3>1
    <3>2. CASE \E k \in 1 .. Len(T) : IsAck(T, k, received)
      BY <1>1, <3>2 DEF IsAck
    <3> QED
      BY <3>1, <3>2 DEF Serving
  <2> HIDE DEF e, n
  <2>5. d = e /\ n < CHUNK_DATA_NUM
    BY <2>1, <2>2, Sizes
  <2>6. e # NoConnection
    BY <2>1, NoConnectionAssumption DEF Sound
  <2>7. \/ e.last_packet_sent <= received
        \/ \E k \in b + 1 .. Len(F) : IsData(F, k, e.last_packet_sent)
    BY <1>2, <2>1 DEF Serving
  <2>8. n = 0 => c.last_packet_acked = 0
    BY <1>2, <2>1
  <2>9. n = 0 =>
          /\ received <= SLOW_START_INIT_WINDOW_SIZE
          /\ \A k \in b + 1 .. Len(F) : F[k].type = "DATA" =>
               F[k].seq_number <= SLOW_START_INIT_WINDOW_SIZE
    BY <2>8 DEF Serving
  <2>10. Serving(e, T2, F, b, con, want, received)
    BY <1>2, <1>3, <2>1, <2>2, <2>3, <2>4, <2>6, <2>7, <2>9 DEF Serving
  <2>11. GoesOn(c, e)
    BY <1>2, <2>1, <2>5 DEF GoesOn
  <2> QED
    BY <2>5, <2>10, <2>11 DEF Stage
<1> QED
  BY <1>4, <1>5

\* What is known of the two nodes of a transfer, and the packets between.
Alive(c, T, F, con, want, received) ==
  \E b \in 0 .. Len(F) :
    /\ Flow(F, b, con, want, received)
    /\ Stage(c, T, F, b, con, want, received)

\* Any packet at the head is taken.
LEMMA AliveTaken ==
  ASSUME NEW c, NEW T, NEW T2, ToOK(T), Shifted(T, T2), NEW F, FromOK(F),
         NEW con, NEW want, NEW received \in 0 .. CHUNK_DATA_NUM - 1,
         NEW hashes, hashes \subseteq Hash, con => want \in hashes,
         Busy(c), Alive(c, T, F, con, want, received)
  PROVE  /\ Alive(Taken(c, T[1], hashes), T2, F, con, want, received)
         /\ GoesOn(c, Taken(c, T[1], hashes))
<1>1. PICK b \in 0 .. Len(F) :
        /\ Flow(F, b, con, want, received)
        /\ Stage(c, T, F, b, con, want, received)
  BY DEF Alive
<1>2. received \in Nat
  OBVIOUS
<1>3. /\ Stage(Taken(c, T[1], hashes), T2, F, b, con, want, received)
      /\ GoesOn(c, Taken(c, T[1], hashes))
  <2>1. CASE Idle(c, T, F, b, con, want, received)
    BY <1>2, <2>1, IdleTaken
  <2>2. ASSUME NEW z \in 1 .. Len(T), Ending(c, T, F, b, con, want, received, z)
        PROVE  /\ Stage(Taken(c, T[1], hashes), T2, F, b, con, want, received)
               /\ GoesOn(c, Taken(c, T[1], hashes))
    BY <1>2, <2>2, EndingTaken
  <2>3. CASE Serving(c, T, F, b, con, want, received)
    BY <2>3, ServingTaken
  <2> QED
    BY <1>1, <2>1, <2>2, <2>3 DEF Stage
<1> QED
  BY <1>1, <1>3 DEF Alive

\* The same transfer, perhaps to be sent again from the last packet that was
\* acknowledged.
LEMMA AliveRewound ==
  ASSUME NEW c, NEW d, NEW T, NEW F,
         NEW con, NEW want, NEW received,
         c # NoConnection, d # NoConnection,
         d.chunk = c.chunk,
         d.last_packet_acked = c.last_packet_acked,
         d.last_packet_sent \in {c.last_packet_sent, c.last_packet_acked},
         Alive(c, T, F, con, want, received)
  PROVE  Alive(d, T, F, con, want, received)
<1>1. PICK b \in 0 .. Len(F) :
        /\ Flow(F, b, con, want, received)
        /\ Stage(c, T, F, b, con, want, received)
  BY DEF Alive
<1>2. Stage(d, T, F, b, con, want, received)
  <2>1. ASSUME NEW z \in 1 .. Len(T), Ending(c, T, F, b, con, want, received, z)
        PROVE  Ending(d, T, F, b, con, want, received, z)
    BY <2>1 DEF Ending
  <2>2. CASE Serving(c, T, F, b, con, want, received)
    <3>1. \/ d.last_packet_sent <= received
          \/ \E k \in b + 1 .. Len(F) : IsData(F, k, d.last_packet_sent)
      BY <2>2 DEF Serving
    <3>2. Serving(d, T, F, b, con, want, received)
      BY <2>2, <3>1 DEF Serving
    <3> QED
      BY <3>2 DEF Stage
  <2> QED
    BY <1>1, <2>1, <2>2 DEF Stage, Idle
<1> QED
  BY <1>1, <1>2 DEF Alive

\* All that is on its way is left over.
LEMMA FlowOver ==
  ASSUME NEW F, Len(F) \in Nat,
         \A k \in 1 .. Len(F) : F[k].type = "DATA" => F[k].seq_number >= 2,
         NEW con, NEW want
  PROVE  Flow(F, Len(F), con, want, 0)
<1>1. \A k : k \notin Len(F) + 1 .. Len(F)
  OBVIOUS
<1> QED
  BY <1>1 DEF Flow, NoGap, FirstAgain

\* Before a transfer starts nothing was received.
LEMMA OverReceivedNothing ==
  ASSUME NEW c, NEW T, NEW F, NEW b, NEW con \in BOOLEAN, NEW want, NEW received,
         ~con => received = 0,
         \/ Idle(c, T, F, b, con, want, received)
         \/ \E z \in 1 .. Len(T) : Ending(c, T, F, b, con, want, received, z)
  PROVE  received = 0 /\ b = Len(F)
BY DEF Idle, Ending, After

\* The provider answers a WHOHAS.
LEMMA AliveReplied ==
  ASSUME NEW c, NEW T, NEW F, NEW F2, FromOK(F), Longer(F, F2),
         \A k \in Len(F) + 1 .. Len(F2) : F2[k].type # "DATA",
         NEW con \in BOOLEAN, NEW want, NEW received,
         ~con => received = 0,
         Alive(c, T, F, con, want, received)
  PROVE  Alive(c, T, F2, con, want, received)
<1>1. PICK b \in 0 .. Len(F) :
        /\ Flow(F, b, con, want, received)
        /\ Stage(c, T, F, b, con, want, received)
  BY DEF Alive
<1>2. /\ Len(F) \in Nat /\ Len(F2) \in Nat /\ Len(F) <= Len(F2)
      /\ \A k \in 1 .. Len(F2) : F2[k].type = "DATA" =>
           k \in 1 .. Len(F) /\ F2[k] = F[k]
      /\ Len(F2) \in 0 .. Len(F2) /\ b \in 0 .. Len(F2)
  BY DEF Longer
<1>3. ASSUME received = 0, b = Len(F)
      PROVE  Flow(F2, Len(F2), con, want, received)
  BY <1>1, <1>2, <1>3, FlowOver DEF Flow
<1>4. CASE Idle(c, T, F, b, con, want, received)
  <2>1. Idle(c, T, F2, Len(F2), con, want, received)
    BY <1>4 DEF Idle
  <2>2. Flow(F2, Len(F2), con, want, received)
    <3>1. received = 0 /\ b = Len(F)
      BY <1>4 DEF Idle, After
    <3> QED
      BY <1>3, <3>1
  <2> QED
    BY <1>2, <2>1, <2>2 DEF Alive, Stage
<1>5. ASSUME NEW z \in 1 .. Len(T), Ending(c, T, F, b, con, want, received, z)
      PROVE  Alive(c, T, F2, con, want, received)
  <2>1. Ending(c, T, F2, Len(F2), con, want, received, z)
    BY <1>5 DEF Ending
  <2>2. Flow(F2, Len(F2), con, want, received)
    BY <1>3, <1>5, OverReceivedNothing
  <2> QED
    BY <1>2, <2>1, <2>2 DEF Alive, Stage
<1>6. CASE Serving(c, T, F, b, con, want, received)
  <2>1. Flow(F2, b, con, want, received)
    BY <1>1, FlowJoined
  <2>2. \A k \in b + 1 .. Len(F2) : F2[k].type = "DATA" =>
          k \in b + 1 .. Len(F) /\ F2[k] = F[k]
    BY <1>2
  <2>3. \A k \in b + 1 .. Len(F) : k \in b + 1 .. Len(F2) /\ F2[k] = F[k]
    BY <1>2 DEF Longer
  <2>4. Serving(c, T, F2, b, con, want, received)
    BY <1>6, <2>2, <2>3 DEF Serving, IsData
  <2> QED
    BY <1>2, <2>1, <2>4 DEF Alive, Stage
<1> QED
  BY <1>1, <1>4, <1>5, <1>6 DEF Stage

\* The provider sends the next DATA packet.
LEMMA AliveSent ==
  ASSUME NEW c, c # NoConnection, Sound(c), CanSend(c),
         NEW d, d # NoConnection, d.chunk = c.chunk,
         d.last_packet_acked = c.last_packet_acked,
         d.last_packet_sent = c.last_packet_sent + 1,
         NEW T, NEW F, NEW F2, FromOK(F), Longer(F, F2), Len(F2) = Len(F) + 1,
         IsData(F2, Len(F2), c.last_packet_sent + 1),
         F2[Len(F2)].hash = c.chunk,
         NEW con \in BOOLEAN, NEW want, NEW received \in Nat,
         ~con => received = 0,
         Alive(c, T, F, con, want, received)
  PROVE  Alive(d, T, F2, con, want, received)
<1>1. PICK b \in 0 .. Len(F) :
        /\ Flow(F, b, con, want, received)
        /\ Stage(c, T, F, b, con, want, received)
  BY DEF Alive
<1>2. /\ Len(F) \in Nat /\ Len(F2) \in Nat
      /\ \A k \in 1 .. Len(F2) : k = Len(F2) \/ (k \in 1 .. Len(F) /\ F2[k] = F[k])
      /\ \A k \in b + 1 .. Len(F2) : k = Len(F2) \/ (k \in b + 1 .. Len(F) /\ F2[k] = F[k])
      /\ Len(F2) \in 0 .. Len(F2) /\ b \in 0 .. Len(F2)
      /\ Len(F2) \in b + 1 .. Len(F2)
  BY DEF Longer
<1>3. /\ c.last_packet_sent \in Nat
      /\ c.last_packet_acked \in Nat
      /\ c.last_packet_acked <= c.last_packet_sent
      /\ c.window_size \in Nat
      /\ c.last_packet_sent - c.last_packet_acked < c.window_size
      /\ c.window_size <= SLOW_START_INIT_WINDOW_SIZE + c.last_packet_acked
  BY DEF Sound, ProviderConnection, CanSend
<1>4. ~Idle(c, T, F, b, con, want, received)
  BY DEF Idle
<1>5. ASSUME NEW z \in 1 .. Len(T), Ending(c, T, F, b, con, want, received, z)
      PROVE  Alive(d, T, F2, con, want, received)
  <2>1. Ending(d, T, F2, Len(F2), con, want, received, z)
    BY <1>5 DEF Ending
  <2>2. c.last_packet_sent + 1 >= 2
    BY <1>3, <1>5 DEF Ending
  <2>3. received = 0 /\ b = Len(F)
    BY <1>5, OverReceivedNothing
  <2>4. \A k \in 1 .. Len(F2) : F2[k].type = "DATA" => F2[k].seq_number >= 2
    BY <1>1, <1>2, <2>2, <2>3 DEF Flow, IsData
  <2>5. Flow(F2, Len(F2), con, want, received)
    BY <1>2, <2>3, <2>4, FlowOver
  <2> QED
    BY <1>2, <2>1, <2>5 DEF Alive, Stage
<1>6. CASE Serving(c, T, F, b, con, want, received)
  <2>1. c.last_packet_sent = 0 =>
          \A k \in b + 1 .. Len(F) : F[k].type = "DATA" =>
            F[k].seq_number <= SLOW_START_INIT_WINDOW_SIZE
    BY <1>3, <1>6 DEF Serving
  <2>2. con /\ F2[Len(F2)].hash = want
    BY <1>6 DEF Serving
  <2>3. \/ c.last_packet_sent <= received
        \/ \E k \in b + 1 .. Len(F) : IsData(F, k, c.last_packet_sent)
    BY <1>6 DEF Serving
  <2>4. Flow(F2, b, con, want, received)
    BY <1>1, <1>3, <2>1, <2>2, <2>3, FlowSent
  <2>5. \E k \in b + 1 .. Len(F2) : IsData(F2, k, d.last_packet_sent)
    BY <1>2
  <2>6. c.last_packet_acked = 0 =>
          \A k \in b + 1 .. Len(F2) : F2[k].type = "DATA" =>
            F2[k].seq_number <= SLOW_START_INIT_WINDOW_SIZE
    <3>1. c.last_packet_acked = 0 =>
            c.last_packet_sent + 1 <= SLOW_START_INIT_WINDOW_SIZE
      BY <1>3, Sizes
    <3> QED
      BY <1>2, <1>6, <3>1 DEF Serving, IsData
  <2>7. Serving(d, T, F2, b, con, want, received)
    BY <1>6, <2>5, <2>6 DEF Serving
  <2> QED
    BY <1>2, <2>4, <2>7 DEF Alive, Stage
<1> QED
  BY <1>1, <1>4, <1>5, <1>6 DEF Stage

-----------------------------------------------------------------------------
(* The transfer from one peer, its packets and its provider.               *)

\* What a downloader sends.
ToPacket ==
  [type : {"GET"}, hash : Hash] \cup
  [type : {"ACK"}, ack_number : 0 .. CHUNK_DATA_NUM] \cup
  P!WhoHas

\* What a peer sends that has the chunks of the hashes.
FromPacket(hashes) ==
  [type : {"IHAVE"}, hashes : Seq(hashes)] \cup
  [type : {"DATA"}, seq_number : 1 .. CHUNK_DATA_NUM, hash : Hash]

\* A connection of a provider, the packets between it and the downloader, and
\* the transfer as the downloader sees it; nothing but the packets from it is
\* left of a peer that is gone.
Transfer(c, T, F, con, want, received, gone, hashes) ==
  /\ T \in Seq(ToPacket)
  /\ F \in Seq(FromPacket(hashes))
  /\ IF gone
       THEN /\ c = NoConnection
            /\ T = <<>>
            /\ \E b \in 0 .. Len(F) : Flow(F, b, con, want, received)
       ELSE Busy(c) /\ Alive(c, T, F, con, want, received)

\* What is sent to a peer reaches it, unless it crashed.
Onto(T, sent, gone) == IF gone THEN <<>> ELSE T \o sent

\* The fields of a packet by its type.
LEMMA PacketTypes ==
  ASSUME NEW hashes, NEW x
  PROVE  /\ x \in ToPacket =>
              /\ x.type \in {"GET", "ACK", "WHOHAS"}
              /\ x.type = "GET" => x.hash \in Hash
              /\ x.type = "ACK" => x.ack_number \in 0 .. CHUNK_DATA_NUM
              /\ x.type = "WHOHAS" => x.hashes \in Seq(Hash)
         /\ x \in FromPacket(hashes) =>
              /\ x.type \in {"IHAVE", "DATA"}
              /\ x.type = "IHAVE" => x.hashes \in Seq(hashes)
              /\ x.type = "DATA" => x.seq_number \in 1 .. CHUNK_DATA_NUM
                                    /\ x.hash \in Hash
BY DEF ToPacket, FromPacket, P!WhoHas

\* The numbers in packets are those of a chunk.
LEMMA PacketsOK ==
  ASSUME NEW hashes
  PROVE  /\ \A T \in Seq(ToPacket) : ToOK(T)
         /\ \A F \in Seq(FromPacket(hashes)) : FromOK(F)
<1>1. ASSUME NEW T \in Seq(ToPacket)
      PROVE  ToOK(T)
  <2>1. Len(T) \in Nat /\ \A k \in 1 .. Len(T) : T[k] \in ToPacket
    OBVIOUS
  <2> QED
    BY <2>1, PacketTypes DEF ToOK
<1>2. ASSUME NEW F \in Seq(FromPacket(hashes))
      PROVE  FromOK(F)
  <2>1. Len(F) \in Nat /\ \A k \in 1 .. Len(F) : F[k] \in FromPacket(hashes)
    OBVIOUS
  <2> QED
    BY <2>1, PacketTypes DEF FromOK
<1> QED
  BY <1>1, <1>2

\* Packets that are sent queue up behind the others.
LEMMA SentBehind ==
  ASSUME NEW X, NEW s \in Seq(X), NEW t \in Seq(X)
  PROVE  /\ s \o t \in Seq(X)
         /\ Len(s \o t) = Len(s) + Len(t)
         /\ Longer(s, s \o t)
         /\ \A k \in Len(s) + 1 .. Len(s \o t) :
              k - Len(s) \in 1 .. Len(t) /\ (s \o t)[k] = t[k - Len(s)]
<1> DEFINE u == s \o t
<1>1. /\ Len(s) \in Nat /\ Len(t) \in Nat
      /\ u \in Seq(X) /\ Len(u) = Len(s) + Len(t)
      /\ \A i \in 1 .. Len(s) + Len(t) :
           u[i] = IF i <= Len(s) THEN s[i] ELSE t[i - Len(s)]
  BY ConcatProperties
<1> HIDE DEF u
<1>2. Longer(s, u)
  BY <1>1 DEF Longer
<1>3. \A k \in Len(s) + 1 .. Len(u) :
        k - Len(s) \in 1 .. Len(t) /\ u[k] = t[k - Len(s)]
  BY <1>1
<1> QED
  BY <1>1, <1>2, <1>3 DEF u

\* So does a single packet.
LEMMA OneSentBehind ==
  ASSUME NEW X, NEW s \in Seq(X), NEW x \in X
  PROVE  /\ s \o <<x>> \in Seq(X)
         /\ Len(s \o <<x>>) = Len(s) + 1
         /\ Longer(s, s \o <<x>>)
         /\ (s \o <<x>>)[Len(s \o <<x>>)] = x
         /\ (s \o <<x>>)[Len(s) + 1] = x
<1> DEFINE t == <<x>>
           u == s \o t
<1>1. t \in Seq(X) /\ Len(t) = 1 /\ t[1] = x /\ Len(s) \in Nat
  OBVIOUS
<1> HIDE DEF t
<1>2. /\ u \in Seq(X)
      /\ Len(u) = Len(s) + Len(t)
      /\ Longer(s, u)
      /\ \A k \in Len(s) + 1 .. Len(u) :
           k - Len(s) \in 1 .. Len(t) /\ u[k] = t[k - Len(s)]
  BY <1>1, SentBehind
<1> HIDE DEF u
<1>3. Len(u) = Len(s) + 1 /\ Len(u) \in Len(s) + 1 .. Len(u)
  BY <1>1, <1>2
<1>4. u[Len(u)] = x
  BY <1>1, <1>2, <1>3
<1> QED
  BY <1>2, <1>3, <1>4 DEF t, u

\* The first packet is read.
LEMMA ReadFirst ==
  ASSUME NEW X, NEW s \in Seq(X), s # <<>>
  PROVE  /\ Len(s) \in Nat \ {0}
         /\ s[1] \in X
         /\ Head(s) = s[1]
         /\ Tail(s) \in Seq(X)
         /\ Shifted(s, Tail(s))
<1>1. /\ Len(s) \in Nat \ {0}
      /\ s[1] \in X
      /\ Head(s) = s[1]
  BY EmptySeq
<1>2. /\ Tail(s) \in Seq(X) /\ Len(Tail(s)) = Len(s) - 1
      /\ \A i \in 1 .. Len(Tail(s)) : Tail(s)[i] = s[i + 1]
  BY HeadTailProperties
<1> QED
  BY <1>1, <1>2 DEF Shifted

\* A packet is read that does not go on with the chunk.
LEMMA TransferPassed ==
  ASSUME NEW c, NEW T, NEW F, NEW con \in BOOLEAN, NEW want,
         NEW received \in Nat, NEW gone, NEW hashes,
         Transfer(c, T, F, con, want, received, gone, hashes),
         F # <<>>,
         ~(con /\ IsData(F, 1, received + 1))
  PROVE  Transfer(c, T, Tail(F), con, want, received, gone, hashes)
<1> DEFINE F2 == Tail(F)
<1>1. F \in Seq(FromPacket(hashes)) /\ T \in Seq(ToPacket)
  BY DEF Transfer
<1>2. F2 \in Seq(FromPacket(hashes)) /\ Shifted(F, F2) /\ FromOK(F)
  BY <1>1, ReadFirst, PacketsOK
<1> HIDE DEF F2
<1>3. ASSUME NEW b \in 0 .. Len(F), Flow(F, b, con, want, received)
      PROVE  Ahead(b) \in 0 .. Len(F2) /\ Flow(F2, Ahead(b), con, want, received)
  <2>1. Flow(F2, Ahead(b), con, want, received)
    BY <1>2, <1>3, FlowPassed
  <2> QED
    BY <2>1 DEF Flow
<1>4. CASE gone
  BY <1>1, <1>2, <1>3, <1>4 DEF Transfer, F2
<1>5. CASE ~gone
  <2>1. Busy(c) /\ Alive(c, T, F, con, want, received)
    BY <1>5 DEF Transfer
  <2>2. PICK b \in 0 .. Len(F) : /\ Flow(F, b, con, want, received)
                                 /\ Stage(c, T, F, b, con, want, received)
    BY <2>1 DEF Alive
  <2>3. Stage(c, T, F2, Ahead(b), con, want, received)
    BY <1>2, <2>2, StagePassed
  <2>4. Alive(c, T, F2, con, want, received)
    BY <1>3, <2>2, <2>3 DEF Alive
  <2> QED
    BY <1>1, <1>2, <1>5, <2>1, <2>4 DEF Transfer, F2
<1> QED
  BY <1>4, <1>5

\* Requests for the chunk that is awaited, and WHOHAS, join the packets.
LEMMA TransferAsked ==
  ASSUME NEW c, NEW T, NEW F, NEW con, NEW want,
         NEW received, NEW gone, NEW hashes,
         Transfer(c, T, F, con, want, received, gone, hashes),
         NEW sent \in Seq(ToPacket),
         \A k \in 1 .. Len(sent) :
           /\ sent[k].type # "ACK"
           /\ sent[k].type = "GET" => con /\ sent[k].hash = want
  PROVE  Transfer(c, Onto(T, sent, gone), F, con, want, received, gone, hashes)
<1> DEFINE T2 == T \o sent
<1>1. F \in Seq(FromPacket(hashes)) /\ T \in Seq(ToPacket)
  BY DEF Transfer
<1>2. CASE gone
  BY <1>2, EmptySeq DEF Transfer, Onto
<1>3. CASE ~gone
  <2>1. /\ T2 \in Seq(ToPacket) /\ Longer(T, T2) /\ ToOK(T)
        /\ \A k \in Len(T) + 1 .. Len(T2) :
             k - Len(T) \in 1 .. Len(sent) /\ T2[k] = sent[k - Len(T)]
    BY <1>1, SentBehind, PacketsOK
  <2> HIDE DEF T2
  <2>2. \A k \in Len(T) + 1 .. Len(T2) :
          /\ T2[k].type # "ACK"
          /\ T2[k].type = "GET" => con /\ T2[k].hash = want
    BY <2>1
  <2>3. Busy(c) /\ Alive(c, T, F, con, want, received)
    BY <1>3 DEF Transfer
  <2>4. PICK b \in 0 .. Len(F) : /\ Flow(F, b, con, want, received)
                                 /\ Stage(c, T, F, b, con, want, received)
    BY <2>3 DEF Alive
  <2>5. Stage(c, T2, F, b, con, want, received)
    BY <2>1, <2>2, <2>4, StageJoined
  <2>6. Alive(c, T2, F, con, want, received)
    BY <2>4, <2>5 DEF Alive
  <2> QED
    BY <1>1, <1>3, <2>1, <2>3, <2>6 DEF Transfer, Onto, T2
<1> QED
  BY <1>2, <1>3

\* The counters of a connection are numbers.
LEMMA BusyInBounds ==
  ASSUME NEW c, Busy(c)
  PROVE  c # NoConnection => c.last_packet_acked \in Nat /\ c.last_packet_sent \in Nat
BY Sizes DEF Busy, Sound, ProviderConnection

\* A later DATA packet arrived: the last one received is acknowledged again.
LEMMA TransferRepeated ==
  ASSUME NEW c, NEW T, NEW F, NEW want,
         NEW received \in 0 .. CHUNK_DATA_NUM, NEW gone, NEW hashes,
         Transfer(c, T, F, TRUE, want, received, gone, hashes),
         F # <<>>, F[1].type = "DATA", F[1].seq_number > received + 1,
         NEW ack \in ToPacket, ack.type = "ACK", ack.ack_number = received
  PROVE  Transfer(c, Onto(T, <<ack>>, gone), Tail(F), TRUE, want, received, gone, hashes)
<1> DEFINE F2 == Tail(F)
           sent == <<ack>>
           T2 == T \o sent
<1>1. /\ F \in Seq(FromPacket(hashes)) /\ T \in Seq(ToPacket)
      /\ received \in Nat
  BY Sizes DEF Transfer
<1>2. F2 \in Seq(FromPacket(hashes)) /\ Shifted(F, F2) /\ FromOK(F)
  BY <1>1, ReadFirst, PacketsOK
<1>3. sent \in Seq(ToPacket) /\ Len(sent) = 1 /\ sent[1] = ack
  OBVIOUS
<1> HIDE DEF F2, sent
<1>4. ~IsData(F, 1, received + 1)
  BY <1>1 DEF IsData
<1>5. CASE gone
  <2>1. Transfer(c, T, F2, TRUE, want, received, gone, hashes)
    BY <1>1, <1>4, TransferPassed DEF F2
  <2> QED
    BY <1>5, <2>1 DEF Transfer, Onto, F2
<1>6. CASE ~gone
  <2>1. /\ T2 \in Seq(ToPacket) /\ Longer(T, T2) /\ ToOK(T)
        /\ Len(T2) = Len(T) + 1
        /\ T2[Len(T2)] = ack
    BY <1>1, OneSentBehind, PacketsOK DEF sent
  <2> HIDE DEF T2
  <2>2. Busy(c) /\ Alive(c, T, F, TRUE, want, received)
    BY <1>6 DEF Transfer
  <2>3. PICK b \in 0 .. Len(F) : /\ Flow(F, b, TRUE, want, received)
                                 /\ Stage(c, T, F, b, TRUE, want, received)
    BY <2>2 DEF Alive
  <2>4. Flow(F2, Ahead(b), TRUE, want, received)
    BY <1>1, <1>2, <1>4, <2>3, FlowPassed
  <2>5. IsAck(T2, Len(T2), received)
    BY <2>1 DEF IsAck
  <2>6. c # NoConnection => c.last_packet_acked \in Nat
    BY <2>2, BusyInBounds
  <2>7. Stage(c, T2, F2, Ahead(b), TRUE, want, received)
    BY <1>1, <1>2, <2>1, <2>3, <2>5, <2>6, StageRepeated
  <2>8. Alive(c, T2, F2, TRUE, want, received)
    BY <2>4, <2>7 DEF Alive, Flow
  <2> QED
    BY <1>2, <1>6, <2>1, <2>2, <2>8 DEF Transfer, Onto, F2, T2, sent
<1> QED
  BY <1>5, <1>6

\* An IHAVE leads to a connection with its sender, which is sent a GET.
LEMMA TransferConnected ==
  ASSUME NEW c, NEW T, NEW F, NEW want, NEW gone, NEW hashes,
         Transfer(c, T, F, FALSE, want, 0, gone, hashes),
         F # <<>>,
         NEW get \in ToPacket, get.type = "GET"
  PROVE  Transfer(c, Onto(T, <<get>>, gone), Tail(F), TRUE, get.hash, 0, gone, hashes)
<1> DEFINE F2 == Tail(F)
           sent == <<get>>
           T2 == T \o sent
<1>1. F \in Seq(FromPacket(hashes)) /\ T \in Seq(ToPacket)
  BY DEF Transfer
<1>2. F2 \in Seq(FromPacket(hashes)) /\ Shifted(F, F2) /\ FromOK(F)
  BY <1>1, ReadFirst, PacketsOK
<1>3. sent \in Seq(ToPacket) /\ Len(sent) = 1 /\ sent[1] = get
  OBVIOUS
<1> HIDE DEF F2, sent
<1>4. FromOK(F2)
  BY <1>2, PacketsOK
<1>5. CASE gone
  <2>1. Transfer(c, T, F2, FALSE, want, 0, gone, hashes)
    BY TransferPassed DEF F2
  <2>2. PICK b \in 0 .. Len(F2) : Flow(F2, b, FALSE, want, 0)
    BY <1>5, <2>1 DEF Transfer
  <2>3. Flow(F2, b, TRUE, get.hash, 0)
    BY <1>4, <2>2, FlowConnected
  <2> QED
    BY <1>5, <2>1, <2>3 DEF Transfer, Onto, F2
<1>6. CASE ~gone
  <2>1. /\ T2 \in Seq(ToPacket) /\ Longer(T, T2) /\ ToOK(T)
        /\ Len(T2) = Len(T) + 1
        /\ T2[Len(T2)] = get
    BY <1>1, OneSentBehind, PacketsOK DEF sent
  <2> HIDE DEF T2
  <2>2. Busy(c) /\ Alive(c, T, F, FALSE, want, 0)
    BY <1>6 DEF Transfer
  <2>3. PICK b \in 0 .. Len(F) : /\ Flow(F, b, FALSE, want, 0)
                                 /\ Stage(c, T, F, b, FALSE, want, 0)
    BY <2>2 DEF Alive
  <2>4. Flow(F2, Ahead(b), FALSE, want, 0)
    BY <1>2, <2>3, FlowPassed
  <2>5. Flow(F2, Ahead(b), TRUE, get.hash, 0)
    BY <1>4, <2>4, FlowConnected
  <2>6. Stage(c, T2, F2, Ahead(b), TRUE, get.hash, 0)
    BY <1>2, <2>1, <2>3, StageConnected
  <2>7. Alive(c, T2, F2, TRUE, get.hash, 0)
    BY <2>5, <2>6 DEF Alive, Flow
  <2> QED
    BY <1>2, <1>6, <2>1, <2>2, <2>7 DEF Transfer, Onto, F2, T2, sent
<1> QED
  BY <1>5, <1>6

\* The DATA packet that is expected, and more of the chunk to come.
LEMMA TransferSaved ==
  ASSUME NEW c, NEW T, NEW F, NEW want,
         NEW received \in Nat, NEW gone, NEW hashes,
         Transfer(c, T, F, TRUE, want, received, gone, hashes),
         F # <<>>, IsData(F, 1, received + 1),
         NEW ack \in ToPacket, ack.type = "ACK", ack.ack_number = received + 1
  PROVE  /\ F[1].hash = want
         /\ Transfer(c, Onto(T, <<ack>>, gone), Tail(F), TRUE, want, received + 1,
                     gone, hashes)
<1> DEFINE F2 == Tail(F)
           sent == <<ack>>
           T2 == T \o sent
<1>1. F \in Seq(FromPacket(hashes)) /\ T \in Seq(ToPacket)
  BY DEF Transfer
<1>2. /\ F2 \in Seq(FromPacket(hashes)) /\ Shifted(F, F2) /\ FromOK(F)
      /\ Len(F) # 0 /\ 0 \in 0 .. Len(F2)
  BY <1>1, ReadFirst, PacketsOK
<1> HIDE DEF F2, sent
<1>3. ASSUME NEW b \in 0 .. Len(F), Flow(F, b, TRUE, want, received)
      PROVE  F[1].hash = want /\ Flow(F2, 0, TRUE, want, received + 1)
  BY <1>2, <1>3, FlowExpected, FlowSaved
<1>4. CASE gone
  <2>1. PICK b \in 0 .. Len(F) : Flow(F, b, TRUE, want, received)
    BY <1>4 DEF Transfer
  <2>2. 0 \in 0 .. Len(F2) /\ Flow(F2, 0, TRUE, want, received + 1)
    BY <1>2, <1>3, <2>1
  <2> QED
    BY <1>1, <1>2, <1>3, <1>4, <2>1, <2>2 DEF Transfer, Onto, F2
<1>5. CASE ~gone
  <2>1. /\ T2 \in Seq(ToPacket) /\ Longer(T, T2) /\ ToOK(T)
        /\ Len(T2) = Len(T) + 1
        /\ T2[Len(T2)] = ack
    BY <1>1, OneSentBehind, PacketsOK DEF sent
  <2> HIDE DEF T2
  <2>2. Busy(c) /\ Alive(c, T, F, TRUE, want, received)
    BY <1>5 DEF Transfer
  <2>3. PICK b \in 0 .. Len(F) : /\ Flow(F, b, TRUE, want, received)
                                 /\ Stage(c, T, F, b, TRUE, want, received)
    BY <2>2 DEF Alive
  <2>4. IsAck(T2, Len(T2), received + 1)
    BY <2>1 DEF IsAck
  <2>5. c # NoConnection => /\ c.last_packet_acked \in Nat
                            /\ c.last_packet_sent \in Nat
    BY <2>2, BusyInBounds
  <2>6. Stage(c, T2, F2, 0, TRUE, want, received + 1)
    BY <1>2, <2>1, <2>3, <2>4, <2>5, StageSaved
  <2>7. Alive(c, T2, F2, TRUE, want, received + 1)
    BY <1>2, <1>3, <2>3, <2>6 DEF Alive
  <2> QED
    BY <1>2, <1>3, <1>5, <2>1, <2>2, <2>3, <2>7 DEF Transfer, Onto, F2, T2, sent
<1> QED
  BY <1>4, <1>5

\* What is sent when a chunk is complete.
Farewell(con, want) ==
  LET ack == [type |-> "ACK", ack_number |-> CHUNK_DATA_NUM]
      get == [type |-> "GET", hash |-> want]
  IN  IF con THEN <<ack, get>> ELSE <<ack>>

\* The end of a chunk, sent behind the other packets.
LEMMA FarewellSent ==
  ASSUME NEW T \in Seq(ToPacket), NEW con \in BOOLEAN, NEW want,
         Farewell(con, want) \in Seq(ToPacket)
  PROVE  /\ T \o Farewell(con, want) \in Seq(ToPacket)
         /\ Ended(T, T \o Farewell(con, want), con, want)
<1> DEFINE sent == Farewell(con, want)
           u == T \o sent
<1>1. /\ Len(T) \in Nat
      /\ sent \in Seq(ToPacket)
      /\ Len(sent) = IF con THEN 2 ELSE 1
      /\ sent[1].type = "ACK" /\ sent[1].ack_number = CHUNK_DATA_NUM
      /\ con => sent[2].type = "GET" /\ sent[2].hash = want
  BY DEF Farewell
<1> HIDE DEF sent
<1>2. /\ u \in Seq(ToPacket)
      /\ Len(u) = Len(T) + Len(sent)
      /\ Longer(T, u)
      /\ \A k \in Len(T) + 1 .. Len(u) :
           k - Len(T) \in 1 .. Len(sent) /\ u[k] = sent[k - Len(T)]
  BY <1>1, SentBehind
<1> HIDE DEF u
<1>3. /\ Len(T) + 1 \in Len(T) + 1 .. Len(u)
      /\ (Len(T) + 1) - Len(T) = 1
      /\ Len(u) \in Len(T) + 1 .. Len(u)
      /\ con => Len(u) - Len(T) = 2
  BY <1>1, <1>2
<1>4. u[Len(T) + 1] = sent[1] /\ (con => u[Len(u)] = sent[2])
  BY <1>1, <1>2, <1>3
<1>5. Ended(T, u, con, want)
  BY <1>1, <1>2, <1>4 DEF Ended, IsAck
<1> QED
  BY <1>2, <1>5 DEF u, sent

\* The last packet of the chunk.
LEMMA TransferFinished ==
  ASSUME NEW c, NEW T, NEW F, NEW want,
         NEW received \in Nat, NEW gone, NEW hashes,
         Transfer(c, T, F, TRUE, want, received, gone, hashes),
         F # <<>>, IsData(F, 1, received + 1), received + 1 = CHUNK_DATA_NUM,
         NEW con \in BOOLEAN, NEW want2,
         Farewell(con, want2) \in Seq(ToPacket)
  PROVE  Transfer(c, Onto(T, Farewell(con, want2), gone), Tail(F),
                  con, want2, 0, gone, hashes)
<1> DEFINE F2 == Tail(F)
           T2 == T \o Farewell(con, want2)
<1>1. F \in Seq(FromPacket(hashes)) /\ T \in Seq(ToPacket)
  BY DEF Transfer
<1>2. /\ F2 \in Seq(FromPacket(hashes)) /\ Shifted(F, F2) /\ FromOK(F)
      /\ Len(F) # 0 /\ Len(F2) \in 0 .. Len(F2)
  BY <1>1, ReadFirst, PacketsOK
<1> HIDE DEF F2
<1>3. ASSUME NEW b \in 0 .. Len(F), Flow(F, b, TRUE, want, received)
      PROVE  Flow(F2, Len(F2), con, want2, 0)
  BY <1>2, <1>3, FlowFinished
<1>4. CASE gone
  <2>1. PICK b \in 0 .. Len(F) : Flow(F, b, TRUE, want, received)
    BY <1>4 DEF Transfer
  <2>2. Flow(F2, Len(F2), con, want2, 0)
    BY <1>3, <2>1
  <2> QED
    BY <1>1, <1>2, <1>4, <2>2 DEF Transfer, Onto, F2
<1>5. CASE ~gone
  <2>1. /\ T2 \in Seq(ToPacket) /\ ToOK(T)
        /\ Ended(T, T2, con, want2)
    BY <1>1, FarewellSent, PacketsOK
  <2> HIDE DEF T2
  <2>2. Busy(c) /\ Alive(c, T, F, TRUE, want, received)
    BY <1>5 DEF Transfer
  <2>3. PICK b \in 0 .. Len(F) : /\ Flow(F, b, TRUE, want, received)
                                 /\ Stage(c, T, F, b, TRUE, want, received)
    BY <2>2 DEF Alive
  <2>4. c # NoConnection => c.last_packet_acked \in Nat
    BY <2>2, BusyInBounds
  <2>5. Stage(c, T2, F2, Len(F2), con, want2, 0)
    BY <1>2, <2>1, <2>3, <2>4, StageFinished
  <2>6. Alive(c, T2, F2, con, want2, 0)
    BY <1>2, <1>3, <2>3, <2>5 DEF Alive
  <2> QED
    BY <1>2, <1>5, <2>1, <2>2, <2>6 DEF Transfer, Onto, F2, T2
<1> QED
  BY <1>4, <1>5

\* A peer that crashed, and of which no packet is left, is given up.
LEMMA TransferGivenUp ==
  ASSUME NEW c, NEW F, NEW con, NEW want, NEW received, NEW hashes,
         Transfer(c, <<>>, F, con, want, received, TRUE, hashes),
         F = <<>>, NEW want2
  PROVE  Transfer(c, <<>>, F, FALSE, want2, 0, TRUE, hashes)
<1>1. F \in Seq(FromPacket(hashes)) /\ Len(F) = 0 /\ 0 \in 0 .. Len(F)
  BY DEF Transfer
<1>2. \A k \in 1 .. Len(F) : F[k].type = "DATA" => F[k].seq_number >= 2
  BY <1>1
<1>3. Flow(F, Len(F), FALSE, want2, 0)
  BY <1>1, <1>2, FlowOver
<1> QED
  BY <1>1, <1>3 DEF Transfer

\* The provider crashes.
LEMMA TransferCrashed ==
  ASSUME NEW c, NEW T, NEW F, NEW con, NEW want, NEW received, NEW hashes,
         Transfer(c, T, F, con, want, received, FALSE, hashes)
  PROVE  Transfer(NoConnection, <<>>, F, con, want, received, TRUE, hashes)
BY EmptySeq DEF Transfer, Alive

-----------------------------------------------------------------------------
(* A turn of the provider.                                                 *)

\* No connection is lost, and nothing is acknowledged.
Keeps(c, d) ==
  /\ c = NoConnection <=> d = NoConnection
  /\ c # NoConnection => d.last_packet_acked = c.last_packet_acked

\* The timers: a connection that heard of its receiver in time goes on.
LEMMA AliveTimed ==
  ASSUME NEW c, NEW T, NEW F, NEW con, NEW want, NEW received,
         Alive(c, T, F, con, want, received),
         c # NoConnection => /\ Sound(c)
                             /\ c.last_packet_acked < CHUNK_DATA_NUM
                             /\ c.since_acked <= PEER_CRASH_TIMEOUT
  PROVE  /\ Alive(AfterTimeout(c), T, F, con, want, received)
         /\ GoesOn(c, AfterTimeout(c))
         /\ Keeps(c, AfterTimeout(c))
<1> DEFINE d == AfterTimeout(c)
<1>1. CASE c = NoConnection
  BY <1>1 DEF AfterTimeout, GoesOn, Keeps
<1>2. CASE c # NoConnection
  <2>1. c.since_acked \in Nat /\ c \in ProviderConnection
    BY <1>2 DEF Sound, ProviderConnection, Age
  <2>2. d = ProviderControlByTimeout(c)
    BY <1>2, <2>1, ControlAssumption, SMT DEF AfterTimeout, ReceiverCrashed
  <2> HIDE DEF d
  <2>3. /\ Sound(d)
        /\ d.last_packet_acked = c.last_packet_acked
        /\ d.last_packet_sent \in {c.last_packet_sent, c.last_packet_acked}
        /\ d.chunk = c.chunk
        /\ d.since_acked = c.since_acked
    BY <1>2, <2>1, <2>2, ProviderControlByTimeoutSound, ProviderControlByTimeoutSame
    DEF SameTransfer
  <2>4. d # NoConnection
    BY <2>3, NoConnectionAssumption DEF Sound
  <2>5. Alive(d, T, F, con, want, received)
    BY <1>2, <2>3, <2>4, AliveRewound
  <2> QED
    BY <1>2, <2>3, <2>4, <2>5 DEF GoesOn, Keeps, d
<1> QED
  BY <1>1, <1>2

\* What the turn ends with: a DATA packet is sent if one can be.
Sent(c) == IF Sends(c) THEN SendDataPacket(c) ELSE c

\* The DATA packet that is sent, if one can be.
Packets(c) == IF Sends(c) THEN <<DataPacket(c)>> ELSE <<>>

\* A DATA packet of the turn goes on with the transfer, and without one the
\* window is full: packets are in flight.
LEMMA AliveAfterSending ==
  ASSUME NEW c, NEW T, NEW F, NEW con \in BOOLEAN, NEW want, NEW received \in Nat,
         NEW hashes,
         F \in Seq(FromPacket(hashes)),
         ~con => received = 0,
         Alive(c, T, F, con, want, received),
         c # NoConnection => Sound(c) /\ c.last_packet_acked < CHUNK_DATA_NUM
  PROVE  /\ F \o Packets(c) \in Seq(FromPacket(hashes))
         /\ Alive(Sent(c), T, F \o Packets(c), con, want, received)
         /\ Busy(Sent(c))
         /\ GoesOn(c, Sent(c))
         /\ Keeps(c, Sent(c))
<1>1. CASE Sends(c)
  <2> DEFINE d == SendDataPacket(c)
             packet == DataPacket(c)
             F2 == F \o <<packet>>
  <2>1. /\ Sent(c) = d
        /\ F \o Packets(c) = F2
        /\ c # NoConnection /\ Sound(c) /\ CanSend(c) /\ c \in ProviderConnection
        /\ c.last_packet_acked < CHUNK_DATA_NUM
    BY <1>1 DEF Sent, Packets, Sends, Sound
  <2>2. /\ packet.type = "DATA"
        /\ packet.seq_number = c.last_packet_sent + 1
        /\ packet.hash = c.chunk
    BY DEF DataPacket
  <2>3. /\ Sound(d)
        /\ d.last_packet_acked = c.last_packet_acked
        /\ d.last_packet_sent = c.last_packet_sent + 1
        /\ c.last_packet_sent < CHUNK_DATA_NUM
        /\ d.chunk = c.chunk
        /\ d.since_acked = c.since_acked
    BY <2>1, SendDataPacketSound, SendDataPacketSame DEF SameTransfer
  <2>4. /\ c.chunk \in Hash
        /\ c.last_packet_sent \in Nat
        /\ c.last_packet_acked \in Nat
        /\ c.last_packet_acked <= c.last_packet_sent
    BY <2>1, Sizes, SwarmAssumption DEF Sound, ProviderConnection
  <2>5. packet \in FromPacket(hashes)
    <3>1. c.last_packet_sent + 1 \in 1 .. CHUNK_DATA_NUM
      BY <2>3, <2>4, Sizes
    <3> QED
      BY <2>4, <3>1 DEF DataPacket, FromPacket
  <2> HIDE DEF d, packet
  <2>6. /\ F2 \in Seq(FromPacket(hashes))
        /\ Len(F2) = Len(F) + 1
        /\ Longer(F, F2)
        /\ F2[Len(F2)] = packet
        /\ FromOK(F)
    BY <2>5, OneSentBehind, PacketsOK
  <2> HIDE DEF F2
  <2>7. IsData(F2, Len(F2), c.last_packet_sent + 1) /\ F2[Len(F2)].hash = c.chunk
    BY <2>2, <2>6 DEF IsData
  <2>8. d # NoConnection
    BY <2>3, NoConnectionAssumption DEF Sound
  <2>9. Alive(d, T, F2, con, want, received)
    BY <2>1, <2>3, <2>6, <2>7, <2>8, AliveSent
  <2>10. Busy(d) /\ GoesOn(c, d) /\ Keeps(c, d)
    BY <2>1, <2>3, <2>4, <2>8 DEF Busy, GoesOn, Keeps
  <2> QED
    BY <2>1, <2>6, <2>9, <2>10
<1>2. CASE ~Sends(c)
  <2>1. Sent(c) = c /\ F \o Packets(c) = F
    BY <1>2 DEF Sent, Packets
  <2>2. ASSUME c # NoConnection
        PROVE  c.last_packet_acked < c.last_packet_sent
    <3>1. ~CanSend(c) /\ Sound(c) /\ c.last_packet_acked < CHUNK_DATA_NUM
      BY <1>2, <2>2 DEF Sends
    <3>2. /\ c.last_packet_acked \in Nat /\ c.last_packet_sent \in Nat
          /\ c.window_size \in Nat /\ c.window_size >= 1
          /\ c.last_packet_acked <= c.last_packet_sent
      BY <3>1, Sizes DEF Sound, ProviderConnection
    <3> QED
      BY <3>1, <3>2, Sizes DEF CanSend
  <2> QED
    BY <2>1, <2>2 DEF Busy, GoesOn, Keeps
<1> QED
  BY <1>1, <1>2

\* The downloader awaits want, if it is connected, of which it received some.
Asks(con, want, received, hashes) ==
  /\ con \in BOOLEAN
  /\ received \in 0 .. CHUNK_DATA_NUM - 1
  /\ hashes \subseteq Hash
  /\ ~con => received = 0
  /\ con => want \in hashes

\* The connection is d when the first packet, if any, was handled.
TakesFirst(c, T, hashes, d) == d = IF T = <<>> THEN c ELSE Taken(c, T[1], hashes)

\* The reply to WHOHAS.
Answers(reply, hashes) ==
  /\ reply \in Seq(FromPacket(hashes))
  /\ \A k \in 1 .. Len(reply) : reply[k].type # "DATA"

\* A whole turn: the first packet, if any; the timers; the reply to WHOHAS
\* and the DATA packet.
LEMMA TransferTurn ==
  ASSUME NEW c, NEW T, NEW F, NEW con, NEW want, NEW received, NEW hashes,
         NEW reply, NEW d,
         Transfer(c, T, F, con, want, received, FALSE, hashes),
         Asks(con, want, received, hashes),
         c # NoConnection => c.since_acked <= PEER_CRASH_TIMEOUT,
         TakesFirst(c, T, hashes, d),
         Answers(reply, hashes)
  PROVE  LET e == AfterTimeout(d)
         IN  /\ Transfer(Sent(e), IF T = <<>> THEN T ELSE Tail(T),
                         (F \o reply) \o Packets(e), con, want, received, FALSE, hashes)
             /\ GoesOn(c, Sent(e))
             /\ Keeps(d, Sent(e))
<1> DEFINE e == AfterTimeout(d)
           T2 == IF T = <<>> THEN T ELSE Tail(T)
           F1 == F \o reply
           F2 == F1 \o Packets(e)
<1>0. /\ con \in BOOLEAN
      /\ received \in 0 .. CHUNK_DATA_NUM - 1
      /\ hashes \subseteq Hash
      /\ ~con => received = 0
      /\ con => want \in hashes
      /\ d = IF T = <<>> THEN c ELSE Taken(c, T[1], hashes)
      /\ reply \in Seq(FromPacket(hashes))
      /\ \A k \in 1 .. Len(reply) : reply[k].type # "DATA"
  BY DEF Asks, TakesFirst, Answers
<1> USE <1>0
<1>1. /\ F \in Seq(FromPacket(hashes)) /\ T \in Seq(ToPacket)
      /\ Busy(c) /\ Alive(c, T, F, con, want, received)
      /\ received \in Nat
  BY Sizes DEF Transfer
<1>2. FromOK(F) /\ ToOK(T)
  BY <1>1, PacketsOK
<1>3. T2 \in Seq(ToPacket) /\ Alive(d, T2, F, con, want, received) /\ GoesOn(c, d)
  <2>1. CASE T = <<>>
    BY <1>1, <2>1, BusyGoesOn
  <2>2. CASE T # <<>>
    <3>1. Tail(T) \in Seq(ToPacket) /\ Shifted(T, Tail(T))
      BY <1>1, <2>2, ReadFirst
    <3>2. /\ Alive(Taken(c, T[1], hashes), Tail(T), F, con, want, received)
          /\ GoesOn(c, Taken(c, T[1], hashes))
      BY <1>1, <1>2, <3>1, AliveTaken
    <3> QED
      BY <2>2, <3>1, <3>2
  <2> QED
    BY <2>1, <2>2
<1> HIDE DEF T2
<1>4. Alive(e, T2, F, con, want, received) /\ GoesOn(d, e) /\ Keeps(d, e)
  <2>1. d # NoConnection => /\ Sound(d)
                            /\ d.last_packet_acked < CHUNK_DATA_NUM
                            /\ d.since_acked <= PEER_CRASH_TIMEOUT
    BY <1>3, ControlAssumption DEF GoesOn
  <2> QED
    BY <1>3, <2>1, AliveTimed
<1> HIDE DEF e
<1>5. F1 \in Seq(FromPacket(hashes)) /\ Alive(e, T2, F1, con, want, received)
  <2>1. /\ F1 \in Seq(FromPacket(hashes))
        /\ Longer(F, F1)
        /\ \A k \in Len(F) + 1 .. Len(F1) :
             k - Len(F) \in 1 .. Len(reply) /\ F1[k] = reply[k - Len(F)]
    BY <1>1, SentBehind
  <2> HIDE DEF F1
  <2>2. \A k \in Len(F) + 1 .. Len(F1) : F1[k].type # "DATA"
    BY <2>1
  <2> QED
    BY <1>2, <1>4, <2>1, <2>2, AliveReplied
<1> HIDE DEF F1
<1>6. /\ F2 \in Seq(FromPacket(hashes))
      /\ Alive(Sent(e), T2, F2, con, want, received)
      /\ Busy(Sent(e))
      /\ GoesOn(e, Sent(e))
      /\ Keeps(e, Sent(e))
  <2>1. e # NoConnection => Sound(e) /\ e.last_packet_acked < CHUNK_DATA_NUM
    BY <1>4 DEF GoesOn
  <2> QED
    BY <1>1, <1>5, <2>1, AliveAfterSending
<1>7. GoesOn(c, Sent(e)) /\ Keeps(d, Sent(e))
  BY <1>3, <1>4, <1>6 DEF GoesOn, Keeps
<1> HIDE DEF F2
<1>8. Transfer(Sent(e), T2, F2, con, want, received, FALSE, hashes)
  BY <1>3, <1>6 DEF Transfer
<1> QED
  BY <1>7, <1>8 DEF e, T2, F1, F2

\* Time passes for the connection of the provider.
LEMMA TransferAged ==
  ASSUME NEW c, NEW T, NEW F, NEW con, NEW want, NEW received, NEW hashes,
         Transfer(c, T, F, con, want, received, FALSE, hashes),
         c # NoConnection
  PROVE  Transfer(Elapse(c, 1), T, F, con, want, received, FALSE, hashes)
<1> DEFINE d == Elapse(c, 1)
<1>1. /\ T \in Seq(ToPacket) /\ F \in Seq(FromPacket(hashes))
      /\ Busy(c) /\ Alive(c, T, F, con, want, received)
  BY DEF Transfer
<1>2. Sound(c) /\ c \in ProviderConnection /\ 1 \in {0, 1}
  BY <1>1 DEF Busy, Sound
<1>3. /\ Sound(d)
      /\ d.last_packet_acked = c.last_packet_acked
      /\ d.last_packet_sent = c.last_packet_sent
      /\ d.chunk = c.chunk
  BY <1>2, ElapseSound, ElapseSame
<1> HIDE DEF d
<1>4. d # NoConnection
  BY <1>3, NoConnectionAssumption DEF Sound
<1>5. Alive(d, T, F, con, want, received)
  BY <1>1, <1>3, <1>4, AliveRewound
<1>6. Busy(d)
  BY <1>1, <1>3 DEF Busy
<1> QED
  BY <1>1, <1>5, <1>6 DEF Transfer, d

\* When nothing is on its way, nothing is going on.
LEMMA NothingOnTheWay ==
  ASSUME NEW c, NEW con \in BOOLEAN, NEW want, NEW received \in Nat, NEW hashes,
         Transfer(c, <<>>, <<>>, con, want, received, FALSE, hashes)
  PROVE  c = NoConnection /\ ~con
<1> DEFINE T == <<>>
           F == <<>>
<1>1. Len(T) = 0 /\ Len(F) = 0
  OBVIOUS
<1>2. Transfer(c, T, F, con, want, received, FALSE, hashes)
  OBVIOUS
<1> HIDE DEF T, F
<1>3. Busy(c) /\ Alive(c, T, F, con, want, received)
  BY <1>2 DEF Transfer
<1>4. PICK b \in 0 .. Len(F) : Stage(c, T, F, b, con, want, received)
  BY <1>3 DEF Alive
<1>5. /\ \A k \in 1 .. Len(T) : FALSE
      /\ \A k \in 0 + 1 .. Len(T) : FALSE
      /\ \A k \in b + 1 .. Len(F) : FALSE
  BY <1>1, <1>4
<1>6. CASE Idle(c, T, F, b, con, want, received)
  BY <1>5, <1>6 DEF Idle, After
<1>7. CASE Serving(c, T, F, b, con, want, received)
  <2>1. /\ c.last_packet_acked = received
        /\ c.last_packet_sent <= received
        /\ c # NoConnection
    BY <1>5, <1>7 DEF Serving
  <2> QED
    BY <1>3, <2>1, BusyInBounds DEF Busy
<1> QED
  BY <1>4, <1>5, <1>6, <1>7 DEF Stage

-----------------------------------------------------------------------------
(* How late the packets are that a transfer waits for: LT and LF tell of   *)
(* the packets of T and F how many ticks each is late.                     *)

Lateness == 0 .. MaxDelay

\* Every packet has its lateness.
Paired(packets, late) == late \in Seq(Lateness) /\ Len(late) = Len(packets)

\* The downloader heard of the peer in time: either the packet it expects is
\* on its way, and was sent no longer ago than the one before it took; or the
\* peer is gone; or the GET, or the acknowledgement, that it answers is.
HeardInTime(T, LT, F, LF, received, gone, unheard) ==
  \/ \E k \in 1 .. Len(F) : /\ IsData(F, k, received + 1)
                            /\ unheard <= MaxDelay + LF[k]
  \/ gone /\ \A k \in 1 .. Len(F) : unheard <= MaxDelay + LF[k]
  \/ /\ ~gone /\ received = 0
     /\ \E k \in 1 .. Len(T) : /\ T[k].type = "GET"
                               /\ unheard <= LT[k]
                               /\ \A j \in k .. Len(T) : ~IsAck(T, j, CHUNK_DATA_NUM)
  \/ /\ ~gone /\ received # 0
     /\ \E k \in 1 .. Len(T) : IsAck(T, k, received) /\ unheard <= LT[k]

\* The provider was acknowledged in time: a new acknowledgement is on its way,
\* or the packet that leads to it is.
AckedInTime(c, T, LT, F, LF, con, received) ==
  \/ \E k \in 1 .. Len(T) : /\ T[k].type = "ACK"
                            /\ T[k].ack_number > c.last_packet_acked
                            /\ c.since_acked <= MaxDelay + LT[k]
  \/ /\ con /\ received = c.last_packet_acked
     /\ \E k \in 1 .. Len(F) : /\ IsData(F, k, received + 1)
                               /\ c.since_acked <= LF[k]

\* Both ends of a transfer heard of each other in time.
Timely(c, T, LT, F, LF, con, received, gone, unheard) ==
  /\ Paired(T, LT)
  /\ Paired(F, LF)
  /\ con => HeardInTime(T, LT, F, LF, received, gone, unheard)
  /\ c # NoConnection => AckedInTime(c, T, LT, F, LF, con, received)

\* Packets that are sent are on time.
LEMMA OnTimePaired ==
  ASSUME NEW X, NEW sent \in Seq(X)
  PROVE  /\ Paired(sent, OnTime(sent))
         /\ Len(OnTime(sent)) = Len(sent)
         /\ sent = <<>> => OnTime(sent) = <<>>
<1>1. /\ DOMAIN sent = 1 .. Len(sent) /\ Len(sent) \in Nat
      /\ 0 \in Lateness
  BY SwarmAssumption DEF Lateness
<1>2. OnTime(sent) = [k \in 1 .. Len(sent) |-> 0]
  BY <1>1 DEF OnTime
<1>3. OnTime(sent) \in Seq(Lateness) /\ Len(OnTime(sent)) = Len(sent)
  BY <1>1, <1>2
<1>4. sent = <<>> => OnTime(sent) = <<>>
  BY <1>3, EmptySeq
<1> QED
  BY <1>3, <1>4 DEF Paired

\* The packets behind the first d are still on their way, as late as they were.
Kept(S, LS, S2, LS2, d) ==
  \A k \in 1 .. Len(S) : k > d => /\ k - d \in 1 .. Len(S2)
                                  /\ S2[k - d] = S[k]
                                  /\ LS2[k - d] = LS[k]

\* Packets join the others.
LEMMA KeptJoined ==
  ASSUME NEW X, NEW S \in Seq(X), NEW LS, Paired(S, LS), NEW sent \in Seq(X)
  PROVE  /\ Paired(S \o sent, LS \o OnTime(sent))
         /\ Kept(S, LS, S \o sent, LS \o OnTime(sent), 0)
<1> DEFINE on == OnTime(sent)
           S2 == S \o sent
           L2 == LS \o on
<1>1. on \in Seq(Lateness) /\ Len(on) = Len(sent) /\ LS \in Seq(Lateness)
      /\ Len(LS) = Len(S)
  BY OnTimePaired DEF Paired
<1> HIDE DEF on
<1>2. /\ Len(S2) = Len(S) + Len(sent)
      /\ Longer(S, S2)
      /\ L2 \in Seq(Lateness)
      /\ Len(L2) = Len(LS) + Len(on)
      /\ Longer(LS, L2)
  BY <1>1, SentBehind
<1> HIDE DEF S2, L2
<1>3. Paired(S2, L2) /\ Kept(S, LS, S2, L2, 0)
  BY <1>1, <1>2 DEF Paired, Kept, Longer
<1> QED
  BY <1>3 DEF S2, L2, on

\* The first of them is read.
LEMMA KeptRead ==
  ASSUME NEW X, NEW S \in Seq(X), NEW LS, Paired(S, LS), S # <<>>
  PROVE  /\ Paired(Tail(S), Tail(LS))
         /\ Kept(S, LS, Tail(S), Tail(LS), 1)
         /\ Shifted(S, Tail(S))
         /\ Shifted(LS, Tail(LS))
         /\ LS[1] \in Lateness
<1>1. LS \in Seq(Lateness) /\ Len(LS) = Len(S) /\ Len(S) \in Nat \ {0} /\ LS # <<>>
  BY ReadFirst, EmptySeq DEF Paired
<1>2. /\ Shifted(S, Tail(S)) /\ Shifted(LS, Tail(LS))
      /\ Tail(LS) \in Seq(Lateness) /\ LS[1] \in Lateness
  BY <1>1, ReadFirst
<1> DEFINE S2 == Tail(S)
           L2 == Tail(LS)
<1> HIDE DEF S2, L2
<1>3. /\ Len(S2) = Len(S) - 1 /\ Len(L2) = Len(S2)
      /\ \A k \in 1 .. Len(S) : k > 1 =>
           /\ k - 1 \in 1 .. Len(S2) /\ (k - 1) + 1 = k
      /\ \A k \in 1 .. Len(S2) : S2[k] = S[k + 1] /\ L2[k] = LS[k + 1]
  BY <1>1, <1>2 DEF Shifted, S2, L2
<1>4. Kept(S, LS, S2, L2, 1)
  BY <1>3 DEF Kept
<1> QED
  BY <1>2, <1>3, <1>4 DEF Paired, S2, L2

\* What the downloader waits for is still on its way.
LEMMA HeardStays ==
  ASSUME NEW T, NEW LT, NEW F, NEW LF, NEW T2, NEW LT2, NEW F2, NEW LF2,
         Paired(T, LT), Paired(F, LF), Paired(F2, LF2),
         Len(T) \in Nat, Len(T2) \in Nat, Len(F) \in Nat,
         NEW received, NEW gone, NEW u \in Nat, NEW v \in Nat, v <= u,
         NEW d \in {0, 1},
         HeardInTime(T, LT, F, LF, received, gone, u),
         Kept(T, LT, T2, LT2, 0),
         \A k \in 1 .. Len(T2) : k > Len(T) => ~IsAck(T2, k, CHUNK_DATA_NUM),
         Kept(F, LF, F2, LF2, d),
         d = 1 => ~IsData(F, 1, received + 1),
         gone => \A k \in 1 .. Len(F2) : k + d \in 1 .. Len(F) /\ LF2[k] = LF[k + d]
  PROVE  HeardInTime(T2, LT2, F2, LF2, received, gone, v)
<1>1. MaxDelay \in Nat /\ \A k \in 1 .. Len(F) : LF[k] \in Nat
  BY SwarmAssumption DEF Paired, Lateness
<1>2. \A k \in 1 .. Len(T) : LT[k] \in Nat
  BY SwarmAssumption DEF Paired, Lateness
<1>3. ASSUME NEW k \in 1 .. Len(F), IsData(F, k, received + 1), u <= MaxDelay + LF[k]
      PROVE  HeardInTime(T2, LT2, F2, LF2, received, gone, v)
  <2>1. k > d
    BY <1>3
  <2>2. /\ k - d \in 1 .. Len(F2)
        /\ IsData(F2, k - d, received + 1)
        /\ LF2[k - d] = LF[k]
    BY <1>3, <2>1 DEF Kept, IsData
  <2>3. v <= MaxDelay + LF2[k - d]
    <3>1. PICK x \in Nat : x = LF[k]
      BY <1>1
    <3>2. u <= MaxDelay + x
      BY <1>3, <3>1
    <3>3. v <= MaxDelay + x
      BY <1>1, <3>2
    <3> QED
      BY <2>2, <3>1, <3>3
  <2> QED
    BY <2>2, <2>3 DEF HeardInTime
<1>4. ASSUME gone, \A k \in 1 .. Len(F) : u <= MaxDelay + LF[k]
      PROVE  HeardInTime(T2, LT2, F2, LF2, received, gone, v)
  <2>1. ASSUME NEW k \in 1 .. Len(F2)
        PROVE  v <= MaxDelay + LF2[k]
    <3>1. k + d \in 1 .. Len(F) /\ LF2[k] = LF[k + d]
      BY <1>4
    <3>2. PICK x \in Nat : x = LF[k + d]
      BY <1>1, <3>1
    <3>3. u <= MaxDelay + x
      BY <1>4, <3>1, <3>2
    <3>4. v <= MaxDelay + x
      BY <1>1, <3>3
    <3> QED
      BY <3>1, <3>2, <3>4
  <2> QED
    BY <1>4, <2>1 DEF HeardInTime
<1>5. ASSUME ~gone, received = 0,
             NEW k \in 1 .. Len(T), T[k].type = "GET", u <= LT[k],
             \A j \in k .. Len(T) : ~IsAck(T, j, CHUNK_DATA_NUM)
      PROVE  HeardInTime(T2, LT2, F2, LF2, received, gone, v)
  <2>1. k > 0 /\ k - 0 = k
    OBVIOUS
  <2>2. k \in 1 .. Len(T2) /\ T2[k].type = "GET" /\ LT2[k] = LT[k]
    BY <1>5, <2>1 DEF Kept
  <2>3. v <= LT2[k]
    BY <1>2, <1>5, <2>2
  <2>4. ASSUME NEW j \in k .. Len(T2)
        PROVE  ~IsAck(T2, j, CHUNK_DATA_NUM)
    <3>1. CASE j > Len(T)
      BY <3>1
    <3>2. CASE ~(j > Len(T))
      <4>1. j \in k .. Len(T) /\ j \in 1 .. Len(T) /\ j > 0 /\ j - 0 = j
        BY <3>2
      <4> QED
        BY <1>5, <4>1 DEF Kept, IsAck
    <3> QED
      BY <3>1, <3>2
  <2> QED
    BY <1>5, <2>2, <2>3, <2>4 DEF HeardInTime
<1>6. ASSUME ~gone, received # 0,
             NEW k \in 1 .. Len(T), IsAck(T, k, received), u <= LT[k]
      PROVE  HeardInTime(T2, LT2, F2, LF2, received, gone, v)
  <2>1. k > 0 /\ k - 0 = k
    OBVIOUS
  <2>2. k \in 1 .. Len(T2) /\ IsAck(T2, k, received) /\ LT2[k] = LT[k]
    BY <1>6, <2>1 DEF Kept, IsAck
  <2>3. v <= LT2[k]
    BY <1>2, <1>6, <2>2
  <2> QED
    BY <1>6, <2>2, <2>3 DEF HeardInTime
<1> QED
  BY <1>3, <1>4, <1>5, <1>6 DEF HeardInTime

\* What the provider waits for is still on its way.
LEMMA AckedStays ==
  ASSUME NEW c, NEW e, NEW T, NEW LT, NEW F, NEW LF, NEW T2, NEW LT2, NEW F2, NEW LF2,
         Paired(T, LT), Paired(F, LF), NEW con, NEW received,
         e.last_packet_acked = c.last_packet_acked,
         c.since_acked \in Nat, e.since_acked \in Nat, e.since_acked <= c.since_acked,
         NEW d \in {0, 1}, NEW g \in {0, 1},
         AckedInTime(c, T, LT, F, LF, con, received),
         Kept(T, LT, T2, LT2, d),
         d = 1 => ~(T[1].type = "ACK" /\ T[1].ack_number > c.last_packet_acked),
         Kept(F, LF, F2, LF2, g),
         g = 1 => ~(con /\ IsData(F, 1, received + 1))
  PROVE  AckedInTime(e, T2, LT2, F2, LF2, con, received)
<1>1. /\ MaxDelay \in Nat
      /\ Len(LT) = Len(T) /\ \A k \in 1 .. Len(T) : LT[k] \in Nat
      /\ Len(LF) = Len(F) /\ \A k \in 1 .. Len(F) : LF[k] \in Nat
  BY SwarmAssumption DEF Paired, Lateness
<1>2. ASSUME NEW k \in 1 .. Len(T), T[k].type = "ACK",
             T[k].ack_number > c.last_packet_acked, c.since_acked <= MaxDelay + LT[k]
      PROVE  AckedInTime(e, T2, LT2, F2, LF2, con, received)
  <2>1. k > d
    BY <1>2
  <2>2. /\ k - d \in 1 .. Len(T2)
        /\ T2[k - d] = T[k]
        /\ LT2[k - d] = LT[k]
    BY <2>1 DEF Kept
  <2>3. e.since_acked <= MaxDelay + LT2[k - d]
    <3>1. PICK x \in Nat, u \in Nat, v \in Nat :
            x = LT[k] /\ u = c.since_acked /\ v = e.since_acked
      BY <1>1
    <3>2. u <= MaxDelay + x /\ v <= u
      BY <1>2, <3>1
    <3>3. v <= MaxDelay + x
      BY <1>1, <3>2
    <3> QED
      BY <2>2, <3>1, <3>3
  <2> QED
    BY <1>2, <2>2, <2>3 DEF AckedInTime
<1>3. ASSUME con, received = c.last_packet_acked,
             NEW k \in 1 .. Len(F), IsData(F, k, received + 1), c.since_acked <= LF[k]
      PROVE  AckedInTime(e, T2, LT2, F2, LF2, con, received)
  <2>1. k > g
    BY <1>3
  <2>2. /\ k - g \in 1 .. Len(F2)
        /\ IsData(F2, k - g, received + 1)
        /\ LF2[k - g] = LF[k]
    BY <1>3, <2>1 DEF Kept, IsData
  <2>3. e.since_acked <= LF2[k - g]
    <3>1. PICK x \in Nat, u \in Nat, v \in Nat :
            x = LF[k] /\ u = c.since_acked /\ v = e.since_acked
      BY <1>1
    <3>2. v <= x
      BY <1>3, <3>1
    <3> QED
      BY <2>2, <3>1, <3>2
  <2> QED
    BY <1>3, <2>2, <2>3 DEF AckedInTime
<1> QED
  BY <1>2, <1>3 DEF AckedInTime


\* Packets that nobody touches are kept.
LEMMA KeptWhole ==
  ASSUME NEW S, NEW LS
  PROVE  Kept(S, LS, S, LS, 0)
BY DEF Kept

\* What is sent is kept behind what was sent before, and is on time.
LEMMA OntoKept ==
  ASSUME NEW T \in Seq(ToPacket), NEW LT, Paired(T, LT),
         NEW sent \in Seq(ToPacket), NEW gone, gone => T = <<>>,
         NEW T2, T2 = Onto(T, sent, gone),
         NEW L2, L2 = Onto(LT, OnTime(sent), gone)
  PROVE  /\ Len(T) \in Nat /\ Len(T2) \in Nat
         /\ Paired(T2, L2) /\ Kept(T, LT, T2, L2, 0)
         /\ \A k \in 1 .. Len(T2) : k > Len(T) =>
              k - Len(T) \in 1 .. Len(sent) /\ T2[k] = sent[k - Len(T)]
         /\ ~gone =>
              /\ Len(T2) = Len(T) + Len(sent)
              /\ \A k \in 1 .. Len(sent) :
                   /\ Len(T) + k \in 1 .. Len(T2)
                   /\ T2[Len(T) + k] = sent[k]
                   /\ L2[Len(T) + k] = 0
<1>1. Len(T) \in Nat /\ Len(sent) \in Nat
  OBVIOUS
<1>2. CASE gone
  <2>1. T2 = <<>> /\ L2 = <<>> /\ T = <<>>
    BY <1>2 DEF Onto
  <2>2. /\ Len(T2) = 0 /\ Len(L2) = 0 /\ L2 \in Seq(Lateness) /\ Len(T) = 0
        /\ \A k \in 1 .. Len(T) : FALSE
        /\ \A k \in 1 .. Len(T2) : FALSE
    BY <2>1, EmptySeq
  <2>3. Paired(T2, L2)
    BY <2>2 DEF Paired
  <2>4. Kept(T, LT, T2, L2, 0)
    BY <2>2 DEF Kept
  <2>5. /\ Len(T) \in Nat /\ Len(T2) \in Nat
        /\ \A k \in 1 .. Len(T2) : k > Len(T) =>
             k - Len(T) \in 1 .. Len(sent) /\ T2[k] = sent[k - Len(T)]
    BY <2>2
  <2> QED
    BY <1>2, <2>3, <2>4, <2>5, Zenon
<1>3. CASE ~gone
  <2> DEFINE on == OnTime(sent)
  <2>1. T2 = T \o sent /\ L2 = LT \o on
    BY <1>3 DEF Onto
  <2>2. /\ on \in Seq(Lateness) /\ Len(on) = Len(sent)
        /\ LT \in Seq(Lateness) /\ Len(LT) = Len(T)
        /\ \A k \in 1 .. Len(sent) : on[k] = 0
    <3>1. DOMAIN sent = 1 .. Len(sent)
      OBVIOUS
    <3> QED
      BY <3>1, OnTimePaired DEF Paired, OnTime
  <2>3. Paired(T2, L2) /\ Kept(T, LT, T2, L2, 0)
    BY <2>1, KeptJoined
  <2> HIDE DEF on
  <2>4. /\ Len(T2) = Len(T) + Len(sent)
        /\ Len(T2) \in Nat
        /\ \A k \in Len(T) + 1 .. Len(T2) :
             k - Len(T) \in 1 .. Len(sent) /\ T2[k] = sent[k - Len(T)]
    BY <1>1, <2>1, SentBehind
  <2>5. /\ Len(L2) = Len(T) + Len(sent)
        /\ \A k \in Len(T) + 1 .. Len(L2) :
             k - Len(T) \in 1 .. Len(sent) /\ L2[k] = on[k - Len(T)]
    <3>1. /\ Len(LT \o on) = Len(LT) + Len(on)
          /\ \A k \in Len(LT) + 1 .. Len(LT \o on) :
               k - Len(LT) \in 1 .. Len(on) /\ (LT \o on)[k] = on[k - Len(LT)]
      <4>1. LT \in Seq(Lateness) /\ on \in Seq(Lateness)
        BY <2>2
      <4> QED
        BY ONLY <4>1, SentBehind
    <3> QED
      BY <2>1, <2>2, <3>1
  <2>6. ASSUME NEW k \in 1 .. Len(sent)
        PROVE  /\ Len(T) + k \in 1 .. Len(T2)
               /\ T2[Len(T) + k] = sent[k]
               /\ L2[Len(T) + k] = 0
    <3>1. /\ Len(T) + k \in Len(T) + 1 .. Len(T) + Len(sent)
          /\ (Len(T) + k) - Len(T) = k
          /\ Len(T) + k \in 1 .. Len(T) + Len(sent)
      BY <1>1
    <3> QED
      BY <2>2, <2>4, <2>5, <3>1
  <2>7. \A k \in 1 .. Len(T2) : k > Len(T) => k \in Len(T) + 1 .. Len(T2)
    BY <1>1, <2>4
  <2> QED
    BY <1>1, <2>3, <2>4, <2>6, <2>7
<1> QED
  BY <1>2, <1>3

\* Packets that do not end a chunk join the others.
LEMMA TimelyAsked ==
  ASSUME NEW c, NEW T \in Seq(ToPacket), NEW LT, NEW F, NEW LF, Len(F) \in Nat,
         NEW con, NEW received, NEW gone, gone => T = <<>>,
         NEW u \in Nat, NEW v \in Nat, v <= u,
         c # NoConnection => c.since_acked \in Nat,
         Timely(c, T, LT, F, LF, con, received, gone, u),
         NEW sent \in Seq(ToPacket),
         \A k \in 1 .. Len(sent) : ~IsAck(sent, k, CHUNK_DATA_NUM)
  PROVE  Timely(c, Onto(T, sent, gone), Onto(LT, OnTime(sent), gone), F, LF,
                con, received, gone, v)
<1>1. PICK T2 : T2 = Onto(T, sent, gone)
  OBVIOUS
<1>2. PICK L2 : L2 = Onto(LT, OnTime(sent), gone)
  OBVIOUS
<1>3. Paired(T, LT) /\ Paired(F, LF)
  BY DEF Timely
<1>4. /\ Len(T) \in Nat /\ Len(T2) \in Nat
      /\ Paired(T2, L2) /\ Kept(T, LT, T2, L2, 0)
      /\ \A k \in 1 .. Len(T2) : k > Len(T) =>
           k - Len(T) \in 1 .. Len(sent) /\ T2[k] = sent[k - Len(T)]
  BY <1>1, <1>2, <1>3, OntoKept
<1>5. \A k \in 1 .. Len(T2) : k > Len(T) => ~IsAck(T2, k, CHUNK_DATA_NUM)
  BY <1>4 DEF IsAck
<1>6. /\ Kept(F, LF, F, LF, 0) /\ 0 \in {0, 1} /\ 0 # 1
      /\ \A k \in 1 .. Len(F) : k + 0 \in 1 .. Len(F) /\ LF[k] = LF[k + 0]
  BY KeptWhole
<1>7. ASSUME con
      PROVE  HeardInTime(T2, L2, F, LF, received, gone, v)
  BY <1>3, <1>4, <1>5, <1>6, <1>7, HeardStays DEF Timely
<1>8. ASSUME c # NoConnection
      PROVE  AckedInTime(c, T2, L2, F, LF, con, received)
  BY <1>3, <1>4, <1>6, <1>8, AckedStays DEF Timely
<1> QED
  BY <1>1, <1>2, <1>3, <1>4, <1>7, <1>8 DEF Timely

\* A packet is read that does not go on with the chunk.
LEMMA TimelyPassed ==
  ASSUME NEW X, NEW c, NEW T, NEW LT, NEW F \in Seq(X), NEW LF, Len(T) \in Nat,
         NEW con, NEW received, NEW gone,
         NEW u \in Nat, NEW v \in Nat, v <= u,
         c # NoConnection => c.since_acked \in Nat,
         Timely(c, T, LT, F, LF, con, received, gone, u),
         F # <<>>, ~(con /\ IsData(F, 1, received + 1))
  PROVE  Timely(c, T, LT, Tail(F), Tail(LF), con, received, gone, v)
<1>1. PICK F2 : F2 = Tail(F)
  OBVIOUS
<1>2. PICK L2 : L2 = Tail(LF)
  OBVIOUS
<1>3. Paired(T, LT) /\ Paired(F, LF) /\ Len(F) \in Nat
  BY DEF Timely
<1>4. /\ Paired(F2, L2) /\ Kept(F, LF, F2, L2, 1)
      /\ Shifted(F, F2) /\ Shifted(LF, L2)
  BY <1>1, <1>2, <1>3, KeptRead
<1>5. \A k \in 1 .. Len(F2) : k + 1 \in 1 .. Len(F) /\ L2[k] = LF[k + 1]
  BY <1>3, <1>4 DEF Paired, Shifted
<1>6. /\ Kept(T, LT, T, LT, 0) /\ 0 \in {0, 1} /\ 1 \in {0, 1} /\ 0 # 1
      /\ \A k \in 1 .. Len(T) : ~(k > Len(T))
  BY KeptWhole
<1>7. ASSUME con
      PROVE  HeardInTime(T, LT, F2, L2, received, gone, v)
  BY <1>3, <1>4, <1>5, <1>6, <1>7, HeardStays DEF Timely
<1>8. ASSUME c # NoConnection
      PROVE  AckedInTime(c, T, LT, F2, L2, con, received)
  <2>1. /\ c.since_acked \in Nat /\ c.since_acked <= c.since_acked
        /\ AckedInTime(c, T, LT, F, LF, con, received)
    BY <1>8 DEF Timely
  <2> QED
    BY <1>3, <1>4, <1>6, <2>1, AckedStays
<1> QED
  BY <1>1, <1>2, <1>3, <1>4, <1>7, <1>8 DEF Timely

\* A connection is made, and a GET sent.
LEMMA TimelyConnected ==
  ASSUME NEW X, NEW c, NEW T \in Seq(ToPacket), NEW LT, NEW F \in Seq(X), NEW LF,
         NEW gone, gone => T = <<>>, NEW u \in Nat,
         c # NoConnection => c.since_acked \in Nat,
         Timely(c, T, LT, F, LF, FALSE, 0, gone, u),
         F # <<>>, NEW get \in ToPacket, get.type = "GET"
  PROVE  Timely(c, Onto(T, <<get>>, gone), Onto(LT, OnTime(<<get>>), gone),
                Tail(F), Tail(LF), TRUE, 0, gone, 0)
<1>1. PICK sent \in Seq(ToPacket) : /\ sent = <<get>> /\ Len(sent) = 1
                                    /\ sent[1].type = "GET"
  <2>1. <<get>> \in Seq(ToPacket) /\ Len(<<get>>) = 1 /\ <<get>>[1] = get
    OBVIOUS
  <2> QED
    BY <2>1
<1>2. PICK T2 : T2 = Onto(T, sent, gone)
  OBVIOUS
<1>3. PICK L2 : L2 = Onto(LT, OnTime(sent), gone)
  OBVIOUS
<1>4. PICK F2, M2 : F2 = Tail(F) /\ M2 = Tail(LF)
  OBVIOUS
<1>5. \A k \in 1 .. Len(sent) : ~IsAck(sent, k, CHUNK_DATA_NUM)
  BY <1>1 DEF IsAck
<1>6. Len(F) \in Nat /\ Len(T) \in Nat /\ u <= u /\ Paired(T, LT)
  BY DEF Timely
<1>7. Timely(c, T2, L2, F, LF, FALSE, 0, gone, u)
  BY <1>2, <1>3, <1>5, <1>6, TimelyAsked
<1>8. /\ Len(T2) \in Nat
      /\ ~gone => /\ Len(T2) = Len(T) + 1
                  /\ \A k \in 1 .. 1 : /\ Len(T) + k \in 1 .. Len(T2)
                                       /\ T2[Len(T) + k] = sent[k]
                                       /\ L2[Len(T) + k] = 0
  <2>1. /\ Len(T2) \in Nat
        /\ ~gone => /\ Len(T2) = Len(T) + Len(sent)
                    /\ \A k \in 1 .. Len(sent) : /\ Len(T) + k \in 1 .. Len(T2)
                                                  /\ T2[Len(T) + k] = sent[k]
                                                  /\ L2[Len(T) + k] = 0
    BY <1>2, <1>3, <1>6, OntoKept
  <2> QED
    BY <1>1, <2>1
<1>9. Timely(c, T2, L2, F2, M2, FALSE, 0, gone, u)
  BY <1>4, <1>6, <1>7, <1>8, TimelyPassed
<1>10. HeardInTime(T2, L2, F2, M2, 0, gone, 0)
  <2>1. CASE gone
    <3>1. \A k \in 1 .. Len(F2) : M2[k] \in Nat
      BY <1>9, SwarmAssumption DEF Timely, Paired, Lateness
    <3> QED
      BY <2>1, <3>1, SwarmAssumption DEF HeardInTime
  <2>2. CASE ~gone
    <3> DEFINE n == Len(T) + 1
    <3>1. /\ n \in 1 .. Len(T2) /\ T2[n].type = "GET" /\ 0 <= L2[n]
          /\ Len(T2) = n
      BY <1>1, <1>8, <2>2
    <3>2. \A j \in n .. Len(T2) : ~IsAck(T2, j, CHUNK_DATA_NUM)
      BY <3>1 DEF IsAck
    <3> HIDE DEF n
    <3> QED
      BY <2>2, <3>1, <3>2 DEF HeardInTime
  <2> QED
    BY <2>1, <2>2
<1>11. ASSUME c # NoConnection
       PROVE  AckedInTime(c, T2, L2, F2, M2, TRUE, 0)
  BY <1>9, <1>11 DEF Timely, AckedInTime
<1>12. Timely(c, T2, L2, F2, M2, TRUE, 0, gone, 0)
  BY <1>9, <1>10, <1>11 DEF Timely
<1> QED
  BY <1>1, <1>2, <1>3, <1>4, <1>12

\* The packet that is expected is saved and acknowledged.
LEMMA TimelySaved ==
  ASSUME NEW X, NEW c, NEW T \in Seq(ToPacket), NEW LT, NEW F \in Seq(X), NEW LF,
         NEW received \in Nat,
         NEW gone, gone => T = <<>>, gone => c = NoConnection, NEW u \in Nat,
         c # NoConnection => c.since_acked \in Nat /\ c.last_packet_acked \in Nat,
         Timely(c, T, LT, F, LF, TRUE, received, gone, u), F # <<>>,
         NEW sent \in Seq(ToPacket), Len(sent) # 0, IsAck(sent, 1, received + 1),
         NEW con,
         NEW received2,
         \/ received2 = received + 1
         \/ /\ received2 = 0
            /\ con => /\ sent[Len(sent)].type = "GET"
                      /\ Len(sent) # 1
  PROVE  Timely(c, Onto(T, sent, gone), Onto(LT, OnTime(sent), gone),
                Tail(F), Tail(LF), con, received2, gone, 0)
<1>1. PICK T2 : T2 = Onto(T, sent, gone)
  OBVIOUS
<1>2. PICK L2 : L2 = Onto(LT, OnTime(sent), gone)
  OBVIOUS
<1>3. PICK F2, M2 : F2 = Tail(F) /\ M2 = Tail(LF)
  OBVIOUS
<1>4. /\ Paired(T, LT) /\ Paired(F, LF) /\ Len(F) \in Nat
      /\ Len(sent) \in Nat \ {0} /\ 1 \in 1 .. Len(sent) /\ Len(sent) \in 1 .. Len(sent)
      /\ MaxDelay \in Nat
  BY SwarmAssumption DEF Timely
<1>5. /\ Len(T) \in Nat /\ Len(T2) \in Nat
      /\ Paired(T2, L2) /\ Kept(T, LT, T2, L2, 0)
      /\ ~gone => /\ Len(T2) = Len(T) + Len(sent)
                  /\ \A k \in 1 .. Len(sent) : /\ Len(T) + k \in 1 .. Len(T2)
                                               /\ T2[Len(T) + k] = sent[k]
                                               /\ L2[Len(T) + k] = 0
  BY <1>1, <1>2, <1>4, OntoKept
<1>6. Paired(F2, M2)
  BY <1>3, <1>4, KeptRead
<1>7. ~gone => /\ Len(T) + 1 \in 1 .. Len(T2)
               /\ IsAck(T2, Len(T) + 1, received + 1)
               /\ L2[Len(T) + 1] = 0
  BY <1>4, <1>5 DEF IsAck
<1>8. ASSUME con
      PROVE  HeardInTime(T2, L2, F2, M2, received2, gone, 0)
  <2>1. CASE gone
    <3>1. \A k \in 1 .. Len(F2) : M2[k] \in Nat
      BY <1>6, SwarmAssumption DEF Paired, Lateness
    <3> QED
      BY <1>4, <2>1, <3>1 DEF HeardInTime
  <2>2. CASE ~gone /\ received2 = received + 1
    <3>1. PICK k \in 1 .. Len(T2) : IsAck(T2, k, received2) /\ L2[k] = 0
      BY <1>7, <2>2
    <3>2. received2 # 0 /\ 0 <= L2[k]
      BY <2>2, <3>1
    <3> QED
      BY <2>2, <3>1, <3>2 DEF HeardInTime
  <2>3. CASE ~gone /\ received2 # received + 1
    <3>1. /\ received2 = 0
          /\ sent[Len(sent)].type = "GET"
      BY <1>8, <2>3
    <3>2. PICK n \in 1 .. Len(T2) : /\ n = Len(T2) /\ T2[n] = sent[Len(sent)]
                                    /\ L2[n] = 0
      BY <1>4, <1>5, <2>3
    <3>3. \A j \in n .. Len(T2) : ~IsAck(T2, j, CHUNK_DATA_NUM)
      <4>1. \A j \in n .. Len(T2) : j = n
        BY <3>2
      <4> QED
        BY <3>1, <3>2, <4>1 DEF IsAck
    <3>4. T2[n].type = "GET" /\ 0 <= L2[n]
      BY <3>1, <3>2
    <3> QED
      BY <2>3, <3>1, <3>3, <3>4 DEF HeardInTime
  <2> QED
    BY <2>1, <2>2, <2>3
<1>9. ASSUME c # NoConnection
      PROVE  AckedInTime(c, T2, L2, F2, M2, con, received2)
  <2>1. /\ ~gone
        /\ AckedInTime(c, T, LT, F, LF, TRUE, received)
    BY <1>9 DEF Timely
  <2>2. PICK s \in Nat, a \in Nat : s = c.since_acked /\ a = c.last_packet_acked
    BY <1>9
  <2>3. CASE \E k \in 1 .. Len(T) : /\ T[k].type = "ACK"
                                    /\ T[k].ack_number > c.last_packet_acked
                                    /\ c.since_acked <= MaxDelay + LT[k]
    <3>1. PICK k \in 1 .. Len(T) : /\ T[k].type = "ACK"
                                   /\ T[k].ack_number > c.last_packet_acked
                                   /\ c.since_acked <= MaxDelay + LT[k]
      BY <2>3
    <3>2. k > 0 /\ k - 0 = k
      OBVIOUS
    <3>3. k \in 1 .. Len(T2) /\ T2[k] = T[k] /\ L2[k] = LT[k]
      BY <1>5, <3>2 DEF Kept
    <3> QED
      BY <3>1, <3>3 DEF AckedInTime
  <2>4. CASE /\ received = c.last_packet_acked
             /\ \E k \in 1 .. Len(F) : c.since_acked <= LF[k]
    <3>1. PICK k \in 1 .. Len(F) : s <= LF[k]
      BY <2>2, <2>4
    <3>2. LF[k] \in Lateness
      BY <1>4 DEF Paired
    <3>3. s <= MaxDelay
      BY <1>4, <2>2, <3>1, <3>2 DEF Lateness
    <3>4. PICK n \in 1 .. Len(T2) : IsAck(T2, n, received + 1) /\ L2[n] = 0
      BY <1>7, <2>1
    <3>5. s <= MaxDelay + L2[n]
      BY <1>4, <3>3, <3>4
    <3>6. T2[n].type = "ACK" /\ T2[n].ack_number > c.last_packet_acked
      BY <2>4, <3>4 DEF IsAck
    <3> QED
      BY <2>2, <3>5, <3>6 DEF AckedInTime
  <2> QED
    BY <2>1, <2>3, <2>4 DEF AckedInTime
<1>10. Timely(c, T2, L2, F2, M2, con, received2, gone, 0)
  BY <1>5, <1>6, <1>8, <1>9 DEF Timely
<1> QED
  BY <1>1, <1>2, <1>3, <1>10

\* A peer that crashed is given up.
LEMMA TimelyGivenUp ==
  ASSUME NEW c, c = NoConnection, NEW T, NEW LT, NEW F, NEW LF,
         NEW con, NEW received, NEW u,
         Timely(c, T, LT, F, LF, con, received, TRUE, u),
         NEW received2, NEW v
  PROVE  Timely(c, T, LT, F, LF, FALSE, received2, TRUE, v)
BY DEF Timely

\* The provider crashes.
LEMMA TimelyCrashed ==
  ASSUME NEW c, NEW T, NEW LT, NEW F, NEW LF, NEW con, NEW received, NEW u \in Nat,
         Timely(c, T, LT, F, LF, con, received, FALSE, u)
  PROVE  Timely(NoConnection, <<>>, <<>>, F, LF, con, received, TRUE, u)
<1>1. Paired(<<>>, <<>>) /\ Paired(F, LF) /\ Paired(T, LT)
  BY EmptySeq DEF Paired, Timely
<1>2. /\ MaxDelay \in Nat
      /\ Len(LT) = Len(T) /\ \A k \in 1 .. Len(T) : LT[k] \in Nat /\ LT[k] <= MaxDelay
      /\ \A k \in 1 .. Len(F) : LF[k] \in Nat
  BY <1>1, SwarmAssumption DEF Paired, Lateness
<1>3. ASSUME con
      PROVE  HeardInTime(<<>>, <<>>, F, LF, received, TRUE, u)
  <2>1. CASE \E k \in 1 .. Len(F) : /\ IsData(F, k, received + 1)
                                    /\ u <= MaxDelay + LF[k]
    BY <2>1 DEF HeardInTime
  <2>2. CASE \E k \in 1 .. Len(T) : u <= LT[k]
    <3>1. PICK k \in 1 .. Len(T) : u <= LT[k]
      BY <2>2
    <3>2. u <= MaxDelay
      BY <1>2, <3>1
    <3>3. \A j \in 1 .. Len(F) : u <= MaxDelay + LF[j]
      BY <1>2, <3>2
    <3> QED
      BY <3>3 DEF HeardInTime
  <2>3. HeardInTime(T, LT, F, LF, received, FALSE, u)
    BY <1>3 DEF Timely
  <2> QED
    BY <2>1, <2>2, <2>3 DEF HeardInTime
<1> QED
  BY <1>1, <1>3 DEF Timely

\* Packets that may be later are later.
LEMMA LaterPaired ==
  ASSUME NEW S, NEW LS, Paired(S, LS), MayBeLater(LS)
  PROVE  /\ Paired(S, Later(LS))
         /\ \A k \in 1 .. Len(S) : LS[k] \in Nat /\ Later(LS)[k] = LS[k] + 1
<1>1. /\ DOMAIN LS = 1 .. Len(LS) /\ Len(LS) = Len(S) /\ Len(LS) \in Nat
      /\ \A k \in 1 .. Len(LS) : LS[k] \in 0 .. MaxDelay /\ LS[k] < MaxDelay
      /\ MaxDelay \in Nat
  BY SwarmAssumption DEF Paired, Lateness, MayBeLater
<1>2. \A k \in 1 .. Len(LS) : LS[k] + 1 \in Lateness
  BY <1>1 DEF Lateness
<1>3. Later(LS) = [k \in 1 .. Len(LS) |-> LS[k] + 1]
  BY <1>1 DEF Later
<1>4. Later(LS) \in Seq(Lateness) /\ Len(Later(LS)) = Len(LS)
  BY <1>1, <1>2, <1>3
<1> QED
  BY <1>1, <1>3, <1>4 DEF Paired

\* Time passes, and every packet is later.
LEMMA TimelyLater ==
  ASSUME NEW c, NEW e, NEW T, NEW LT, NEW F, NEW LF, NEW con, NEW received, NEW gone,
         NEW u \in Nat, NEW v \in Nat, v <= u + 1,
         Timely(c, T, LT, F, LF, con, received, gone, u),
         MayBeLater(LT), MayBeLater(LF),
         c = NoConnection <=> e = NoConnection,
         c # NoConnection => /\ e.last_packet_acked = c.last_packet_acked
                             /\ c.since_acked \in Nat /\ e.since_acked \in Nat
                             /\ e.since_acked <= c.since_acked + 1
  PROVE  Timely(e, T, Later(LT), F, Later(LF), con, received, gone, v)
<1>1. PICK L2, M2 : L2 = Later(LT) /\ M2 = Later(LF)
  OBVIOUS
<1>2. /\ Paired(T, L2) /\ Paired(F, M2)
      /\ \A k \in 1 .. Len(T) : LT[k] \in Nat /\ L2[k] = LT[k] + 1
      /\ \A k \in 1 .. Len(F) : LF[k] \in Nat /\ M2[k] = LF[k] + 1
      /\ MaxDelay \in Nat
  BY <1>1, LaterPaired, SwarmAssumption DEF Timely
<1>3. ASSUME NEW w \in Nat, NEW x \in Nat, x <= w + 1
      PROVE  /\ \A k \in 1 .. Len(T) : w <= LT[k] => x <= L2[k]
             /\ \A k \in 1 .. Len(T) : w <= MaxDelay + LT[k] => x <= MaxDelay + L2[k]
             /\ \A k \in 1 .. Len(F) : w <= LF[k] => x <= M2[k]
             /\ \A k \in 1 .. Len(F) : w <= MaxDelay + LF[k] => x <= MaxDelay + M2[k]
  <2>1. \A n \in Nat : /\ w <= n => x <= n + 1
                       /\ w <= MaxDelay + n => x <= MaxDelay + (n + 1)
    BY <1>2, <1>3
  <2> QED
    BY <1>2, <2>1
<1>4. ASSUME con
      PROVE  HeardInTime(T, L2, F, M2, received, gone, v)
  <2>1. HeardInTime(T, LT, F, LF, received, gone, u)
    BY <1>4 DEF Timely
  <2>2. /\ \A k \in 1 .. Len(T) : u <= LT[k] => v <= L2[k]
        /\ \A k \in 1 .. Len(F) : u <= MaxDelay + LF[k] => v <= MaxDelay + M2[k]
    BY <1>3
  <2> QED
    BY <2>1, <2>2 DEF HeardInTime
<1>5. ASSUME e # NoConnection
      PROVE  AckedInTime(e, T, L2, F, M2, con, received)
  <2>1. AckedInTime(c, T, LT, F, LF, con, received)
    BY <1>5 DEF Timely
  <2>2. /\ \A k \in 1 .. Len(T) : c.since_acked <= MaxDelay + LT[k] =>
             e.since_acked <= MaxDelay + L2[k]
        /\ \A k \in 1 .. Len(F) : c.since_acked <= LF[k] => e.since_acked <= M2[k]
    BY <1>3, <1>5
  <2>3. e.last_packet_acked = c.last_packet_acked
    BY <1>5
  <2> QED
    BY <2>1, <2>2, <2>3 DEF AckedInTime
<1> QED
  BY <1>1, <1>2, <1>4, <1>5 DEF Timely

\* Nobody waits longer than a packet and its answer may be late.
LEMMA TimelyBounds ==
  ASSUME NEW c, NEW T, NEW LT, NEW F, NEW LF, NEW con, NEW received, NEW gone,
         NEW u \in Nat,
         Timely(c, T, LT, F, LF, con, received, gone, u), Len(F) \in Nat
  PROVE  /\ con /\ (gone => Len(F) # 0) => u <= 2 * MaxDelay
         /\ c # NoConnection /\ c.since_acked \in Nat => c.since_acked <= 2 * MaxDelay
<1>1. /\ MaxDelay \in Nat
      /\ \A k \in 1 .. Len(T) : LT[k] \in Nat /\ LT[k] <= MaxDelay
      /\ \A k \in 1 .. Len(F) : LF[k] \in Nat /\ LF[k] <= MaxDelay
  BY SwarmAssumption DEF Timely, Paired, Lateness
<1>2. ASSUME NEW w \in Nat
      PROVE  /\ \A k \in 1 .. Len(T) : w <= LT[k] => w <= 2 * MaxDelay
             /\ \A k \in 1 .. Len(T) : w <= MaxDelay + LT[k] => w <= 2 * MaxDelay
             /\ \A k \in 1 .. Len(F) : w <= LF[k] => w <= 2 * MaxDelay
             /\ \A k \in 1 .. Len(F) : w <= MaxDelay + LF[k] => w <= 2 * MaxDelay
  <2>1. \A n \in Nat : n <= MaxDelay =>
          /\ w <= n => w <= 2 * MaxDelay
          /\ w <= MaxDelay + n => w <= 2 * MaxDelay
    BY <1>1
  <2> QED
    BY <1>1, <2>1
<1>3. ASSUME con, gone => Len(F) # 0
      PROVE  u <= 2 * MaxDelay
  <2>1. HeardInTime(T, LT, F, LF, received, gone, u)
    BY <1>3 DEF Timely
  <2>2. Len(F) # 0 => 1 \in 1 .. Len(F)
    OBVIOUS
  <2> QED
    BY <1>2, <1>3, <2>1, <2>2 DEF HeardInTime
<1>4. ASSUME c # NoConnection, c.since_acked \in Nat
      PROVE  c.since_acked <= 2 * MaxDelay
  <2>1. AckedInTime(c, T, LT, F, LF, con, received)
    BY <1>4 DEF Timely
  <2> QED
    BY <1>2, <1>4, <2>1 DEF AckedInTime
<1> QED
  BY <1>3, <1>4

\* While the provider knows of everything received, the next packet is on its
\* way.
LEMMA NextInFlight ==
  ASSUME NEW c, NEW T, NEW F, FromOK(F), NEW b \in 0 .. Len(F),
         NEW con, NEW want, NEW received \in Nat,
         Flow(F, b, con, want, received), Busy(c),
         Serving(c, T, F, b, con, want, received),
         c.last_packet_acked = received
  PROVE  \E k \in 1 .. Len(F) : IsData(F, k, received + 1)
<1> DEFINE Ahead2 == {k \in b + 1 .. Len(F) :
                        F[k].type = "DATA" /\ F[k].seq_number > received}
<1>1. /\ Len(F) \in Nat /\ b \in Nat
      /\ \A k \in b + 1 .. Len(F) : k \in 1 .. Len(F) /\ k \in Nat
      /\ \A k \in 1 .. Len(F) : F[k].type = "DATA" => F[k].seq_number \in Nat
  BY Sizes DEF FromOK
<1>2. Ahead2 # {}
  <2>1. /\ c.last_packet_sent \in Nat
        /\ c.last_packet_sent > received
        /\ \/ c.last_packet_sent <= received
           \/ \E k \in b + 1 .. Len(F) : IsData(F, k, c.last_packet_sent)
    BY BusyInBounds DEF Busy, Serving
  <2>2. PICK k \in b + 1 .. Len(F) : IsData(F, k, c.last_packet_sent)
    BY <2>1
  <2>3. k \in Ahead2
    BY <2>1, <2>2 DEF IsData
  <2> QED
    BY <2>3
<1>3. Ahead2 \subseteq Nat
  BY <1>1
<1>4. PICK k \in Ahead2 : \A j \in Ahead2 : k <= j
  <2> HIDE DEF Ahead2
  <2> QED
    BY <1>2, <1>3, Smallest
<1>5. /\ k \in b + 1 .. Len(F) /\ k \in 1 .. Len(F) /\ k \in Nat
      /\ F[k].type = "DATA" /\ F[k].seq_number > received
      /\ F[k].seq_number \in Nat
  BY <1>1, <1>4
<1>6. CASE F[k].seq_number <= received + 1
  BY <1>5, <1>6 DEF IsData
<1>7. CASE \E j \in b + 1 .. k - 1 : IsData(F, j, F[k].seq_number - 1)
  <2>1. PICK j \in b + 1 .. k - 1 : IsData(F, j, F[k].seq_number - 1)
    BY <1>7
  <2>2. j \in b + 1 .. Len(F) /\ j \in 1 .. Len(F) /\ j < k
    BY <1>1, <1>5
  <2>3. ~(F[j].type = "DATA" /\ F[j].seq_number > received)
    <3>1. j \notin Ahead2
      BY <1>4, <1>5, <2>2
    <3> QED
      BY <2>2, <3>1
  <2>4. F[j].type = "DATA" /\ F[j].seq_number = F[k].seq_number - 1
    BY <2>1 DEF IsData
  <2>5. F[k].seq_number = received + 1
    BY <1>5, <2>3, <2>4
  <2> QED
    BY <1>5, <2>5 DEF IsData
<1> QED
  BY <1>5, <1>6, <1>7 DEF Flow, NoGap

\* An acknowledgement that is new to the provider is on its way, or the packet
\* that leads to it is.
LEMMA AwaitsAck ==
  ASSUME NEW c, c # NoConnection, NEW T, NEW F, NEW con, NEW want,
         NEW received \in Nat, NEW hashes,
         Transfer(c, T, F, con, want, received, FALSE, hashes)
  PROVE  \/ \E k \in 1 .. Len(T) : /\ T[k].type = "ACK"
                                   /\ T[k].ack_number > c.last_packet_acked
         \/ /\ con /\ received = c.last_packet_acked
            /\ \E k \in 1 .. Len(F) : IsData(F, k, received + 1)
<1>1. Busy(c) /\ Alive(c, T, F, con, want, received) /\ FromOK(F)
  BY PacketsOK DEF Transfer
<1>2. PICK b \in 0 .. Len(F) : /\ Flow(F, b, con, want, received)
                               /\ Stage(c, T, F, b, con, want, received)
  BY <1>1 DEF Alive
<1>3. c.last_packet_acked \in Nat
  BY <1>1, BusyInBounds
<1>4. CASE Serving(c, T, F, b, con, want, received)
  <2>1. CASE c.last_packet_acked = received
    BY <1>1, <1>2, <1>4, <2>1, NextInFlight DEF Serving
  <2>2. CASE c.last_packet_acked # received
    <3>1. PICK k \in 1 .. Len(T) : IsAck(T, k, received)
      BY <1>4, <2>2 DEF Serving
    <3>2. received > c.last_packet_acked
      BY <1>3, <1>4, <2>2 DEF Serving
    <3> QED
      BY <3>1, <3>2 DEF IsAck
  <2> QED
    BY <2>1, <2>2
<1>5. ASSUME NEW z \in 1 .. Len(T), Ending(c, T, F, b, con, want, received, z)
      PROVE  T[z].type = "ACK" /\ T[z].ack_number > c.last_packet_acked
  BY <1>3, <1>5, Sizes DEF Ending, IsAck
<1> QED
  BY <1>2, <1>4, <1>5 DEF Stage, Idle

\* How late a packet may be.
LEMMA LatenessBounds ==
  ASSUME NEW S, NEW LS, Paired(S, LS)
  PROVE  /\ MaxDelay \in Nat
         /\ \A k \in 1 .. Len(S) : LS[k] \in Nat /\ LS[k] <= MaxDelay
         /\ \A w \in Nat : \A k \in 1 .. Len(S) :
              /\ w <= LS[k] => w <= MaxDelay
              /\ w <= MaxDelay => w <= MaxDelay + LS[k]
<1>1. /\ MaxDelay \in Nat
      /\ \A k \in 1 .. Len(S) : LS[k] \in Nat /\ LS[k] <= MaxDelay
  BY SwarmAssumption DEF Paired, Lateness
<1>2. \A w \in Nat : \A n \in Nat : n <= MaxDelay =>
        /\ w <= n => w <= MaxDelay
        /\ w <= MaxDelay => w <= MaxDelay + n
  BY <1>1
<1> QED
  BY <1>1, <1>2

\* The provider reads an acknowledgement: its connection knows of it.
LEMMA AckRead ==
  ASSUME NEW c, c # NoConnection, Busy(c), NEW T, ToOK(T), Len(T) # 0,
         NEW F, NEW b, NEW con, NEW want, NEW received,
         Stage(c, T, F, b, con, want, received),
         T[1].type = "ACK", NEW hashes
  PROVE  LET d == Taken(c, T[1], hashes)
         IN  /\ d # NoConnection => d.last_packet_acked = T[1].ack_number
             /\ T[1].ack_number # CHUNK_DATA_NUM => d # NoConnection
<1> DEFINE d == Taken(c, T[1], hashes)
<1>1. \E z \in 1 .. Len(T) : Chain(T, z, c.last_packet_acked)
  <2>1. Len(T) \in 1 .. Len(T)
    BY DEF ToOK
  <2> QED
    BY <2>1 DEF Stage, Idle, Ending, Serving
<1>2. PICK z \in 1 .. Len(T) : Chain(T, z, c.last_packet_acked)
  BY <1>1
<1>3. LET n == T[1].ack_number
          e == ProviderControlByAck(c, n)
      IN  /\ Sound(e)
          /\ e.last_packet_acked = n
          /\ Taken(c, T[1], hashes) = IF n = CHUNK_DATA_NUM THEN NoConnection ELSE e
  BY <1>2, AckTaken
<1> QED
  BY <1>3, NoConnectionAssumption DEF Sound

\* No acknowledgement among the packets ends a chunk.
NoLastAck(T) == \A j \in 1 .. Len(T) : ~IsAck(T, j, CHUNK_DATA_NUM)

\* The provider reads the GET of the chunk that is awaited.
LEMMA GetRead ==
  ASSUME NEW c, Busy(c), NEW T, ToOK(T), Len(T) # 0,
         NEW F, NEW b, NEW con, NEW want,
         Stage(c, T, F, b, con, want, 0),
         NEW hashes, want \in Hash, want \in hashes,
         T[1].type = "GET", NoLastAck(T)
  PROVE  LET d == Taken(c, T[1], hashes)
         IN  d # NoConnection /\ d.last_packet_acked = 0
<1> DEFINE d == Taken(c, T[1], hashes)
<1>1. CASE Idle(c, T, F, b, con, want, 0)
  <2>1. 1 \in 0 + 1 .. Len(T)
    BY DEF ToOK
  <2>2. c = NoConnection /\ T[1].hash = want
    BY <1>1, <2>1 DEF Idle, After
  <2>3. d = InitProviderConnection(want) /\ want \in Hash
    BY <2>2 DEF Taken
  <2>4. d.last_packet_acked = 0 /\ Sound(d)
    BY <2>3, SwarmAssumption, InitSound DEF InitProviderConnection
  <2> QED
    BY <2>4, NoConnectionAssumption DEF Sound
<1>2. CASE Serving(c, T, F, b, con, want, 0)
  <2>1. d = c /\ c # NoConnection
    BY <1>2 DEF Taken, Serving
  <2>2. c.last_packet_acked \in Nat /\ c.last_packet_acked <= 0
    BY <1>2, <2>1, BusyInBounds DEF Serving
  <2> QED
    BY <2>1, <2>2
<1> QED
  BY <1>1, <1>2 DEF Stage, Ending, NoLastAck

\* Of some packets the first g are read.
Read(g, T, LT, T2, LT2) ==
  /\ g = 1 <=> T # <<>>
  /\ g = 1 => Len(T) # 0
  /\ Paired(T2, LT2) /\ Kept(T, LT, T2, LT2, g)
  /\ Len(T2) = Len(T) - g
  /\ \A k \in 1 .. Len(T2) : k + g \in 1 .. Len(T) /\ T2[k] = T[k + g]

\* The stages of a transfer before and after a turn.
Turned(c, T, F, f, T2, F2, b, b2, want, received) ==
  /\ ToOK(T) /\ FromOK(F2) /\ Busy(c) /\ Busy(f)
  /\ b2 \in 0 .. Len(F2)
  /\ Stage(c, T, F, b, TRUE, want, received)
  /\ Flow(F2, b2, TRUE, want, received)
  /\ Stage(f, T2, F2, b2, TRUE, want, received)

\* The turn of a provider, but for the way packets are stored: g packets are
\* read, and it answers on time.
LEMMA TurnAnswers ==
  ASSUME NEW c, NEW T, NEW LT, NEW F, NEW LF, NEW want,
         NEW received \in Nat, received < CHUNK_DATA_NUM,
         NEW hashes, want \in Hash, want \in hashes, NEW u \in Nat,
         NEW f, NEW T2, NEW LT2, NEW F2, NEW LF2, NEW d, NEW g \in {0, 1},
         NEW b, NEW b2, Turned(c, T, F, f, T2, F2, b, b2, want, received),
         Paired(T, LT), Paired(F, LF), Paired(F2, LF2),
         Kept(F, LF, F2, LF2, 0), Read(g, T, LT, T2, LT2),
         g = 1 => d = Taken(c, T[1], hashes),
         Keeps(d, f),
         HeardInTime(T, LT, F, LF, received, FALSE, u)
  PROVE  HeardInTime(T2, LT2, F2, LF2, received, FALSE, u)
<1> DEFINE con == TRUE
<1> USE DEF Turned
<1>0. /\ g = 1 => Len(T) # 0
      /\ Paired(T2, LT2) /\ Kept(T, LT, T2, LT2, g)
      /\ Len(T2) = Len(T) - g
      /\ \A k \in 1 .. Len(T2) : k + g \in 1 .. Len(T) /\ T2[k] = T[k + g]
  BY DEF Read
<1>1. ASSUME f # NoConnection, f.last_packet_acked = received,
             \A k \in 1 .. Len(T2) : ~IsAck(T2, k, CHUNK_DATA_NUM) \/ received # 0,
             u <= MaxDelay
      PROVE  HeardInTime(T2, LT2, F2, LF2, received, FALSE, u)
  <2>1. Serving(f, T2, F2, b2, con, want, received)
    BY <1>1 DEF Stage, Idle, Ending, After
  <2>2. PICK k \in 1 .. Len(F2) : IsData(F2, k, received + 1)
    BY <1>1, <2>1, NextInFlight
  <2>3. u <= MaxDelay + LF2[k]
    BY <1>1, LatenessBounds
  <2> QED
    BY <2>2, <2>3 DEF HeardInTime
<1>2. ASSUME NEW k \in 1 .. Len(F), IsData(F, k, received + 1), u <= MaxDelay + LF[k]
      PROVE  HeardInTime(T2, LT2, F2, LF2, received, FALSE, u)
  <2>1. k > 0 /\ k - 0 = k
    OBVIOUS
  <2>2. k \in 1 .. Len(F2) /\ F2[k] = F[k] /\ LF2[k] = LF[k]
    BY <2>1 DEF Kept
  <2> QED
    BY <1>2, <2>2 DEF HeardInTime, IsData
<1>3. ASSUME NEW k \in 1 .. Len(T), u <= LT[k]
      PROVE  /\ u <= MaxDelay
             /\ k > g => \E i \in 1 .. Len(T2) : /\ i = k - g /\ T2[i] = T[k]
                                                 /\ u <= LT2[i]
             /\ ~(k > g) => k = 1 /\ g = 1
  <2>1. u <= MaxDelay
    BY <1>3, LatenessBounds
  <2>2. k > g => k - g \in 1 .. Len(T2) /\ T2[k - g] = T[k] /\ LT2[k - g] = LT[k]
    BY <1>0 DEF Kept
  <2> QED
    BY <1>3, <2>1, <2>2
<1>4. ASSUME received = 0,
             NEW k \in 1 .. Len(T), T[k].type = "GET", u <= LT[k],
             \A j \in k .. Len(T) : ~IsAck(T, j, CHUNK_DATA_NUM)
      PROVE  HeardInTime(T2, LT2, F2, LF2, received, FALSE, u)
  <2>1. CASE k > g
    <3>1. PICK i \in 1 .. Len(T2) : i = k - g /\ T2[i] = T[k] /\ u <= LT2[i]
      BY <1>3, <1>4, <2>1
    <3>2. \A j \in i .. Len(T2) : j \in 1 .. Len(T2) /\ j + g \in k .. Len(T)
      BY <1>0, <3>1 DEF ToOK
    <3>3. \A j \in i .. Len(T2) : ~IsAck(T2, j, CHUNK_DATA_NUM)
      BY <1>0, <1>4, <3>2 DEF IsAck
    <3> QED
      BY <1>4, <3>1, <3>3 DEF HeardInTime
  <2>2. CASE ~(k > g)
    <3>1. k = 1 /\ g = 1 /\ u <= MaxDelay
      BY <1>3, <1>4, <2>2
    <3>2. T[1].type = "GET" /\ NoLastAck(T)
      BY <1>4, <3>1 DEF NoLastAck
    <3>3. \A j \in 1 .. Len(T2) : ~IsAck(T2, j, CHUNK_DATA_NUM)
      BY <1>0, <3>2 DEF NoLastAck, IsAck
    <3>4. d # NoConnection /\ d.last_packet_acked = received
      <4>1. /\ Stage(c, T, F, b, con, want, 0) /\ Len(T) # 0
            /\ d = Taken(c, T[1], hashes) /\ want \in hashes
        BY <1>0, <1>4, <3>1
      <4>2. /\ Taken(c, T[1], hashes) # NoConnection
            /\ Taken(c, T[1], hashes).last_packet_acked = 0
        BY <3>2, <4>1, GetRead
      <4> QED
        BY <1>4, <4>1, <4>2
    <3>5. f # NoConnection /\ f.last_packet_acked = received
      BY <3>4 DEF Keeps
    <3> QED
      BY <1>1, <3>1, <3>3, <3>5
  <2> QED
    BY <2>1, <2>2
<1>5. ASSUME received # 0,
             NEW k \in 1 .. Len(T), IsAck(T, k, received), u <= LT[k]
      PROVE  HeardInTime(T2, LT2, F2, LF2, received, FALSE, u)
  <2>1. CASE k > g
    <3>1. PICK i \in 1 .. Len(T2) : i = k - g /\ T2[i] = T[k] /\ u <= LT2[i]
      BY <1>3, <1>5, <2>1
    <3> QED
      BY <1>5, <3>1 DEF HeardInTime, IsAck
  <2>2. CASE ~(k > g)
    <3>1. k = 1 /\ g = 1 /\ u <= MaxDelay
      BY <1>3, <1>5, <2>2
    <3>2. T[1].type = "ACK" /\ T[1].ack_number = received
      BY <1>5, <3>1 DEF IsAck
    <3>3. c # NoConnection
      BY <1>5 DEF Stage, Idle, Ending, After, Serving
    <3>4. received # CHUNK_DATA_NUM
      BY Sizes
    <3>5. d # NoConnection /\ d.last_packet_acked = received
      <4>1. Len(T) # 0 /\ d = Taken(c, T[1], hashes)
        BY <1>0, <3>1
      <4>2. /\ Taken(c, T[1], hashes) # NoConnection =>
                 Taken(c, T[1], hashes).last_packet_acked = T[1].ack_number
            /\ T[1].ack_number # CHUNK_DATA_NUM =>
                 Taken(c, T[1], hashes) # NoConnection
        BY <3>2, <3>3, <4>1, AckRead
      <4> QED
        BY <3>2, <3>4, <4>1, <4>2
    <3>6. f # NoConnection /\ f.last_packet_acked = received
      BY <3>5 DEF Keeps
    <3> QED
      BY <1>1, <1>5, <3>1, <3>6
  <2> QED
    BY <2>1, <2>2
<1> QED
  BY <1>2, <1>4, <1>5 DEF HeardInTime

\* Its connection waits no longer than before for an acknowledgement that is
\* on its way.
LEMMA TurnAwaits ==
  ASSUME NEW c, NEW T, NEW LT, NEW F, NEW LF, NEW con, NEW want,
         NEW received \in Nat, NEW hashes,
         NEW f, NEW T2, NEW LT2, NEW F2, NEW LF2, NEW d, NEW g \in {0, 1},
         NEW b, ToOK(T), Busy(c),
         Stage(c, T, F, b, con, want, received),
         Transfer(f, T2, F2, con, want, received, FALSE, hashes),
         Paired(T, LT), Paired(F, LF), Paired(T2, LT2), Paired(F2, LF2),
         Kept(F, LF, F2, LF2, 0), Kept(T, LT, T2, LT2, g),
         g = 1 => Len(T) # 0 /\ d = Taken(c, T[1], hashes),
         Keeps(d, f), GoesOn(c, f), f # NoConnection,
         c # NoConnection => AckedInTime(c, T, LT, F, LF, con, received)
  PROVE  AckedInTime(f, T2, LT2, F2, LF2, con, received)
<1>1. CASE f.since_acked = 0
  <2>1. \/ \E k \in 1 .. Len(T2) : /\ T2[k].type = "ACK"
                                   /\ T2[k].ack_number > f.last_packet_acked
        \/ /\ con /\ received = f.last_packet_acked
           /\ \E k \in 1 .. Len(F2) : IsData(F2, k, received + 1)
    BY AwaitsAck
  <2>2. \A n \in Nat : 0 <= n /\ 0 <= MaxDelay + n
    BY LatenessBounds
  <2>3. /\ \A k \in 1 .. Len(T2) : 0 <= MaxDelay + LT2[k]
        /\ \A k \in 1 .. Len(F2) : 0 <= LF2[k]
    BY <2>2, LatenessBounds
  <2> QED
    BY <1>1, <2>1, <2>3 DEF AckedInTime
<1>2. CASE f.since_acked # 0
  <2>1. /\ c # NoConnection
        /\ f.since_acked = c.since_acked
        /\ f.last_packet_acked = c.last_packet_acked
    BY <1>2 DEF GoesOn
  <2>2. c.since_acked \in Nat /\ f.since_acked \in Nat /\ f.since_acked <= c.since_acked
    BY <2>1 DEF Busy, Sound, ProviderConnection, Age
  <2>3. c.last_packet_acked \in Nat
    BY <2>1, BusyInBounds
  <2>4. g = 1 => ~(T[1].type = "ACK" /\ T[1].ack_number > c.last_packet_acked)
    <3> SUFFICES ASSUME g = 1, T[1].type = "ACK",
                        T[1].ack_number > c.last_packet_acked
                 PROVE  FALSE
      OBVIOUS
    <3>1. d # NoConnection /\ f.last_packet_acked = d.last_packet_acked
      BY DEF Keeps
    <3>2. d.last_packet_acked = T[1].ack_number
      BY <2>1, <3>1, AckRead
    <3> QED
      BY <2>1, <2>3, <3>1, <3>2
  <2>5. AckedInTime(c, T, LT, F, LF, con, received)
    BY <2>1
  <2>6. /\ 0 \in {0, 1} /\ 0 # 1
        /\ 0 = 1 => ~(con /\ IsData(F, 1, received + 1))
    OBVIOUS
  <2> QED
    <3>1. CASE g = 1
      <4>1. 1 \in {0, 1} /\ Kept(T, LT, T2, LT2, 1)
        BY <3>1
      <4>2. ~(T[1].type = "ACK" /\ T[1].ack_number > c.last_packet_acked)
        BY <2>4, <3>1
      <4> QED
        BY <2>1, <2>2, <2>5, <2>6, <4>1, <4>2, AckedStays
    <3>2. CASE g = 0
      <4>1. Kept(T, LT, T2, LT2, 0)
        BY <3>2
      <4> QED
        BY <2>1, <2>2, <2>5, <2>6, <4>1, AckedStays
    <3> QED
      BY <3>1, <3>2
<1> QED
  BY <1>1, <1>2

\* The packet at the head is read, if there is one.
LEMMA ReadIfAny ==
  ASSUME NEW X, NEW T \in Seq(X), NEW LT, Paired(T, LT),
         NEW T2, T2 = (IF T = <<>> THEN T ELSE Tail(T)),
         NEW LT2, LT2 = (IF LT = <<>> THEN LT ELSE Tail(LT))
  PROVE  \E g \in {0, 1} : Read(g, T, LT, T2, LT2)
<1>1. CASE T = <<>>
  <2>1. LT = <<>>
    BY <1>1, EmptySeq DEF Paired
  <2>2. T2 = T /\ LT2 = LT /\ Len(T) \in Nat
    BY <1>1, <2>1
  <2>3. /\ Len(T2) = Len(T) - 0
        /\ \A k \in 1 .. Len(T2) : k + 0 \in 1 .. Len(T) /\ T2[k] = T[k + 0]
    BY <2>2
  <2>4. Paired(T2, LT2) /\ Kept(T, LT, T2, LT2, 0)
    BY <2>2, KeptWhole
  <2> WITNESS 0 \in {0, 1}
  <2> QED
    BY <1>1, <2>3, <2>4 DEF Read
<1>2. CASE T # <<>>
  <2>1. LT # <<>>
    BY <1>2, EmptySeq DEF Paired
  <2>2. T2 = Tail(T) /\ LT2 = Tail(LT)
    BY <1>2, <2>1
  <2>3. /\ Paired(T2, LT2) /\ Kept(T, LT, T2, LT2, 1)
        /\ Shifted(T, T2)
    BY <1>2, <2>2, KeptRead
  <2>4. /\ Len(T) # 0 /\ Len(T2) = Len(T) - 1
        /\ \A k \in 1 .. Len(T2) : k + 1 \in 1 .. Len(T) /\ T2[k] = T[k + 1]
    BY <2>3 DEF Shifted
  <2> WITNESS 1 \in {0, 1}
  <2> QED
    BY <1>2, <2>3, <2>4 DEF Read
<1> QED
  BY <1>1, <1>2

\* What the queues are after a turn that sends something.
Moved(T, LT, F, LF, sent, T2, LT2, F2, LF2) ==
  /\ T2 = IF T = <<>> THEN T ELSE Tail(T)
  /\ LT2 = IF LT = <<>> THEN LT ELSE Tail(LT)
  /\ F2 = F \o sent
  /\ LF2 = LF \o OnTime(sent)

\* A turn of the provider answers, on time, what it read.
LEMMA TimelyTurn ==
  ASSUME NEW c, NEW T, NEW LT, NEW F, NEW LF, NEW con, NEW want, NEW received,
         NEW hashes, NEW u, u \in Nat,
         Transfer(c, T, F, con, want, received, FALSE, hashes),
         Asks(con, want, received, hashes),
         Timely(c, T, LT, F, LF, con, received, FALSE, u),
         NEW d, TakesFirst(c, T, hashes, d),
         NEW f, GoesOn(c, f), Keeps(d, f),
         NEW T2, NEW LT2, NEW F2, NEW LF2, NEW sent,
         sent \in Seq(FromPacket(hashes)),
         Moved(T, LT, F, LF, sent, T2, LT2, F2, LF2),
         Transfer(f, T2, F2, con, want, received, FALSE, hashes)
  PROVE  Timely(f, T2, LT2, F2, LF2, con, received, FALSE, u)
<1>0. /\ con \in BOOLEAN
      /\ received \in 0 .. CHUNK_DATA_NUM - 1
      /\ hashes \subseteq Hash
      /\ con => want \in hashes
      /\ d = IF T = <<>> THEN c ELSE Taken(c, T[1], hashes)
      /\ T2 = IF T = <<>> THEN T ELSE Tail(T)
      /\ LT2 = IF LT = <<>> THEN LT ELSE Tail(LT)
      /\ F2 = F \o sent
      /\ LF2 = LF \o OnTime(sent)
  BY DEF Asks, TakesFirst, Moved
<1> USE <1>0
<1>1. /\ T \in Seq(ToPacket) /\ F \in Seq(FromPacket(hashes))
      /\ F2 \in Seq(FromPacket(hashes))
      /\ received \in Nat /\ received < CHUNK_DATA_NUM
  BY Sizes DEF Transfer
<1>2. Paired(T, LT) /\ Paired(F, LF)
  BY DEF Timely
<1>3. Paired(F2, LF2) /\ Kept(F, LF, F2, LF2, 0)
  BY <1>1, <1>2, KeptJoined
<1>4. PICK g \in {0, 1} :
        /\ Read(g, T, LT, T2, LT2)
        /\ g = 1 <=> T # <<>>
        /\ g = 1 => Len(T) # 0
        /\ Paired(T2, LT2) /\ Kept(T, LT, T2, LT2, g)
        /\ Len(T2) = Len(T) - g
        /\ \A k \in 1 .. Len(T2) : k + g \in 1 .. Len(T) /\ T2[k] = T[k + g]
  <2>1. /\ T \in Seq(ToPacket) /\ Paired(T, LT)
        /\ T2 = IF T = <<>> THEN T ELSE Tail(T)
        /\ LT2 = IF LT = <<>> THEN LT ELSE Tail(LT)
    BY <1>1, <1>2
  <2> QED
    <3>1. \E g \in {0, 1} : Read(g, T, LT, T2, LT2)
      BY ONLY <2>1, ReadIfAny, Zenon
    <3> QED
      BY <3>1 DEF Read
<1>5. g = 1 => Len(T) # 0 /\ d = Taken(c, T[1], hashes)
  BY <1>4
<1>6. PICK b \in 0 .. Len(F) : /\ Stage(c, T, F, b, con, want, received)
                               /\ Busy(c)
  BY DEF Transfer, Alive
<1>7. PICK b2 \in 0 .. Len(F2) : /\ Flow(F2, b2, con, want, received)
                                 /\ Stage(f, T2, F2, b2, con, want, received)
                                 /\ Busy(f)
  BY DEF Transfer, Alive
<1>8. FromOK(F2) /\ ToOK(T)
  BY <1>1, PacketsOK
<1>9. ASSUME f # NoConnection
      PROVE  AckedInTime(f, T2, LT2, F2, LF2, con, received)
  <2>1. c # NoConnection => AckedInTime(c, T, LT, F, LF, con, received)
    BY DEF Timely
  <2> QED
    BY ONLY <1>1, <1>2, <1>3, <1>4, <1>5, <1>6, <1>8, <1>9, <2>1, TurnAwaits,
            g \in {0, 1}, Keeps(d, f), GoesOn(c, f),
            Transfer(f, T2, F2, con, want, received, FALSE, hashes)
<1>10. ASSUME con
       PROVE  HeardInTime(T2, LT2, F2, LF2, received, FALSE, u)
  <2>1. HeardInTime(T, LT, F, LF, received, FALSE, u)
    BY <1>10 DEF Timely
  <2>2. con = TRUE /\ want \in hashes /\ want \in Hash
    BY <1>10
  <2>3. g = 1 => d = Taken(c, T[1], hashes)
    BY <1>5
  <2> QED
    <3>1. Turned(c, T, F, f, T2, F2, b, b2, want, received)
      BY <1>6, <1>7, <1>8, <2>2 DEF Turned
    <3>2. Read(g, T, LT, T2, LT2)
      BY <1>4
    <3>3. received \in Nat /\ received < CHUNK_DATA_NUM
      BY <1>1
    <3> QED
      BY ONLY <1>2, <1>3, <2>1, <2>2, <2>3, <3>1, <3>2, <3>3, TurnAnswers,
              g \in {0, 1}, Keeps(d, f), u \in Nat
<1> QED
  BY <1>3, <1>4, <1>9, <1>10 DEF Timely

-----------------------------------------------------------------------------
(* The invariant of the swarm.                                             *)

\* The chunk the downloader awaits from p.
Want(p) == IF P!Connected(p) THEN P!Awaited(p) ELSE NoConnection

\* How many packets of it were received.
Received(p) == IF P!Connected(p) THEN P!InOrderSoFar(p) ELSE 0

\* The packets between the downloader and p, and the connection of p, belong
\* to the transfers of one chunk after the other.
InTransfer(p) ==
  Transfer(provider[p], to[p], from[p], P!Connected(p), Want(p), Received(p),
           p \in crashed, Owned[p])

\* For how long the downloader did not hear of p.
Waited(p) == IF P!Connected(p) THEN P!Unheard(connection[p]) ELSE 0

\* Nobody waits longer than the packets between them are late.
InTime(p) ==
  Timely(provider[p], to[p], to_late[p], from[p], from_late[p], P!Connected(p),
         Received(p), p \in crashed, Waited(p))

\* The downloader awaits only what p owns, and p is in time.
PeerInv(p) == InTransfer(p) /\ P!ListedIn(p, Owned[p]) /\ InTime(p)

\* What a chunk has was cut from it.
Own == \A c \in P!JobChunk : P!Verified(c, data[c])

\* What holds while nothing was lost.
Lossless == P!IInv /\ (\A p \in Peer : PeerInv(p)) /\ Own

\* The network is a queue to and from every peer.
Network ==
  /\ provider = [p \in Peer |-> provider[p]]
  /\ to = [p \in Peer |-> to[p]]
  /\ from = [p \in Peer |-> from[p]]
  /\ to_late = [p \in Peer |-> to_late[p]]
  /\ from_late = [p \in Peer |-> from_late[p]]
  /\ losses \in Nat

\* The inductive invariant.
SwarmInv == Network /\ (losses = 0 => Lossless)

\* An answer never comes later than a timeout lasts, although both the packet
\* that asks for it and the answer itself may be late.
Punctual == 2 * MaxDelay <= PEER_CRASH_TIMEOUT

-----------------------------------------------------------------------------
\* The constants are as the downloader assumes.
LEMMA Assumed == P!DownloadAssumption /\ P!NoConnectionAssumption
<1>1. P!DownloadAssumption
  BY SwarmAssumption, ControlAssumption, SMT
  DEF P!IsFiniteSet, IsFiniteSet, P!DownloadAssumption
<1>2. P!NoConnectionAssumption
  BY NoConnectionAssumption
  DEF P!NoConnectionAssumption, P!ReceiverConnection, D!ReceiverConnection,
      P!JobChunk, D!JobChunk, P!RECEIVER_STATUS, D!RECEIVER_STATUS,
      P!Age, D!Age
<1> QED
  BY <1>1, <1>2

\* Ages are numbers.
LEMMA UnheardInBounds ==
  /\ \A rc \in P!ReceiverConnection : P!Unheard(rc) \in Nat
  /\ P!IInv  => \A p \in Peer :
       P!Connected(p) => P!Unheard(connection[p]) \in Nat
  /\ P!IInv' => \A p \in Peer :
       P!Connected(p)' => P!Unheard(connection'[p]) \in Nat
<1>1. ASSUME NEW rc \in P!ReceiverConnection
      PROVE  P!Unheard(rc) \in Nat
  <2>1. P!Unheard(rc) \in P!Age
    BY Assumed, P!CrashedIsUnheard
  <2> QED
    BY <2>1, ControlAssumption, SMT DEF P!Age
<1> QED
  BY <1>1 DEF P!IInv, P!TypeOK, P!Connected

\* The chunk that is awaited is one of those the peer offered.
AwaitedOwned ==
  \A p \in Peer : P!Connected(p) /\ P!ListedIn(p, Owned[p]) =>
                    P!Awaited(p) \in Owned[p]

\* It is so while the connection only lists what the peer offered.
LEMMA AwaitedIsOwned == P!IInv => AwaitedOwned
<1> SUFFICES ASSUME P!IInv, NEW p \in Peer,
                    P!Connected(p), P!ListedIn(p, Owned[p])
             PROVE  P!Awaited(p) \in Owned[p]
  BY DEF AwaitedOwned
<1>1. /\ P!Downloading(p) = P!Lists[p][1]
      /\ Len(P!Lists[p]) \in Nat \ {0}
  BY Assumed, P!HeadIsDownloading
<1>2. P!Lists[p] = connection[p].chunks
  BY DEF P!Lists, P!List
<1> QED
  BY <1>1, <1>2 DEF P!ListedIn, P!Awaited

\* The same, after a step.
LEMMA AwaitedStaysOwned == P!IInv' => AwaitedOwned'
BY AwaitedIsOwned, PTL

\* What the lemmas on a transfer ask of one.
LEMMA InBounds ==
  ASSUME P!IInv, NEW p \in Peer, PeerInv(p)
  PROVE  /\ P!Connected(p) \in BOOLEAN
         /\ Received(p) \in 0 .. CHUNK_DATA_NUM - 1
         /\ Received(p) \in Nat
         /\ ~P!Connected(p) => Received(p) = 0
         /\ Owned[p] \subseteq Hash
         /\ P!Connected(p) => /\ Want(p) \in Owned[p]
                              /\ Want(p) = P!Awaited(p)
                              /\ Received(p) = P!InOrderSoFar(p)
                              /\ P!Unheard(connection[p]) \in Nat
<1>1. P!Connected(p) \in BOOLEAN
  BY DEF P!Connected
<1>2. Owned[p] \subseteq Hash
  BY SwarmAssumption
<1>3. CASE ~P!Connected(p)
  BY <1>1, <1>2, <1>3, Sizes DEF Received
<1>4. CASE P!Connected(p)
  <2>1. P!Downloading(p) \in P!JobChunk /\ connection[p] \in P!ReceiverConnection
    BY <1>4, Assumed, P!HeadIsDownloading, P!ListsOfChunks DEF P!IInv
  <2>2. P!InOrderSoFar(p) \in 0 .. CHUNK_DATA_NUM - 1
    BY <2>1, Assumed DEF P!IInv, P!TypeOK, P!InOrderSoFar
  <2>3. P!Awaited(p) \in Owned[p]
    BY <1>4, AwaitedIsOwned DEF AwaitedOwned, PeerInv
  <2>4. P!Unheard(connection[p]) \in Nat
    BY <2>1, UnheardInBounds
  <2> QED
    BY <1>1, <1>2, <1>4, <2>2, <2>3, <2>4, Sizes DEF Received, Want
<1> QED
  BY <1>3, <1>4

\* What the lemmas on lateness ask of it.
LEMMA PeerTimes ==
  ASSUME P!IInv, NEW p \in Peer, PeerInv(p)
  PROVE  /\ Waited(p) \in Nat
         /\ to[p] \in Seq(ToPacket)
         /\ Len(to[p]) \in Nat
         /\ from[p] \in Seq(FromPacket(Owned[p]))
         /\ Len(from[p]) \in Nat
         /\ p \in crashed => to[p] = <<>>
         /\ p \in crashed => provider[p] = NoConnection
         /\ provider[p] # NoConnection => /\ provider[p].since_acked \in Nat
                                         /\ provider[p].last_packet_acked \in Nat
<1>1. Waited(p) \in Nat
  BY UnheardInBounds DEF Waited
<1>2. /\ to[p] \in Seq(ToPacket)
      /\ from[p] \in Seq(FromPacket(Owned[p]))
      /\ p \in crashed => to[p] = <<>>
      /\ p \in crashed => provider[p] = NoConnection
      /\ p \notin crashed => Busy(provider[p])
  BY DEF PeerInv, InTransfer, Transfer
<1>3. provider[p] # NoConnection => provider[p] \in ProviderConnection
  BY <1>2 DEF Busy, Sound
<1>4. provider[p] # NoConnection => /\ provider[p].since_acked \in Age
                                   /\ provider[p].last_packet_acked \in 0 .. CHUNK_DATA_NUM
  BY <1>3 DEF ProviderConnection
<1>5. \A n : n \in Age => n \in Nat
  BY ControlAssumption, SMT DEF Age
<1>6. Len(to[p]) \in Nat /\ Len(from[p]) \in Nat
  BY <1>2
<1>7. provider[p] # NoConnection => /\ provider[p].since_acked \in Nat
                                   /\ provider[p].last_packet_acked \in Nat
  BY <1>4, <1>5
<1> QED
  BY <1>1, <1>2, <1>6, <1>7

\* The step leaves the ends of the network at p, and what p sent, alone.
SameEnd(p) ==
  /\ provider'[p] = provider[p]
  /\ from'[p] = from[p]
  /\ from_late'[p] = from_late[p]
  /\ (p \in crashed') = (p \in crashed)

\* What is sent joins the packets on their way to p.
Joins(p, sent) ==
  /\ to'[p] = Onto(to[p], sent, p \in crashed)
  /\ to_late'[p] = Onto(to_late[p], OnTime(sent), p \in crashed)

\* Nothing joins them.
SameQueue(p) == to'[p] = to[p] /\ to_late'[p] = to_late[p]

\* The transfer is the same after a step that keeps it.
LEMMA SameWants ==
  ASSUME NEW p \in Peer, P!SameDownload(p)
  PROVE  /\ P!Connected(p)' = P!Connected(p)
         /\ Want(p)' = Want(p)
         /\ Received(p)' = Received(p)
<1>1. P!Connected(p)' <=> P!Connected(p)
  BY DEF P!SameDownload
<1>2. P!Connected(p)' = P!Connected(p)
  BY <1>1 DEF P!Connected
<1>3. P!Connected(p) => /\ P!Awaited(p)' = P!Awaited(p)
                        /\ P!InOrderSoFar(p)' = P!InOrderSoFar(p)
  BY DEF P!SameDownload
<1> QED
  BY <1>1, <1>2, <1>3 DEF Want, Received

\* A step that only asks p for what it was asked before, or for nothing.
LEMMA PeerKept ==
  ASSUME P!IInv, NEW p \in Peer, NEW sent \in Seq(ToPacket),
         PeerInv(p), SameEnd(p), P!SameDownload(p),
         P!Connected(p) => P!Unheard(connection'[p]) <= P!Unheard(connection[p]),
         P!IInv',
         \A k \in 1 .. Len(sent) :
           /\ sent[k].type # "ACK"
           /\ sent[k].type = "GET" => P!Connected(p) /\ sent[k].hash = P!Awaited(p),
         Joins(p, sent)
  PROVE  PeerInv(p)'
<1>1. /\ P!Connected(p)' = P!Connected(p)
      /\ Want(p)' = Want(p)
      /\ Received(p)' = Received(p)
  BY SameWants
<1>2. \A k \in 1 .. Len(sent) :
        /\ sent[k].type # "ACK"
        /\ sent[k].type = "GET" => P!Connected(p) /\ sent[k].hash = Want(p)
  BY DEF Want
<1>3. Transfer(provider[p], Onto(to[p], sent, p \in crashed), from[p], P!Connected(p),
               Want(p), Received(p), p \in crashed, Owned[p])
  BY <1>2, TransferAsked DEF PeerInv, InTransfer
<1>4. InTransfer(p)'
  BY <1>1, <1>3 DEF InTransfer, SameEnd, Joins
<1>5. P!ListedIn(p, Owned[p])'
  BY DEF PeerInv, P!SameDownload
<1>6. InTime(p)'
  <2>1. PICK v : v = Waited(p)'
    OBVIOUS
  <2>2. v \in Nat /\ v <= Waited(p) /\ Waited(p) \in Nat
    <3>1. P!Connected(p) => /\ P!Unheard(connection[p]) \in Nat
                            /\ P!Unheard(connection'[p]) \in Nat
      BY <1>1, UnheardInBounds
    <3> QED
      BY <1>1, <2>1, <3>1 DEF Waited
  <2>3. \A k \in 1 .. Len(sent) : ~IsAck(sent, k, CHUNK_DATA_NUM)
    BY <1>2 DEF IsAck
  <2>4. Timely(provider[p], to[p], to_late[p], from[p], from_late[p], P!Connected(p),
               Received(p), p \in crashed, Waited(p))
    BY DEF PeerInv, InTime
  <2>5. Timely(provider[p], Onto(to[p], sent, p \in crashed),
               Onto(to_late[p], OnTime(sent), p \in crashed), from[p], from_late[p],
               P!Connected(p), Received(p), p \in crashed, v)
    BY <2>2, <2>3, <2>4, PeerTimes, TimelyAsked
  <2> QED
    BY <1>1, <2>1, <2>5 DEF InTime, SameEnd, Joins
<1> QED
  BY <1>4, <1>5, <1>6 DEF PeerInv

-----------------------------------------------------------------------------
(* The actions of the downloader are those of the module they are proved   *)
(* in: the definitions are the same.                                       *)

\* A turn starts.
LEMMA SameSelect ==
  D!Select(0) => P!Select(0)
BY DEF D!Select, P!Select, D!Phase, P!Phase, D!Connected, P!Connected,
    D!Elapse, P!Elapse, D!Older, P!Older, D!Silence, P!Silence,
    D!job_vars, P!job_vars, D!chunk_vars, P!chunk_vars

\* An IHAVE is read.
LEMMA SameIHave ==
  ASSUME NEW p, NEW hashes
  PROVE  /\ D!ExtendConnection(p, hashes) => P!ExtendConnection(p, hashes)
         /\ D!AddReceiverConnection(p, hashes) => P!AddReceiverConnection(p, hashes)
         /\ D!IgnoreIHave(p, hashes) => P!IgnoreIHave(p, hashes)
<1>1. D!ExtendConnection(p, hashes) => P!ExtendConnection(p, hashes)
  BY DEF D!ExtendConnection, P!ExtendConnection, D!Phase, P!Phase,
      D!Connected, P!Connected, D!Selection, P!Selection, D!JobChunk,
      P!JobChunk, D!Wanted, P!Wanted, D!Silence, P!Silence, D!job_vars,
      P!job_vars, D!Cardinality, P!Cardinality, D!Before, P!Before,
      D!Named, P!Named, D!Listed, P!Listed, D!IsGetChunk, P!IsGetChunk,
      D!HashOfChunk, P!HashOfChunk
<1>2. D!AddReceiverConnection(p, hashes) => P!AddReceiverConnection(p, hashes)
  BY DEF D!AddReceiverConnection, P!AddReceiverConnection, D!Phase,
      P!Phase, D!Connected, P!Connected, D!ConnectionNumber,
      P!ConnectionNumber, D!Wanted, P!Wanted, D!Selection, P!Selection,
      D!JobChunk, P!JobChunk, D!Silence, P!Silence, D!GetPacket,
      P!GetPacket, D!job_vars, P!job_vars, D!Cardinality, P!Cardinality,
      D!Named, P!Named, D!Before, P!Before, D!HashOfChunk,
      P!HashOfChunk, D!Listed, P!Listed, D!IsGetChunk, P!IsGetChunk
<1>3. D!IgnoreIHave(p, hashes) => P!IgnoreIHave(p, hashes)
  BY DEF D!IgnoreIHave, P!IgnoreIHave, D!Phase, P!Phase, D!Connected,
      P!Connected, D!ConnectionNumber, P!ConnectionNumber, D!Wanted,
      P!Wanted, D!Silence, P!Silence, D!job_vars, P!job_vars,
      D!chunk_vars, P!chunk_vars, D!Cardinality, P!Cardinality,
      D!JobChunk, P!JobChunk, D!Named, P!Named, D!Listed, P!Listed,
      D!IsGetChunk, P!IsGetChunk, D!HashOfChunk, P!HashOfChunk
<1> QED
  BY <1>1, <1>2, <1>3

\* A DATA packet is read.
LEMMA SameData ==
  ASSUME NEW p, NEW n, NEW hash
  PROVE  /\ D!IgnoreData(p, n) => P!IgnoreData(p, n)
         /\ D!AcknowledgeAgain(p, n) => P!AcknowledgeAgain(p, n)
         /\ D!SaveDataPacket(p, n, hash) => P!SaveDataPacket(p, n, hash)
         /\ D!FinishChunk(p, n, hash) => P!FinishChunk(p, n, hash)
<1>1. D!IgnoreData(p, n) => P!IgnoreData(p, n)
  BY DEF D!IgnoreData, P!IgnoreData, D!Phase, P!Phase, D!Connected,
      P!Connected, D!Downloading, P!Downloading, D!Silence, P!Silence,
      D!job_vars, P!job_vars, D!chunk_vars, P!chunk_vars
<1>2. D!AcknowledgeAgain(p, n) => P!AcknowledgeAgain(p, n)
  BY DEF D!AcknowledgeAgain, P!AcknowledgeAgain, D!Phase, P!Phase,
      D!Connected, P!Connected, D!Downloading, P!Downloading, D!Silence,
      P!Silence, D!AckPacket, P!AckPacket, D!job_vars, P!job_vars,
      D!chunk_vars, P!chunk_vars
<1>3. D!SaveDataPacket(p, n, hash) => P!SaveDataPacket(p, n, hash)
  BY DEF D!SaveDataPacket, P!SaveDataPacket, D!Downloading, P!Downloading,
      D!Phase, P!Phase, D!Expected, P!Expected, D!Heard, P!Heard,
      D!Silence, P!Silence, D!AckPacket, P!AckPacket, D!job_vars,
      P!job_vars, D!Connected, P!Connected
<1>4. D!FinishChunk(p, n, hash) => P!FinishChunk(p, n, hash)
  BY DEF D!FinishChunk, P!FinishChunk, D!Downloading, P!Downloading,
      D!Phase, P!Phase, D!Expected, P!Expected, D!SaveOutcome,
      P!SaveOutcome, D!Verified, P!Verified, D!Written, P!Written,
      D!JobChunk, P!JobChunk, D!Heard, P!Heard, D!Silence, P!Silence,
      D!AckPacket, P!AckPacket, D!GetPacket, P!GetPacket, D!job_vars,
      P!job_vars, D!Connected, P!Connected, D!ShortWrites,
      P!ShortWrites, D!HashOfChunk, P!HashOfChunk, D!Cardinality,
      P!Cardinality
<1> QED
  BY <1>1, <1>2, <1>3, <1>4

\* The rest of a turn.
LEMMA SameRest ==
  ASSUME NEW j
  PROVE  /\ D!NoPacket => P!NoPacket
         /\ D!ProcessGet(j) => P!ProcessGet(j)
         /\ D!NoUserInput => P!NoUserInput
         /\ D!ReceiversTimeout => P!ReceiversTimeout
         /\ D!FloodAndFinishJob => P!FloodAndFinishJob
<1>1. D!NoPacket => P!NoPacket
  BY DEF D!NoPacket, P!NoPacket, D!Phase, P!Phase, D!Silence, P!Silence,
      D!job_vars, P!job_vars, D!chunk_vars, P!chunk_vars
<1>2. D!ProcessGet(j) => P!ProcessGet(j)
  BY DEF D!ProcessGet, P!ProcessGet, D!Phase, P!Phase, D!FloodWhoHas,
      P!FloodWhoHas, D!chunk_vars, P!chunk_vars, D!ConnectionNumber,
      P!ConnectionNumber, D!NotFound, P!NotFound, D!Silence, P!Silence,
      D!WhoHasPackets, P!WhoHasPackets, D!WhoHasHashes, P!WhoHasHashes,
      D!Cardinality, P!Cardinality, D!Connected, P!Connected,
      D!JobChunk, P!JobChunk, D!PacketNumber, P!PacketNumber,
      D!WhoHasPacket, P!WhoHasPacket, D!Ascending, P!Ascending
<1>3. D!NoUserInput => P!NoUserInput
  BY DEF D!NoUserInput, P!NoUserInput, D!Phase, P!Phase, D!Silence,
      P!Silence, D!job_vars, P!job_vars, D!chunk_vars, P!chunk_vars
<1>4. D!ReceiversTimeout => P!ReceiversTimeout
  BY DEF D!ReceiversTimeout, P!ReceiversTimeout, D!Phase, P!Phase,
      D!Connected, P!Connected, D!ProviderCrashed, P!ProviderCrashed,
      D!GetLost, P!GetLost, D!JobChunk, P!JobChunk, D!Cancelled,
      P!Cancelled, D!Downloading, P!Downloading, D!GetPacket,
      P!GetPacket, D!job_vars, P!job_vars, D!Range, P!Range,
      D!HashOfChunk, P!HashOfChunk
<1>5. D!FloodAndFinishJob => P!FloodAndFinishJob
  BY DEF D!FloodAndFinishJob, P!FloodAndFinishJob, D!Phase, P!Phase,
      D!FloodWhoHas, P!FloodWhoHas, D!Silence, P!Silence, D!JobFinished,
      P!JobFinished, D!chunk_vars, P!chunk_vars, D!ConnectionNumber,
      P!ConnectionNumber, D!NotFound, P!NotFound, D!WhoHasPackets,
      P!WhoHasPackets, D!WhoHasHashes, P!WhoHasHashes, D!Cardinality,
      P!Cardinality, D!Connected, P!Connected, D!JobChunk, P!JobChunk,
      D!PacketNumber, P!PacketNumber, D!WhoHasPacket, P!WhoHasPacket,
      D!Ascending, P!Ascending
<1> QED
  BY <1>1, <1>2, <1>3, <1>4, <1>5

\* Its invariant is kept.
LEMMA DownloaderStep ==
  ASSUME P!IInv, P!Next
  PROVE  P!IInv'
BY Assumed, P!StepKeeps

-----------------------------------------------------------------------------
(* Every step keeps the invariant, while nothing is lost: first the steps  *)
(* of the downloader.                                                      *)

\* Nothing is sent to p.
LEMMA OntoNothing ==
  ASSUME NEW p \in Peer, PeerInv(p)
  PROVE  /\ Onto(to[p], <<>>, p \in crashed) = to[p]
         /\ Onto(to_late[p], OnTime(<<>>), p \in crashed) = to_late[p]
         /\ Joins(p, <<>>) <=> SameQueue(p)
<1>1. to[p] \in Seq(ToPacket) /\ (p \in crashed => to[p] = <<>>)
  BY DEF PeerInv, InTransfer, Transfer
<1>2. to_late[p] \in Seq(Lateness) /\ Len(to_late[p]) = Len(to[p])
  BY DEF PeerInv, InTime, Timely, Paired
<1>3. p \in crashed => to_late[p] = <<>>
  BY <1>1, <1>2, EmptySeq
<1>4. OnTime(<<>>) = <<>>
  BY EmptySeq, OnTimePaired
<1>5. Onto(to[p], <<>>, p \in crashed) = to[p]
  BY <1>1 DEF Onto
<1>6. Onto(to_late[p], OnTime(<<>>), p \in crashed) = to_late[p]
  <2>1. to_late[p] \o <<>> = to_late[p]
    BY <1>2
  <2> QED
    BY <1>3, <1>4, <2>1 DEF Onto
<1> QED
  BY <1>5, <1>6 DEF Joins, SameQueue

\* A step that is nothing to p.
LEMMA PeerUntouched ==
  ASSUME P!IInv, NEW p \in Peer,
         PeerInv(p), SameEnd(p), P!SameDownload(p),
         P!Connected(p) => P!Unheard(connection'[p]) <= P!Unheard(connection[p]),
         P!IInv',
         SameQueue(p)
  PROVE  PeerInv(p)'
<1>1. PICK sent : sent = <<>>
  OBVIOUS
<1>2. sent \in Seq(ToPacket) /\ Len(sent) = 0 /\ Joins(p, sent)
  BY <1>1, OntoNothing
<1>3. \A k \in 1 .. Len(sent) :
        /\ sent[k].type # "ACK"
        /\ sent[k].type = "GET" => P!Connected(p) /\ sent[k].hash = P!Awaited(p)
  BY <1>2
<1> QED
  BY <1>2, <1>3, PeerKept

\* select returns.
LEMMA StartTurnKeeps ==
  ASSUME Lossless, Network, StartTurn
  PROVE  Lossless'
<1>1. P!Select(0) /\ 0 \in {0, 1}
  BY SameSelect DEF StartTurn
<1>2. P!IInv /\ \A p \in Peer : PeerInv(p)
  BY DEF Lossless
<1>3. P!IInv'
  <2>1. P!Next
    BY <1>1 DEF P!Next
  <2> QED
    BY <1>2, <2>1, DownloaderStep
<1>4. ASSUME NEW p \in Peer
      PROVE  PeerInv(p)'
  <2>1. /\ connection' = [q \in Peer |-> IF P!Connected(q)
                                          THEN P!Elapse(connection[q], 0)
                                          ELSE NoConnection]
        /\ received_seq_num' = received_seq_num
    BY <1>1 DEF P!Select, P!chunk_vars
  <2>2. /\ P!SameDownload(p)
        /\ P!Connected(p) =>
             P!Unheard(connection'[p]) <= P!Unheard(connection[p]) + 0
    BY <1>1, <1>2, <2>1, Assumed, P!SelectKeepsDownloads
  <2>3. P!Connected(p) => P!Unheard(connection'[p]) <= P!Unheard(connection[p])
    BY <1>2, <2>2, UnheardInBounds
  <2>4. SameEnd(p) /\ SameQueue(p)
    BY DEF StartTurn, net_vars, SameEnd, SameQueue
  <2> QED
    BY <1>2, <1>3, <2>2, <2>3, <2>4, PeerUntouched
<1>5. Own'
  BY <1>1 DEF Lossless, Own, P!Select, P!chunk_vars, P!Verified, P!JobChunk, P!HashOfChunk
<1> QED
  BY <1>3, <1>4, <1>5 DEF Lossless

\* The downloader reads the first packet from p, and what it sends goes on
\* its way.
Reads(p) ==
  /\ from[p] # <<>>
  /\ from' = [from EXCEPT ![p] = Tail(@)]
  /\ from_late' = [from_late EXCEPT ![p] = Tail(@)]
  /\ Deliver
  /\ UNCHANGED <<provider, crashed, losses, late_ticks>>

\* What p finds after its packet was read.
ReadEnd(p) ==
  /\ from[p] # <<>>
  /\ from'[p] = Tail(from[p])
  /\ from_late'[p] = Tail(from_late[p])
  /\ Joins(p, out'[p])
  /\ provider'[p] = provider[p]
  /\ (p \in crashed') = (p \in crashed)

\* The packet is off the queue, and the others' queues are as they were.
LEMMA ReadsEnds ==
  ASSUME Network, NEW p \in Peer, Reads(p)
  PROVE  /\ ReadEnd(p)
         /\ \A o \in Peer : o # p => SameEnd(o) /\ Joins(o, out'[o])
<1>1. /\ from[p] # <<>>
      /\ from' = [from EXCEPT ![p] = Tail(@)]
      /\ from_late' = [from_late EXCEPT ![p] = Tail(@)]
      /\ from = [o \in Peer |-> from[o]]
      /\ from_late = [o \in Peer |-> from_late[o]]
      /\ UNCHANGED <<provider, crashed>>
  BY DEF Network, Reads
<1>2. /\ from'[p] = Tail(from[p])
      /\ from_late'[p] = Tail(from_late[p])
      /\ \A o \in Peer : o # p => from'[o] = from[o] /\ from_late'[o] = from_late[o]
  BY <1>1
<1>3. \A o \in Peer : Joins(o, out'[o])
  BY DEF Reads, Deliver, Joins, Onto
<1>4. ReadEnd(p)
  BY <1>1, <1>2, <1>3 DEF ReadEnd
<1> QED
  BY <1>1, <1>2, <1>3, <1>4 DEF SameEnd

\* The others are not concerned.
LEMMA OthersKept ==
  ASSUME Lossless, Network, NEW p \in Peer, Reads(p), P!IInv',
         \A o \in Peer : o # p =>
           P!SameDownload(o) /\ P!SameAge(o) /\ out'[o] = <<>>,
         PeerInv(p)', Own'
  PROVE  Lossless'
<1>1. P!IInv /\ \A q \in Peer : PeerInv(q)
  BY DEF Lossless
<1>2. ASSUME NEW o \in Peer, o # p
      PROVE  PeerInv(o)'
  <2>1. SameEnd(o) /\ Joins(o, <<>>)
    BY <1>2, ReadsEnds
  <2>2. SameQueue(o)
    BY <1>1, <2>1, OntoNothing
  <2>3. /\ P!SameDownload(o)
        /\ P!Connected(o) => P!Unheard(connection'[o]) = P!Unheard(connection[o])
    BY <1>2 DEF P!SameAge
  <2>4. P!Connected(o) => P!Unheard(connection'[o]) <= P!Unheard(connection[o])
    BY <1>1, <2>3, UnheardInBounds
  <2> QED
    BY <1>1, <2>1, <2>2, <2>3, <2>4, PeerUntouched
<1> QED
  BY <1>2 DEF Lossless

\* What p's packet leads to.
LEMMA PeerRead ==
  ASSUME NEW p \in Peer, ReadEnd(p),
         Transfer(provider[p], Onto(to[p], out'[p], p \in crashed), Tail(from[p]),
                  P!Connected(p)', Want(p)', Received(p)', p \in crashed, Owned[p]),
         P!ListedIn(p, Owned[p])',
         Timely(provider[p], Onto(to[p], out'[p], p \in crashed),
                Onto(to_late[p], OnTime(out'[p]), p \in crashed),
                Tail(from[p]), Tail(from_late[p]), P!Connected(p)', Received(p)',
                p \in crashed, Waited(p)')
  PROVE  PeerInv(p)'
BY DEF PeerInv, InTransfer, InTime, ReadEnd, Joins

\* The age of the connection is what it was.
LEMMA WaitsOn ==
  ASSUME NEW p \in Peer, P!SameAge(p), P!Connected(p)' = P!Connected(p)
  PROVE  Waited(p)' = Waited(p)
BY DEF P!SameAge, Waited

\* A packet that changes nothing of the transfer from p.
LEMMA PeerPassed ==
  ASSUME P!IInv, NEW p \in Peer, PeerInv(p), ReadEnd(p),
         ~(P!Connected(p) /\ IsData(from[p], 1, Received(p) + 1)),
         P!Connected(p)' = P!Connected(p),
         Want(p)' = Want(p),
         Received(p)' = Received(p),
         P!ListedIn(p, Owned[p])',
         P!SameAge(p),
         out'[p] = <<>>
  PROVE  PeerInv(p)'
<1>1. Onto(to[p], out'[p], p \in crashed) = to[p]
  BY OntoNothing
<1>2. Transfer(provider[p], to[p], Tail(from[p]), P!Connected(p), Want(p),
               Received(p), p \in crashed, Owned[p])
  BY InBounds, TransferPassed DEF ReadEnd, PeerInv, InTransfer
<1>3. Transfer(provider[p], Onto(to[p], out'[p], p \in crashed), Tail(from[p]),
               P!Connected(p)', Want(p)', Received(p)', p \in crashed, Owned[p])
  BY <1>1, <1>2
<1>4. Timely(provider[p], to[p], to_late[p], Tail(from[p]), Tail(from_late[p]),
             P!Connected(p), Received(p), p \in crashed, Waited(p))
  <2>1. /\ Timely(provider[p], to[p], to_late[p], from[p], from_late[p], P!Connected(p),
                  Received(p), p \in crashed, Waited(p))
        /\ from[p] # <<>>
        /\ Waited(p) \in Nat /\ Waited(p) <= Waited(p)
    BY PeerTimes DEF PeerInv, InTime, ReadEnd
  <2> QED
    BY <2>1, PeerTimes, TimelyPassed
<1>5. Timely(provider[p], Onto(to[p], out'[p], p \in crashed),
             Onto(to_late[p], OnTime(out'[p]), p \in crashed),
             Tail(from[p]), Tail(from_late[p]), P!Connected(p)', Received(p)',
             p \in crashed, Waited(p)')
  BY <1>1, <1>4, OntoNothing, WaitsOn
<1> QED
  BY <1>3, <1>5, PeerRead

\* The packet that is read.
LEMMA PacketRead ==
  ASSUME Lossless, Network, NEW p \in Peer, Reads(p)
  PROVE  /\ P!IInv /\ PeerInv(p) /\ ReadEnd(p) /\ Own
         /\ from[p] # <<>>
         /\ Head(from[p]) = from[p][1]
         /\ from[p][1] \in FromPacket(Owned[p])
         /\ Transfer(provider[p], to[p], from[p], P!Connected(p), Want(p),
                     Received(p), p \in crashed, Owned[p])
         /\ Timely(provider[p], to[p], to_late[p], from[p], from_late[p],
                   P!Connected(p), Received(p), p \in crashed, Waited(p))
<1>1. P!IInv /\ PeerInv(p) /\ Own
  BY DEF Lossless
<1>2. /\ from[p] # <<>>
      /\ ReadEnd(p)
      /\ Transfer(provider[p], to[p], from[p], P!Connected(p), Want(p),
                  Received(p), p \in crashed, Owned[p])
      /\ Timely(provider[p], to[p], to_late[p], from[p], from_late[p],
                P!Connected(p), Received(p), p \in crashed, Waited(p))
  BY <1>1, ReadsEnds DEF Reads, PeerInv, InTransfer, InTime
<1>3. from[p] \in Seq(FromPacket(Owned[p]))
  BY <1>2 DEF Transfer
<1> QED
  BY <1>1, <1>2, <1>3, ReadFirst

\* An IHAVE.
LEMMA IHaveKeeps ==
  ASSUME Lossless, Network, NEW p \in Peer, Reads(p),
         from[p][1].type = "IHAVE",
         \/ P!ExtendConnection(p, from[p][1].hashes)
         \/ P!AddReceiverConnection(p, from[p][1].hashes)
         \/ P!IgnoreIHave(p, from[p][1].hashes)
  PROVE  Lossless'
<1> DEFINE hashes == from[p][1].hashes
<1>1. /\ P!IInv /\ PeerInv(p) /\ ReadEnd(p) /\ Own
      /\ from[p] # <<>>
      /\ Transfer(provider[p], to[p], from[p], P!Connected(p), Want(p),
                  Received(p), p \in crashed, Owned[p])
      /\ Timely(provider[p], to[p], to_late[p], from[p], from_late[p],
                P!Connected(p), Received(p), p \in crashed, Waited(p))
  BY PacketRead
<1>2. hashes \in Seq(Owned[p]) /\ hashes \in Seq(Hash)
  <2>1. hashes \in Seq(Owned[p])
    BY PacketRead, PacketTypes
  <2> QED
    BY <2>1, SwarmAssumption
<1> HIDE DEF hashes
<1>3. P!IInv'
  <2>1. P!Next
    BY <1>2 DEF P!Next, P!ReceiveIHave, hashes
  <2> QED
    BY <1>1, <2>1, DownloaderStep
<1>4. ~IsData(from[p], 1, Received(p) + 1)
  BY DEF IsData
<1>5. P!JobChunk' = P!JobChunk
  BY DEF P!JobChunk
<1>6. data' = data => Own'
  BY <1>1 DEF Own, P!Verified, P!HashOfChunk, P!JobChunk
<1>7. CASE P!ExtendConnection(p, hashes)
  <2>1. /\ P!Connected(p)
        /\ P!Connected(p)'
        /\ P!Awaited(p)' = P!Awaited(p)
        /\ P!InOrderSoFar(p)' = P!InOrderSoFar(p)
        /\ P!ListedIn(p, Owned[p]) => P!ListedIn(p, Owned[p])'
        /\ P!SameAge(p)
        /\ \A o \in Peer : o # p => P!SameDownload(o) /\ P!SameAge(o)
        /\ out' = P!Silence
        /\ data' = data
    BY <1>1, <1>2, <1>7, Assumed, P!ExtendConnectionEffect
  <2>2. P!Connected(p)' = P!Connected(p)
    BY <2>1 DEF P!Connected
  <2>3. /\ Want(p)' = Want(p)
        /\ Received(p)' = Received(p)
        /\ \A o \in Peer : out'[o] = <<>>
        /\ P!ListedIn(p, Owned[p])'
    BY <1>1, <2>1 DEF Want, Received, P!Silence, PeerInv
  <2>4. PeerInv(p)'
    BY <1>1, <1>4, <2>1, <2>2, <2>3, PeerPassed
  <2> QED
    BY <1>1, <1>3, <1>6, <2>1, <2>3, <2>4, OthersKept
<1>8. CASE P!AddReceiverConnection(p, hashes)
  <2>1. /\ ~P!Connected(p)
        /\ P!Connected(p)'
        /\ P!InOrderSoFar(p)' = 0
        /\ P!ListedIn(p, Owned[p])'
        /\ P!Unheard(connection'[p]) = 0
        /\ out'[p] = <<[type |-> "GET", hash |-> P!Awaited(p)']>>
        /\ \A o \in Peer : o # p =>
             P!SameDownload(o) /\ P!SameAge(o) /\ out'[o] = <<>>
        /\ data' = data
    BY <1>1, <1>2, <1>8, Assumed, P!AddReceiverConnectionEffect
  <2>2. /\ P!Connected(p) = FALSE
        /\ P!Connected(p)' = TRUE
        /\ Received(p) = 0
        /\ Received(p)' = 0
        /\ Want(p)' = P!Awaited(p)'
    BY <2>1 DEF P!Connected, Received, Want
  <2>3. Transfer(provider[p], to[p], from[p], FALSE, Want(p), 0, p \in crashed, Owned[p])
    BY <1>1, <2>2
  <2>4. PICK h : h = P!Awaited(p)'
    OBVIOUS
  <2>5. h \in Hash
    <3>1. P!Awaited(p)' \in Owned[p]
      BY <1>3, <2>1, AwaitedStaysOwned DEF AwaitedOwned
    <3> QED
      BY <2>4, <3>1, SwarmAssumption
  <2> DEFINE get == [type |-> "GET", hash |-> h]
  <2>6. get \in ToPacket /\ get.type = "GET" /\ get.hash = h
    BY <2>5 DEF ToPacket
  <2> HIDE DEF get
  <2>7. Transfer(provider[p], Onto(to[p], <<get>>, p \in crashed), Tail(from[p]),
                 TRUE, h, 0, p \in crashed, Owned[p])
    BY <1>1, <2>3, <2>6, TransferConnected
  <2>8. Transfer(provider[p], Onto(to[p], out'[p], p \in crashed), Tail(from[p]),
                 P!Connected(p)', Want(p)', Received(p)', p \in crashed, Owned[p])
    BY <2>1, <2>2, <2>4, <2>7 DEF get
  <2>9. Timely(provider[p], to[p], to_late[p], from[p], from_late[p], FALSE, 0,
               p \in crashed, Waited(p))
    BY <1>1, <2>2
  <2>10. Timely(provider[p], Onto(to[p], <<get>>, p \in crashed),
                Onto(to_late[p], OnTime(<<get>>), p \in crashed),
                Tail(from[p]), Tail(from_late[p]), TRUE, 0, p \in crashed, 0)
    <3>1. PeerInv(p) /\ P!IInv /\ from[p] # <<>>
      BY <1>1
    <3> QED
      BY <2>6, <2>9, <3>1, PeerTimes, TimelyConnected
  <2>11. Waited(p)' = 0
    BY <2>1 DEF Waited
  <2>12. Timely(provider[p], Onto(to[p], out'[p], p \in crashed),
                Onto(to_late[p], OnTime(out'[p]), p \in crashed),
                Tail(from[p]), Tail(from_late[p]), P!Connected(p)', Received(p)',
                p \in crashed, Waited(p)')
    <3>1. out'[p] = <<get>>
      BY <2>1, <2>4 DEF get
    <3> QED
      BY <2>2, <2>10, <2>11, <3>1
  <2>13. PeerInv(p)'
    BY <1>1, <2>1, <2>8, <2>12, PeerRead
  <2> QED
    BY <1>1, <1>3, <1>6, <2>1, <2>13, OthersKept
<1>9. CASE P!IgnoreIHave(p, hashes)
  <2>1. /\ UNCHANGED <<connection, received_seq_num>>
        /\ data' = data
        /\ \A o \in Peer : out'[o] = <<>>
    BY <1>9 DEF P!IgnoreIHave, P!chunk_vars, P!Silence
  <2>2. \A o \in Peer : P!SameDownload(o) /\ P!SameAge(o)
    BY <2>1, Assumed, P!QuietDownload
  <2>3. /\ P!Connected(p)' = P!Connected(p)
        /\ Want(p)' = Want(p)
        /\ Received(p)' = Received(p)
        /\ P!ListedIn(p, Owned[p])'
    BY <1>1, <2>2, SameWants DEF PeerInv, P!SameDownload
  <2>4. PeerInv(p)'
    BY <1>1, <1>4, <2>1, <2>2, <2>3, PeerPassed
  <2> QED
    BY <1>1, <1>3, <1>6, <2>1, <2>2, <2>4, OthersKept
<1> QED
  BY <1>7, <1>8, <1>9 DEF hashes

\* A DATA packet that does not go on with the chunk.
LEMMA OldDataKeeps ==
  ASSUME Lossless, Network, NEW p \in Peer, Reads(p), P!IInv',
         from[p][1].type = "DATA",
         \/ P!IgnoreData(p, from[p][1].seq_number)
         \/ P!AcknowledgeAgain(p, from[p][1].seq_number)
  PROVE  Lossless'
<1> DEFINE n == from[p][1].seq_number
           received == P!InOrderSoFar(p)
<1>1. /\ P!IInv /\ PeerInv(p) /\ ReadEnd(p) /\ Own
      /\ from[p] # <<>>
      /\ from[p][1] \in FromPacket(Owned[p])
      /\ Transfer(provider[p], to[p], from[p], P!Connected(p), Want(p),
                  Received(p), p \in crashed, Owned[p])
      /\ Timely(provider[p], to[p], to_late[p], from[p], from_late[p],
                P!Connected(p), Received(p), p \in crashed, Waited(p))
  BY PacketRead
<1>2. n \in 1 .. CHUNK_DATA_NUM
  BY <1>1, PacketTypes
<1>3. /\ UNCHANGED <<connection, received_seq_num>>
      /\ data' = data
      /\ \A o \in Peer : o # p => out'[o] = <<>>
  BY DEF P!IgnoreData, P!AcknowledgeAgain, P!chunk_vars, P!Silence
<1>4. \A o \in Peer : P!SameDownload(o) /\ P!SameAge(o)
  BY <1>3, Assumed, P!QuietDownload
<1>5. /\ P!Connected(p)' = P!Connected(p)
      /\ Want(p)' = Want(p)
      /\ Received(p)' = Received(p)
      /\ P!ListedIn(p, Owned[p])'
  BY <1>1, <1>4, SameWants DEF PeerInv, P!SameDownload
<1>6. Own'
  BY <1>1, <1>3 DEF Own, P!Verified, P!HashOfChunk, P!JobChunk
<1>7. PeerInv(p)'
  <2>1. CASE P!IgnoreData(p, n)
    <3>1. ~(P!Connected(p) /\ IsData(from[p], 1, Received(p) + 1))
      <4>1. P!Connected(p) => n <= received /\ Received(p) = received
                              /\ received \in Nat
        BY <1>1, <2>1, InBounds DEF P!IgnoreData, P!InOrderSoFar
      <4> QED
        BY <1>2, <4>1 DEF IsData
    <3>2. out'[p] = <<>>
      BY <2>1 DEF P!IgnoreData, P!Silence
    <3> QED
      BY <1>1, <1>4, <1>5, <3>1, <3>2, PeerPassed
  <2>2. CASE P!AcknowledgeAgain(p, n)
    <3> DEFINE ack == [type |-> "ACK", ack_number |-> received]
    <3>1. /\ P!Connected(p) = TRUE
          /\ P!Connected(p)
          /\ n > received + 1
          /\ out'[p] = <<ack>>
      BY <2>2 DEF P!AcknowledgeAgain, P!InOrderSoFar, P!Silence, P!AckPacket,
                  P!Connected
    <3>2. Received(p) = received /\ received \in 0 .. CHUNK_DATA_NUM - 1
      BY <1>1, <3>1, InBounds
    <3>3. received \in 0 .. CHUNK_DATA_NUM
      BY <3>2, Sizes
    <3>4. ack \in ToPacket /\ ack.type = "ACK" /\ ack.ack_number = received
      BY <3>3 DEF ToPacket
    <3> HIDE DEF ack, received
    <3>5. Transfer(provider[p], to[p], from[p], TRUE, Want(p), received,
                   p \in crashed, Owned[p])
      BY <1>1, <3>1, <3>2
    <3>6. Transfer(provider[p], Onto(to[p], <<ack>>, p \in crashed), Tail(from[p]),
                   TRUE, Want(p), received, p \in crashed, Owned[p])
      BY <1>1, <3>1, <3>3, <3>4, <3>5, TransferRepeated
    <3>7. Transfer(provider[p], Onto(to[p], out'[p], p \in crashed), Tail(from[p]),
                   P!Connected(p)', Want(p)', Received(p)', p \in crashed, Owned[p])
      BY <1>5, <3>1, <3>2, <3>6
    <3>8. Timely(provider[p], Onto(to[p], <<ack>>, p \in crashed),
                 Onto(to_late[p], OnTime(<<ack>>), p \in crashed),
                 Tail(from[p]), Tail(from_late[p]), TRUE, received, p \in crashed,
                 Waited(p))
      <4>1. /\ PeerInv(p) /\ P!IInv /\ from[p] # <<>>
            /\ Timely(provider[p], to[p], to_late[p], from[p], from_late[p], TRUE,
                      received, p \in crashed, Waited(p))
        BY <1>1, <3>1, <3>2
      <4>2. Timely(provider[p], to[p], to_late[p], Tail(from[p]), Tail(from_late[p]),
                   TRUE, received, p \in crashed, Waited(p))
        <5>1. ~(TRUE /\ IsData(from[p], 1, received + 1))
          BY <1>2, <3>1, <3>2 DEF IsData
        <5>2. Waited(p) <= Waited(p)
          BY <4>1, PeerTimes
        <5> QED
          BY <4>1, <5>1, <5>2, PeerTimes, TimelyPassed
      <4>3. PICK sent \in Seq(ToPacket) : sent = <<ack>>
        <5>1. <<ack>> \in Seq(ToPacket)
          BY <3>4
        <5> QED
          BY <5>1
      <4>4. \A k \in 1 .. Len(sent) : ~IsAck(sent, k, CHUNK_DATA_NUM)
        <5>1. Len(sent) = 1 /\ sent[1] = ack
          BY <4>3
        <5>2. received # CHUNK_DATA_NUM
          BY <3>2, Sizes
        <5> QED
          BY <3>4, <5>1, <5>2 DEF IsAck
      <4>5. /\ Len(Tail(from[p])) \in Nat /\ to[p] \in Seq(ToPacket)
            /\ Waited(p) \in Nat /\ Waited(p) <= Waited(p)
            /\ p \in crashed => to[p] = <<>>
            /\ provider[p] # NoConnection => provider[p].since_acked \in Nat
        BY <4>1, PeerTimes
      <4>6. Timely(provider[p], Onto(to[p], sent, p \in crashed),
                   Onto(to_late[p], OnTime(sent), p \in crashed),
                   Tail(from[p]), Tail(from_late[p]), TRUE, received, p \in crashed,
                   Waited(p))
        BY <4>2, <4>4, <4>5, TimelyAsked
      <4> QED
        BY <4>3, <4>6
    <3>9. Timely(provider[p], Onto(to[p], out'[p], p \in crashed),
                 Onto(to_late[p], OnTime(out'[p]), p \in crashed),
                 Tail(from[p]), Tail(from_late[p]), P!Connected(p)', Received(p)',
                 p \in crashed, Waited(p)')
      BY <1>4, <1>5, <3>1, <3>2, <3>8, WaitsOn
    <3> QED
      BY <1>1, <1>5, <3>7, <3>9, PeerRead
  <2> QED
    BY <2>1, <2>2
<1> QED
  BY <1>3, <1>4, <1>6, <1>7, OthersKept

\* What was cut from a chunk stays so when a packet cut from it joins.
LEMMA OwnGrows ==
  ASSUME P!IInv, Own, NEW c \in P!JobChunk, NEW hash, hash = P!HashOfChunk(c),
         data' = [data EXCEPT ![c] = Append(@, hash)]
  PROVE  Own'
<1>1. P!JobChunk' = P!JobChunk
  BY DEF P!JobChunk
<1>2. ASSUME NEW d \in P!JobChunk
      PROVE  P!Verified(d, data'[d])
  <2>1. data \in [P!JobChunk -> Seq(Hash)]
    BY DEF P!IInv, P!TypeOK
  <2>2. P!Verified(d, data[d])
    BY DEF Own
  <2>3. CASE d = c
    <3>1. data'[d] = Append(data[d], hash) /\ data[d] \in Seq(Hash)
      BY <2>1, <2>3
    <3> DEFINE s == data[d]
               t == Append(s, hash)
    <3>2. /\ Len(s) \in Nat /\ DOMAIN t = 1 .. Len(s) + 1
          /\ \A k \in 1 .. Len(s) : t[k] = s[k]
          /\ t[Len(s) + 1] = hash
          /\ DOMAIN s = 1 .. Len(s)
      BY <3>1
    <3> HIDE DEF s, t
    <3>3. \A k \in DOMAIN t : t[k] = hash
      BY <2>2, <2>3, <3>2 DEF P!Verified, s
    <3> QED
      BY <2>3, <3>1, <3>3 DEF P!Verified, P!HashOfChunk, s, t
  <2>4. CASE d # c
    BY <2>1, <2>2, <2>4
  <2> QED
    BY <2>3, <2>4
<1> QED
  BY <1>1, <1>2 DEF Own, P!Verified, P!HashOfChunk

\* Data that is kept or thrown away stays what it was.
LEMMA OwnStays ==
  ASSUME Own, \A d \in P!JobChunk : data'[d] \in {<<>>, data[d]}
  PROVE  Own'
<1>1. P!JobChunk' = P!JobChunk
  BY DEF P!JobChunk
<1>2. ASSUME NEW d \in P!JobChunk
      PROVE  P!Verified(d, data'[d])
  <2>1. CASE data'[d] = <<>>
    BY <2>1, EmptySeq DEF P!Verified
  <2>2. CASE data'[d] = data[d]
    BY <2>2 DEF Own
  <2> QED
    BY <2>1, <2>2
<1> QED
  BY <1>1, <1>2 DEF Own, P!Verified, P!HashOfChunk

\* The DATA packet that is expected, and more of the chunk to come.
LEMMA SaveKeeps ==
  ASSUME Lossless, Network, NEW p \in Peer, Reads(p), P!IInv',
         from[p][1].type = "DATA",
         P!SaveDataPacket(p, from[p][1].seq_number, from[p][1].hash)
  PROVE  Lossless'
<1> DEFINE n == from[p][1].seq_number
           hash == from[p][1].hash
           received == P!InOrderSoFar(p)
           c == P!Downloading(p)
<1>1. /\ P!IInv /\ PeerInv(p) /\ ReadEnd(p) /\ Own
      /\ from[p] # <<>>
      /\ from[p][1] \in FromPacket(Owned[p])
      /\ Transfer(provider[p], to[p], from[p], P!Connected(p), Want(p),
                  Received(p), p \in crashed, Owned[p])
      /\ Timely(provider[p], to[p], to_late[p], from[p], from_late[p],
                P!Connected(p), Received(p), p \in crashed, Waited(p))
  BY PacketRead
<1>2. n \in 1 .. CHUNK_DATA_NUM /\ hash \in Hash
  BY <1>1, PacketTypes
<1>3. P!SaveDataPacket(p, n, hash)
  OBVIOUS
<1> HIDE DEF n, hash
<1>4. /\ P!Connected(p)
      /\ P!Connected(p)'
      /\ n = received + 1
      /\ n < CHUNK_DATA_NUM
      /\ P!Awaited(p)' = P!Awaited(p)
      /\ P!InOrderSoFar(p)' = n
      /\ \A S : P!ListedIn(p, S) => P!ListedIn(p, S)'
      /\ P!Unheard(connection'[p]) = 0
      /\ out'[p] = <<[type |-> "ACK", ack_number |-> n]>>
      /\ \A o \in Peer : o # p =>
           P!SameDownload(o) /\ P!SameAge(o) /\ out'[o] = <<>>
      /\ c \in P!JobChunk
      /\ data' = [data EXCEPT ![c] = Append(@, hash)]
  BY <1>1, <1>2, <1>3, Assumed, P!SaveDataPacketEffect
<1>5. /\ P!Connected(p) = TRUE
      /\ P!Connected(p)' = TRUE
      /\ Want(p) = P!Awaited(p)
      /\ Want(p)' = Want(p)
      /\ Received(p) = received
      /\ Received(p)' = n
      /\ P!ListedIn(p, Owned[p])'
  BY <1>1, <1>4 DEF P!Connected, Want, Received, PeerInv
<1>6. received \in Nat
  BY <1>1, <1>4, InBounds
<1> HIDE DEF received
<1> DEFINE ack == [type |-> "ACK", ack_number |-> received + 1]
<1>7. /\ ack \in ToPacket /\ ack.type = "ACK" /\ ack.ack_number = received + 1
      /\ out'[p] = <<ack>>
  BY <1>2, <1>4, Sizes DEF ToPacket
<1> HIDE DEF ack
<1>8. IsData(from[p], 1, received + 1)
  BY <1>4 DEF IsData, n
<1>9. Transfer(provider[p], to[p], from[p], TRUE, Want(p), received,
               p \in crashed, Owned[p])
  BY <1>1, <1>5
<1>10. /\ from[p][1].hash = Want(p)
       /\ Transfer(provider[p], Onto(to[p], <<ack>>, p \in crashed), Tail(from[p]),
                   TRUE, Want(p), received + 1, p \in crashed, Owned[p])
  BY <1>1, <1>6, <1>7, <1>8, <1>9, TransferSaved
<1>11. Transfer(provider[p], Onto(to[p], out'[p], p \in crashed), Tail(from[p]),
                P!Connected(p)', Want(p)', Received(p)', p \in crashed, Owned[p])
  BY <1>4, <1>5, <1>7, <1>10
<1>12. PeerInv(p)'
  <2>1. /\ PeerInv(p) /\ P!IInv /\ from[p] # <<>>
        /\ Timely(provider[p], to[p], to_late[p], from[p], from_late[p], TRUE, received,
                  p \in crashed, Waited(p))
    BY <1>1, <1>5
  <2>2. PICK sent \in Seq(ToPacket) : sent = <<ack>>
    <3>1. <<ack>> \in Seq(ToPacket)
      BY <1>7
    <3> QED
      BY <3>1
  <2>3. Len(sent) # 0 /\ IsAck(sent, 1, received + 1)
    BY <1>7, <2>2 DEF IsAck
  <2>4. Timely(provider[p], Onto(to[p], sent, p \in crashed),
               Onto(to_late[p], OnTime(sent), p \in crashed),
               Tail(from[p]), Tail(from_late[p]), TRUE, received + 1, p \in crashed, 0)
    BY <1>6, <2>1, <2>3, PeerTimes, TimelySaved
  <2>5. Waited(p)' = 0
    BY <1>4 DEF Waited
  <2>6. Timely(provider[p], Onto(to[p], out'[p], p \in crashed),
               Onto(to_late[p], OnTime(out'[p]), p \in crashed),
               Tail(from[p]), Tail(from_late[p]), P!Connected(p)', Received(p)',
               p \in crashed, Waited(p)')
    BY <1>4, <1>5, <1>7, <2>2, <2>4, <2>5
  <2> QED
    BY <1>1, <1>5, <1>11, <2>6, PeerRead
<1>13. Own'
  <2>1. hash = P!HashOfChunk(c)
    BY <1>5, <1>10 DEF P!Awaited, hash
  <2> QED
    BY <1>1, <1>2, <1>4, <2>1, OwnGrows
<1> QED
  BY <1>1, <1>4, <1>12, <1>13, OthersKept

\* The last packet of the chunk.
LEMMA FinishKeeps ==
  ASSUME Lossless, Network, NEW p \in Peer, Reads(p), P!IInv',
         from[p][1].type = "DATA",
         P!FinishChunk(p, from[p][1].seq_number, from[p][1].hash)
  PROVE  Lossless'
<1> DEFINE n == from[p][1].seq_number
           hash == from[p][1].hash
           received == P!InOrderSoFar(p)
           c == P!Downloading(p)
<1>1. /\ P!IInv /\ PeerInv(p) /\ ReadEnd(p) /\ Own
      /\ from[p] # <<>>
      /\ from[p][1] \in FromPacket(Owned[p])
      /\ Transfer(provider[p], to[p], from[p], P!Connected(p), Want(p),
                  Received(p), p \in crashed, Owned[p])
      /\ Timely(provider[p], to[p], to_late[p], from[p], from_late[p],
                P!Connected(p), Received(p), p \in crashed, Waited(p))
  BY PacketRead
<1>2. n \in 1 .. CHUNK_DATA_NUM /\ hash \in Hash
  BY <1>1, PacketTypes
<1>3. P!FinishChunk(p, n, hash)
  OBVIOUS
<1> HIDE DEF n, hash
<1>4. /\ P!Connected(p)
      /\ n = received + 1
      /\ n = CHUNK_DATA_NUM
      /\ P!Connected(p)' => /\ P!InOrderSoFar(p)' = 0
                            /\ P!Unheard(connection'[p]) = 0
      /\ \A S : P!ListedIn(p, S) => P!ListedIn(p, S)'
      /\ out'[p] = IF P!Connected(p)'
                     THEN <<[type |-> "ACK", ack_number |-> n],
                            [type |-> "GET", hash |-> P!Awaited(p)']>>
                     ELSE <<[type |-> "ACK", ack_number |-> n]>>
      /\ \A o \in Peer : o # p =>
           P!SameDownload(o) /\ P!SameAge(o) /\ out'[o] = <<>>
      /\ data' = [data EXCEPT ![c] = <<>>]
  BY <1>1, <1>2, <1>3, Assumed, P!FinishChunkShown
<1>5. PICK con : con = P!Connected(p)'
  OBVIOUS
<1>6. PICK want2 : want2 = Want(p)'
  OBVIOUS
<1>7. /\ con \in BOOLEAN
      /\ P!Connected(p) = TRUE
      /\ Received(p) = received
      /\ Received(p)' = 0
      /\ P!ListedIn(p, Owned[p])'
      /\ con => want2 = P!Awaited(p)'
  BY <1>1, <1>4, <1>5, <1>6 DEF P!Connected, Want, Received, PeerInv
<1>8. received \in Nat
  BY <1>1, <1>4, InBounds
<1> HIDE DEF received
<1>9. con => want2 \in Hash
  <2>1. con => P!Awaited(p)' \in Owned[p]
    BY <1>5, <1>7, AwaitedStaysOwned DEF AwaitedOwned
  <2> QED
    BY <1>7, <2>1, SwarmAssumption
<1>10. out'[p] = Farewell(con, want2)
  BY <1>4, <1>5, <1>7 DEF Farewell
<1>11. Farewell(con, want2) \in Seq(ToPacket)
  <2> DEFINE ack == [type |-> "ACK", ack_number |-> CHUNK_DATA_NUM]
             get == [type |-> "GET", hash |-> want2]
  <2>1. ack \in ToPacket
    BY Sizes DEF ToPacket
  <2>2. con => get \in ToPacket
    BY <1>9 DEF ToPacket
  <2>3. Farewell(con, want2) = IF con THEN <<ack, get>> ELSE <<ack>>
    BY DEF Farewell
  <2> HIDE DEF ack, get
  <2> QED
    BY <1>7, <2>1, <2>2, <2>3
<1>12. IsData(from[p], 1, received + 1) /\ received + 1 = CHUNK_DATA_NUM
  BY <1>4 DEF IsData, n
<1>13. Transfer(provider[p], to[p], from[p], TRUE, Want(p), received,
                p \in crashed, Owned[p])
  BY <1>1, <1>7
<1>14. Transfer(provider[p], Onto(to[p], Farewell(con, want2), p \in crashed),
                Tail(from[p]), con, want2, 0, p \in crashed, Owned[p])
  BY <1>1, <1>7, <1>8, <1>11, <1>12, <1>13, TransferFinished
<1>15. Transfer(provider[p], Onto(to[p], out'[p], p \in crashed), Tail(from[p]),
                P!Connected(p)', Want(p)', Received(p)', p \in crashed, Owned[p])
  BY <1>5, <1>6, <1>7, <1>10, <1>14
<1>16. PeerInv(p)'
  <2>1. /\ PeerInv(p) /\ P!IInv /\ from[p] # <<>>
        /\ Timely(provider[p], to[p], to_late[p], from[p], from_late[p], TRUE, received,
                  p \in crashed, Waited(p))
    BY <1>1, <1>7
  <2>2. PICK sent \in Seq(ToPacket) : sent = Farewell(con, want2)
    BY <1>11
  <2>3. /\ Len(sent) # 0 /\ IsAck(sent, 1, received + 1)
        /\ con => sent[Len(sent)].type = "GET" /\ Len(sent) # 1
    BY <1>7, <1>12, <2>2 DEF IsAck, Farewell
  <2>4. Timely(provider[p], Onto(to[p], sent, p \in crashed),
               Onto(to_late[p], OnTime(sent), p \in crashed),
               Tail(from[p]), Tail(from_late[p]), con, 0, p \in crashed, 0)
    BY <1>8, <2>1, <2>3, PeerTimes, TimelySaved
  <2>5. Waited(p)' = 0
    BY <1>4 DEF Waited
  <2>6. Timely(provider[p], Onto(to[p], out'[p], p \in crashed),
               Onto(to_late[p], OnTime(out'[p]), p \in crashed),
               Tail(from[p]), Tail(from_late[p]), P!Connected(p)', Received(p)',
               p \in crashed, Waited(p)')
    BY <1>5, <1>7, <1>10, <2>2, <2>4, <2>5
  <2> QED
    BY <1>1, <1>7, <1>15, <2>6, PeerRead
<1>17. Own'
  <2>1. data \in [P!JobChunk -> Seq(Hash)]
    BY <1>1 DEF P!IInv, P!TypeOK
  <2>2. \A d \in P!JobChunk : data'[d] \in {<<>>, data[d]}
    BY <1>4, <2>1
  <2> QED
    BY <1>1, <2>2, OwnStays
<1> QED
  BY <1>1, <1>4, <1>16, <1>17, OthersKept

\* A packet from a peer.
LEMMA HandlePacketKeeps ==
  ASSUME Lossless, Network, NEW p \in Peer, HandlePacket(p)
  PROVE  Lossless'
<1>1. Reads(p) /\ Lossless /\ Network
  BY DEF HandlePacket, Reads
<1>2. /\ from[p][1] \in FromPacket(Owned[p])
      /\ Head(from[p]) = from[p][1]
      /\ P!IInv
  BY <1>1, PacketRead
<1>3. from[p][1].type \in {"IHAVE", "DATA"}
  BY <1>2, PacketTypes
<1>4. CASE from[p][1].type = "IHAVE"
  <2>1. D!ReceiveIHave(p, from[p][1].hashes)
    BY <1>2, <1>4 DEF HandlePacket
  <2>2. \/ P!ExtendConnection(p, from[p][1].hashes)
        \/ P!AddReceiverConnection(p, from[p][1].hashes)
        \/ P!IgnoreIHave(p, from[p][1].hashes)
    BY <2>1, SameIHave DEF D!ReceiveIHave
  <2> QED
    BY <1>1, <1>4, <2>2, IHaveKeeps
<1>5. CASE from[p][1].type = "DATA"
  <2> DEFINE n == from[p][1].seq_number
             hash == from[p][1].hash
  <2>1. D!ReceiveData(p, n, hash)
    BY <1>2, <1>5 DEF HandlePacket
  <2>2. n \in 1 .. CHUNK_DATA_NUM /\ hash \in Hash
    BY <1>2, <1>5, PacketTypes
  <2> HIDE DEF n, hash
  <2>3. \/ P!IgnoreData(p, n)
        \/ P!AcknowledgeAgain(p, n)
        \/ P!SaveDataPacket(p, n, hash)
        \/ P!FinishChunk(p, n, hash)
    BY <2>1, SameData DEF D!ReceiveData
  <2>4. P!IInv'
    <3>1. P!Next
      BY <2>2, <2>3 DEF P!Next, P!ReceiveData
    <3> QED
      BY <1>2, <3>1, DownloaderStep
  <2> QED
    BY <1>1, <1>5, <2>3, <2>4, OldDataKeeps, SaveKeeps, FinishKeeps DEF n, hash
<1> QED
  BY <1>3, <1>4, <1>5

\* There is nothing to read.
LEMMA HandleNoPacketKeeps ==
  ASSUME Lossless, Network, HandleNoPacket
  PROVE  Lossless'
<1>1. P!NoPacket
  BY SameRest DEF HandleNoPacket
<1>2. P!IInv /\ Own /\ \A p \in Peer : PeerInv(p)
  BY DEF Lossless
<1>3. P!IInv'
  <2>1. P!Next
    BY <1>1 DEF P!Next
  <2> QED
    BY <1>2, <2>1, DownloaderStep
<1>4. UNCHANGED <<connection, received_seq_num, data>>
  BY <1>1 DEF P!NoPacket, P!chunk_vars
<1>5. ASSUME NEW p \in Peer
      PROVE  PeerInv(p)'
  <2>1. P!SameDownload(p) /\ P!SameAge(p)
    BY <1>4, Assumed, P!QuietDownload
  <2>2. P!Connected(p) => P!Unheard(connection'[p]) <= P!Unheard(connection[p])
    BY <1>2, <2>1, UnheardInBounds DEF P!SameAge
  <2>3. SameEnd(p) /\ SameQueue(p)
    BY DEF HandleNoPacket, net_vars, SameEnd, SameQueue
  <2> QED
    BY <1>2, <1>3, <2>1, <2>2, <2>3, PeerUntouched
<1>6. Own'
  BY <1>2, <1>4, OwnStays
<1> QED
  BY <1>3, <1>5, <1>6 DEF Lossless

\* The rest of a turn, for a peer: what is sent goes on its way.
LEMMA RestEnds ==
  ASSUME Network, RestOfTurn, NEW p \in Peer
  PROVE  SameEnd(p) /\ Joins(p, out'[p])
BY DEF RestOfTurn, Deliver, SameEnd, Joins, Onto

\* A step of the rest of a turn that only sends WHOHAS.
LEMMA FloodKeeps ==
  ASSUME Lossless, Network, RestOfTurn,
         \/ \E j \in JobId : P!ProcessGet(j)
         \/ P!FloodAndFinishJob
  PROVE  Lossless'
<1>1. P!IInv /\ Own /\ \A p \in Peer : PeerInv(p)
  BY DEF Lossless
<1>2. P!IInv'
  <2>1. P!Next
    BY DEF P!Next
  <2> QED
    BY <1>1, <2>1, DownloaderStep
<1>3. ASSUME NEW p \in Peer
      PROVE  PeerInv(p)' /\ data' = data
  <2>1. /\ P!SameDownload(p) /\ P!SameAge(p)
        /\ out'[p] \in Seq(P!WhoHas)
        /\ data' = data
    BY <1>1, Assumed, P!FloodsShown
  <2>2. P!Connected(p) => P!Unheard(connection'[p]) <= P!Unheard(connection[p])
    BY <1>1, <2>1, UnheardInBounds DEF P!SameAge
  <2>3. SameEnd(p) /\ Joins(p, out'[p])
    BY RestEnds
  <2> DEFINE sent == out'[p]
  <2>4. sent \in Seq(P!WhoHas)
    BY <2>1
  <2>5. Joins(p, sent)
    BY <2>3
  <2> HIDE DEF sent
  <2>6. P!WhoHas \subseteq ToPacket
    BY DEF ToPacket
  <2>7. sent \in Seq(ToPacket)
    BY <2>4, <2>6
  <2>8. \A k \in 1 .. Len(sent) :
          /\ sent[k].type # "ACK"
          /\ sent[k].type = "GET" => P!Connected(p) /\ sent[k].hash = P!Awaited(p)
    <3>1. \A k \in 1 .. Len(sent) : sent[k].type = "WHOHAS"
      <4>1. \A k \in 1 .. Len(sent) : sent[k] \in P!WhoHas
        BY <2>4
      <4>2. \A x \in P!WhoHas : x.type = "WHOHAS"
        BY DEF P!WhoHas
      <4> QED
        BY <4>1, <4>2
    <3> QED
      BY <3>1
  <2> QED
    BY <1>1, <1>2, <2>1, <2>2, <2>3, <2>5, <2>7, <2>8, PeerKept
<1>4. data' = data
  BY DEF P!ProcessGet, P!FloodAndFinishJob, P!chunk_vars
<1>5. Own'
  BY <1>1, <1>4, OwnStays
<1> QED
  BY <1>2, <1>3, <1>5 DEF Lossless

\* A step of the rest of a turn that does nothing.
LEMMA NoUserInputKeeps ==
  ASSUME Lossless, Network, RestOfTurn, P!NoUserInput
  PROVE  Lossless'
<1>1. P!IInv /\ Own /\ \A p \in Peer : PeerInv(p)
  BY DEF Lossless
<1>2. P!IInv'
  <2>1. P!Next
    BY DEF P!Next
  <2> QED
    BY <1>1, <2>1, DownloaderStep
<1>3. UNCHANGED <<connection, received_seq_num, data>> /\ out' = P!Silence
  BY DEF P!NoUserInput, P!chunk_vars
<1>4. ASSUME NEW p \in Peer
      PROVE  PeerInv(p)'
  <2>1. P!SameDownload(p) /\ P!SameAge(p)
    BY <1>3, Assumed, P!QuietDownload
  <2>2. P!Connected(p) => P!Unheard(connection'[p]) <= P!Unheard(connection[p])
    BY <1>1, <2>1, UnheardInBounds DEF P!SameAge
  <2>3. SameEnd(p) /\ Joins(p, <<>>)
    BY <1>3, RestEnds DEF P!Silence
  <2>4. SameQueue(p)
    BY <1>1, <2>3, OntoNothing
  <2> QED
    BY <1>1, <1>2, <2>1, <2>2, <2>3, <2>4, PeerUntouched
<1>5. Own'
  BY <1>1, <1>3, OwnStays
<1> QED
  BY <1>2, <1>4, <1>5 DEF Lossless

\* A peer that is given up did crash, and all its packets were read.
LEMMA GoneCrashed ==
  ASSUME P!IInv, NEW p \in P!Gone, PeerInv(p), Punctual
  PROVE  p \in Peer /\ P!Connected(p) /\ p \in crashed /\ from[p] = <<>>
<1>1. p \in Peer /\ P!Connected(p) /\ P!ProviderCrashed(connection[p])
  BY DEF P!Gone
<1>2. connection[p] \in P!ReceiverConnection
  BY <1>1 DEF P!IInv, P!TypeOK, P!Connected
<1>3. P!Unheard(connection[p]) > PEER_CRASH_TIMEOUT /\ P!Unheard(connection[p]) \in Nat
  BY <1>1, <1>2, Assumed, P!CrashedIsUnheard, UnheardInBounds
<1>4. ~(Waited(p) <= 2 * MaxDelay)
  BY <1>1, <1>3, SwarmAssumption, ControlAssumption, SMT DEF Punctual, Waited
<1>5. from[p] \in Seq(FromPacket(Owned[p])) /\ Len(from[p]) \in Nat /\ Waited(p) \in Nat
  BY <1>1, PeerTimes
<1>6. Timely(provider[p], to[p], to_late[p], from[p], from_late[p], P!Connected(p),
             Received(p), p \in crashed, Waited(p))
  BY DEF PeerInv, InTime
<1>7. P!Connected(p) /\ (p \in crashed => Len(from[p]) # 0) => Waited(p) <= 2 * MaxDelay
  BY ONLY <1>5, <1>6, TimelyBounds
<1>8. p \in crashed /\ Len(from[p]) = 0
  BY <1>1, <1>4, <1>7
<1> QED
  BY <1>1, <1>5, <1>8, EmptySeq

\* receivers_timeout.
LEMMA ReceiversTimeoutKeeps ==
  ASSUME Lossless, Network, RestOfTurn, P!ReceiversTimeout, Punctual
  PROVE  Lossless'
<1>1. P!IInv /\ Own /\ \A p \in Peer : PeerInv(p)
  BY DEF Lossless
<1>2. P!IInv'
  <2>1. P!Next
    BY DEF P!Next
  <2> QED
    BY <1>1, <2>1, DownloaderStep
<1>3. ASSUME NEW p \in Peer
      PROVE  /\ p \notin P!Gone => P!SameDownload(p) /\ P!SameAge(p)
             /\ p \in P!Gone => ~P!Connected(p)' /\ P!Connected(p)
             /\ \/ out'[p] = <<>>
                \/ P!Connected(p) /\ out'[p] = <<[type |-> "GET", hash |-> P!Awaited(p)]>>
             /\ \A c \in P!JobChunk : data'[c] \in {<<>>, data[c]}
  BY <1>1, Assumed, P!ReceiversTimeoutShown
<1>4. ASSUME NEW p \in Peer
      PROVE  PeerInv(p)'
  <2>1. /\ PeerInv(p)
        /\ SameEnd(p)
        /\ Joins(p, out'[p])
    BY <1>1, RestEnds
  <2>2. CASE p \in P!Gone
    <3>1. P!Connected(p) /\ p \in crashed /\ from[p] = <<>>
      BY <1>1, <2>2, GoneCrashed
    <3>2. Transfer(provider[p], <<>>, from[p], TRUE, Want(p), Received(p), TRUE, Owned[p])
          /\ to[p] = <<>>
      BY <2>1, <3>1 DEF PeerInv, InTransfer, Transfer, P!Connected
    <3>3. PICK want2 : want2 = Want(p)'
      OBVIOUS
    <3>4. Transfer(provider[p], <<>>, from[p], FALSE, want2, 0, TRUE, Owned[p])
      BY <3>1, <3>2, TransferGivenUp
    <3>5. /\ P!Connected(p)' = FALSE
          /\ Received(p)' = 0
          /\ to'[p] = <<>> /\ to_late'[p] = <<>>
          /\ (p \in crashed') = TRUE
      BY <1>3, <2>1, <2>2, <3>1 DEF P!Connected, Received, Joins, Onto, SameEnd
    <3>6. provider'[p] = provider[p] /\ from'[p] = from[p] /\ provider[p] = NoConnection
      BY <2>1, <3>2 DEF SameEnd, Transfer
    <3>7. InTransfer(p)'
      BY <3>3, <3>4, <3>5, <3>6 DEF InTransfer
    <3>8. InTime(p)'
      <4>1. /\ P!Connected(p) = TRUE
            /\ (p \in crashed) = TRUE
            /\ to_late[p] \in Seq(Lateness) /\ Len(to_late[p]) = 0
            /\ Timely(NoConnection, <<>>, to_late[p], from[p], from_late[p], TRUE,
                      Received(p), TRUE, Waited(p))
        BY <2>1, <3>1, <3>2, <3>6 DEF PeerInv, InTime, P!Connected, Timely, Paired
      <4>2. to_late[p] = <<>>
        BY <4>1, EmptySeq
      <4>3. PICK v : v = Waited(p)'
        OBVIOUS
      <4>4. Timely(NoConnection, <<>>, <<>>, from[p], from_late[p], FALSE, 0, TRUE, v)
        BY <4>1, <4>2, TimelyGivenUp
      <4> QED
        BY <2>1, <3>5, <3>6, <4>3, <4>4 DEF InTime, SameEnd
    <3> QED
      BY <3>5, <3>7, <3>8 DEF PeerInv, P!ListedIn
  <2>3. CASE p \notin P!Gone
    <3>1. P!SameDownload(p) /\ P!SameAge(p)
      BY <1>3, <2>3
    <3>2. P!Connected(p) => P!Unheard(connection'[p]) <= P!Unheard(connection[p])
      BY <1>1, <3>1, UnheardInBounds DEF P!SameAge
    <3>3. CASE out'[p] = <<>>
      <4>1. SameQueue(p)
        BY <1>1, <2>1, <3>3, OntoNothing
      <4> QED
        BY <1>1, <1>2, <2>1, <3>1, <3>2, <4>1, PeerUntouched
    <3>4. CASE P!Connected(p) /\ out'[p] = <<[type |-> "GET", hash |-> P!Awaited(p)]>>
      <4> DEFINE get == [type |-> "GET", hash |-> P!Awaited(p)]
                 sent == <<get>>
      <4>1. P!Awaited(p) \in Hash
        BY <1>1, <3>4, InBounds, SwarmAssumption
      <4>2. get \in ToPacket /\ get.type = "GET" /\ get.hash = P!Awaited(p)
        BY <4>1 DEF ToPacket
      <4>3. out'[p] = sent
        BY <3>4
      <4> HIDE DEF get
      <4>4. sent \in Seq(ToPacket) /\ Len(sent) = 1 /\ sent[1] = get
        BY <4>2
      <4>5. Joins(p, sent)
        BY <2>1, <4>3
      <4> HIDE DEF sent
      <4>6. \A k \in 1 .. Len(sent) :
              /\ sent[k].type # "ACK"
              /\ sent[k].type = "GET" => P!Connected(p) /\ sent[k].hash = P!Awaited(p)
        BY <3>4, <4>2, <4>4
      <4> QED
        BY <1>1, <1>2, <2>1, <3>1, <3>2, <4>4, <4>5, <4>6, PeerKept
    <3> QED
      BY <1>3, <3>3, <3>4
  <2> QED
    BY <2>2, <2>3
<1>5. Own'
  <2>1. \A c \in P!JobChunk : data'[c] \in {<<>>, data[c]}
    BY DEF P!ReceiversTimeout
  <2> QED
    BY <1>1, <2>1, OwnStays
<1> QED
  BY <1>2, <1>4, <1>5 DEF Lossless

\* The rest of a turn.
LEMMA RestOfTurnKeeps ==
  ASSUME Lossless, Network, RestOfTurn, Punctual
  PROVE  Lossless'
<1>1. \/ \E j \in JobId : P!ProcessGet(j)
      \/ P!NoUserInput
      \/ P!ReceiversTimeout
      \/ P!FloodAndFinishJob
  BY SameRest DEF RestOfTurn
<1> QED
  BY <1>1, FloodKeeps, NoUserInputKeeps, ReceiversTimeoutKeeps

-----------------------------------------------------------------------------
(* Then the providers.                                                     *)

\* A reply to WHOHAS is an IHAVE that lists hashes the peer owns.
LEMMA RepliesOwned ==
  ASSUME NEW p \in Peer, to[p] \in Seq(ToPacket)
  PROVE  /\ IHaveReply(p) \in Seq(FromPacket(Owned[p]))
         /\ \A k \in 1 .. Len(IHaveReply(p)) : IHaveReply(p)[k].type # "DATA"
<1> DEFINE hashes == Head(to[p]).hashes
           set == {k \in D!Listed(hashes) : SearchOwnedChunk(p, hashes[k])}
           places == D!Ascending(set, MAX_HASH_LIST_NUM)
           owned == [i \in 1 .. Len(places) |-> hashes[places[i]]]
           packet == [type |-> "IHAVE", hashes |-> owned]
<1>1. IHaveReply(p) = <<>> \/ IHaveReply(p) = <<packet>>
  BY DEF IHaveReply
<1>2. \A k \in set : hashes[k] \in Owned[p]
  BY DEF D!Listed, SearchOwnedChunk
<1>3. places \in Seq(set)
  <2>1. places = P!Ascending(set, MAX_HASH_LIST_NUM)
    BY DEF D!Ascending, P!Ascending
  <2>2. MAX_HASH_LIST_NUM \in Nat
    BY SwarmAssumption
  <2> HIDE DEF places, set
  <2>3. P!InOrder(places, set, MAX_HASH_LIST_NUM)
    BY <2>1, <2>2, Assumed, P!AscendingInOrder
  <2>4. places \in Seq(set \cap (1 .. MAX_HASH_LIST_NUM))
    BY <2>3 DEF P!InOrder
  <2> QED
    BY <2>4
<1> HIDE DEF places, set
<1>4. owned \in Seq(Owned[p])
  <2>1. Len(places) \in Nat /\ \A i \in 1 .. Len(places) : places[i] \in set
    BY <1>3
  <2>2. \A i \in 1 .. Len(places) : hashes[places[i]] \in Owned[p]
    BY <1>2, <2>1
  <2> HIDE DEF hashes
  <2> QED
    BY <2>1, <2>2
<1> HIDE DEF owned
<1>5. packet \in FromPacket(Owned[p]) /\ packet.type = "IHAVE"
  BY <1>4 DEF FromPacket
<1> HIDE DEF packet
<1>6. \A reply : reply = <<>> \/ reply = <<packet>> =>
        /\ reply \in Seq(FromPacket(Owned[p]))
        /\ \A k \in 1 .. Len(reply) : reply[k].type # "DATA"
  <2> SUFFICES ASSUME NEW reply, reply = <<>> \/ reply = <<packet>>
               PROVE  /\ reply \in Seq(FromPacket(Owned[p]))
                      /\ \A k \in 1 .. Len(reply) : reply[k].type # "DATA"
    OBVIOUS
  <2>1. CASE reply = <<>>
    BY <2>1
  <2>2. CASE reply = <<packet>>
    BY <1>5, <2>2
  <2> QED
    BY <2>1, <2>2
<1> QED
  BY <1>1, <1>6

\* The downloader rests.
LEMMA DownloaderRests ==
  ASSUME Lossless, UNCHANGED downloader_vars
  PROVE  /\ P!IInv /\ P!IInv' /\ Own'
         /\ connection' = connection
         /\ \A p \in Peer : /\ P!Connected(p)' = P!Connected(p)
                            /\ Want(p)' = Want(p)
                            /\ Received(p)' = Received(p)
                            /\ P!ListedIn(p, Owned[p]) => P!ListedIn(p, Owned[p])'
<1>1. P!IInv /\ Own
  BY DEF Lossless
<1>2. UNCHANGED <<connection, received_seq_num, data>>
  BY DEF downloader_vars
<1>3. P!IInv'
  <2>1. UNCHANGED P!vars
    BY DEF downloader_vars, P!vars, P!job_vars, P!chunk_vars
  <2> QED
    BY <1>1, <2>1, Assumed, P!StepKeeps
<1>4. Own'
  BY <1>1, <1>2, OwnStays
<1>5. \A p \in Peer : P!SameDownload(p)
  BY <1>2, Assumed, P!QuietDownload
<1>6. \A p \in Peer : /\ P!Connected(p)' = P!Connected(p)
                      /\ Want(p)' = Want(p)
                      /\ Received(p)' = Received(p)
                      /\ P!ListedIn(p, Owned[p]) => P!ListedIn(p, Owned[p])'
  BY <1>5, SameWants DEF P!SameDownload
<1> QED
  BY <1>1, <1>2, <1>3, <1>4, <1>6

\* A peer whose packets and connection are left alone, while the downloader
\* rests.
LEMMA PeerRests ==
  ASSUME Lossless, UNCHANGED downloader_vars, NEW p \in Peer, SameEnd(p),
         SameQueue(p)
  PROVE  PeerInv(p)'
<1>1. /\ connection' = connection
      /\ P!Connected(p)' = P!Connected(p)
      /\ Want(p)' = Want(p)
      /\ Received(p)' = Received(p)
      /\ P!ListedIn(p, Owned[p]) => P!ListedIn(p, Owned[p])'
  BY DownloaderRests
<1>2. PeerInv(p) /\ (p \in crashed') = (p \in crashed)
  BY DEF Lossless, SameEnd
<1>3. InTransfer(p)'
  BY <1>1, <1>2 DEF PeerInv, InTransfer, SameEnd, SameQueue
<1>4. Waited(p)' = Waited(p)
  BY <1>1 DEF Waited
<1>5. InTime(p)'
  BY <1>1, <1>2, <1>4 DEF PeerInv, InTime, SameEnd, SameQueue
<1> QED
  BY <1>1, <1>2, <1>3, <1>5 DEF PeerInv

\* A turn of a provider.
LEMMA ProviderTurnKeeps ==
  ASSUME Lossless, Network, NEW p \in Peer, ProviderTurn(p), Punctual
  PROVE  Lossless'
<1>1. /\ p \notin crashed
      /\ provider' = [provider EXCEPT ![p] = AfterTurn(p)]
      /\ to' = [to EXCEPT ![p] = IF @ = <<>> THEN @ ELSE Tail(@)]
      /\ to_late' = [to_late EXCEPT ![p] = IF @ = <<>> THEN @ ELSE Tail(@)]
      /\ from' = [from EXCEPT ![p] = @ \o SentInTurn(p)]
      /\ from_late' = [from_late EXCEPT ![p] = @ \o OnTime(SentInTurn(p))]
      /\ UNCHANGED crashed
      /\ UNCHANGED downloader_vars
  BY DEF ProviderTurn
<1>2. /\ provider = [o \in Peer |-> provider[o]]
      /\ to = [o \in Peer |-> to[o]]
      /\ from = [o \in Peer |-> from[o]]
      /\ to_late = [o \in Peer |-> to_late[o]]
      /\ from_late = [o \in Peer |-> from_late[o]]
  BY DEF Network
<1>3. /\ provider'[p] = AfterTurn(p)
      /\ to'[p] = IF to[p] = <<>> THEN to[p] ELSE Tail(to[p])
      /\ to_late'[p] = IF to_late[p] = <<>> THEN to_late[p] ELSE Tail(to_late[p])
      /\ from'[p] = from[p] \o SentInTurn(p)
      /\ from_late'[p] = from_late[p] \o OnTime(SentInTurn(p))
  BY <1>1, <1>2
<1>4. \A o \in Peer : o # p => SameEnd(o) /\ SameQueue(o)
  BY <1>1, <1>2 DEF SameEnd, SameQueue
<1>5. \A o \in Peer : o # p => PeerInv(o)'
  BY <1>1, <1>4, PeerRests
<1> DEFINE c == provider[p]
           d == HandleInbound(p)
           e == AfterTimeout(d)
           reply == IHaveReply(p)
<1>6. /\ provider'[p] = Sent(e)
      /\ SentInTurn(p) = reply \o Packets(e)
  BY <1>3 DEF Sent, Packets, AfterTurn, AfterInbound, SentInTurn
<1>7. /\ P!IInv /\ P!IInv' /\ Own'
      /\ connection' = connection
      /\ P!Connected(p)' = P!Connected(p)
      /\ Want(p)' = Want(p)
      /\ Received(p)' = Received(p)
      /\ P!ListedIn(p, Owned[p]) => P!ListedIn(p, Owned[p])'
  BY <1>1, DownloaderRests
<1>8. PeerInv(p)
  BY DEF Lossless
<1>9. Transfer(c, to[p], from[p], P!Connected(p), Want(p), Received(p), FALSE, Owned[p])
  <2>1. (p \in crashed) = FALSE
    BY <1>1
  <2> QED
    BY <1>8, <2>1 DEF PeerInv, InTransfer
<1>10. to[p] \in Seq(ToPacket) /\ Busy(c)
  BY <1>9 DEF Transfer
<1>11. d = IF to[p] = <<>> THEN c ELSE Taken(c, to[p][1], Owned[p])
  <2>1. to[p] # <<>> => Head(to[p]) = to[p][1]
    BY <1>10, ReadFirst
  <2> QED
    BY <2>1 DEF HandleInbound, Taken, LoadChunk, SearchOwnedChunk
<1>12. c # NoConnection => c.since_acked <= PEER_CRASH_TIMEOUT
  <2>1. /\ Timely(c, to[p], to_late[p], from[p], from_late[p], P!Connected(p),
                  Received(p), p \in crashed, Waited(p))
        /\ Waited(p) \in Nat /\ Len(from[p]) \in Nat
        /\ c # NoConnection => c.since_acked \in Nat
    BY <1>7, <1>8, PeerTimes DEF PeerInv, InTime
  <2>2. c # NoConnection /\ c.since_acked \in Nat => c.since_acked <= 2 * MaxDelay
    BY <2>1, TimelyBounds
  <2> QED
    BY <2>1, <2>2, SwarmAssumption, ControlAssumption, SMT DEF Punctual
<1>13. /\ reply \in Seq(FromPacket(Owned[p]))
       /\ \A k \in 1 .. Len(reply) : reply[k].type # "DATA"
  BY <1>10, RepliesOwned
<1>14. Asks(P!Connected(p), Want(p), Received(p), Owned[p])
  BY <1>7, <1>8, InBounds DEF Asks
<1> HIDE DEF c, d, reply
<1>15. /\ Transfer(Sent(e), IF to[p] = <<>> THEN to[p] ELSE Tail(to[p]),
                   (from[p] \o reply) \o Packets(e), P!Connected(p), Want(p),
                   Received(p), FALSE, Owned[p])
       /\ GoesOn(c, Sent(e))
       /\ Keeps(d, Sent(e))
  <2>1. Answers(reply, Owned[p])
    BY <1>13 DEF Answers
  <2>2. TakesFirst(c, to[p], Owned[p], d)
    BY <1>11 DEF TakesFirst
  <2> QED
    BY <1>9, <1>12, <1>14, <2>1, <2>2, TransferTurn
<1> HIDE DEF e
<1>16. /\ SentInTurn(p) \in Seq(FromPacket(Owned[p]))
       /\ (from[p] \o reply) \o Packets(e) = from[p] \o SentInTurn(p)
  <2> DEFINE S == FromPacket(Owned[p])
             F == from[p]
             W == (F \o reply) \o Packets(e)
  <2>1. W \in Seq(S) /\ F \in Seq(S) /\ reply \in Seq(S)
    BY <1>9, <1>13, <1>15 DEF Transfer
  <2>2. Packets(e) = <<>> \/ Packets(e) = <<DataPacket(e)>>
    BY DEF Packets
  <2> DEFINE x == DataPacket(e)
  <2> HIDE DEF S, F, x
  <2>3. Packets(e) \in Seq(S)
    <3>1. CASE Packets(e) = <<>>
      BY <3>1
    <3>2. CASE Packets(e) = <<x>>
      <4>1. PICK G : G = F \o reply
        OBVIOUS
      <4>2. G \in Seq(S) /\ G \o <<x>> \in Seq(S)
        BY <2>1, <3>2, <4>1
      <4>3. (G \o <<x>>)[Len(G) + 1] = x /\ Len(G) + 1 \in 1 .. Len(G \o <<x>>)
        BY <4>2
      <4>4. x \in S
        BY <4>2, <4>3, ElementOfSeq
      <4> QED
        BY <3>2, <4>4
    <3> QED
      BY <2>2, <3>1, <3>2 DEF x
  <2>4. PICK q \in Seq(S) : q = Packets(e)
    BY <2>3
  <2>5. reply \o q \in Seq(S) /\ (F \o reply) \o q = F \o (reply \o q)
    BY <2>1, ConcatAssociative
  <2> QED
    BY <1>6, <2>4, <2>5 DEF S, F
<1>17. InTransfer(p)'
  <2>1. (p \in crashed') = FALSE
    BY <1>1
  <2> QED
    BY <1>3, <1>6, <1>7, <1>15, <1>16, <2>1 DEF InTransfer
<1>18. InTime(p)'
  <2>1. (p \in crashed) = FALSE /\ (p \in crashed') = FALSE /\ Waited(p) \in Nat
    BY <1>1, <1>7, <1>8, PeerTimes
  <2>2. Timely(c, to[p], to_late[p], from[p], from_late[p], P!Connected(p),
               Received(p), FALSE, Waited(p))
    BY <1>8, <2>1 DEF PeerInv, InTime, c
  <2>3. PICK T2 : T2 = to'[p]
    OBVIOUS
  <2>4. PICK LT2 : LT2 = to_late'[p]
    OBVIOUS
  <2>5. PICK F2 : F2 = from'[p]
    OBVIOUS
  <2>6. PICK LF2 : LF2 = from_late'[p]
    OBVIOUS
  <2>7. Moved(to[p], to_late[p], from[p], from_late[p], SentInTurn(p), T2, LT2, F2, LF2)
    BY <1>3, <2>3, <2>4, <2>5, <2>6 DEF Moved
  <2>8. Transfer(Sent(e), T2, F2, P!Connected(p), Want(p), Received(p), FALSE, Owned[p])
    BY <1>3, <1>15, <1>16, <2>3, <2>5
  <2>9. TakesFirst(c, to[p], Owned[p], d)
    BY <1>11 DEF TakesFirst
  <2>10. GoesOn(c, Sent(e)) /\ Keeps(d, Sent(e))
    BY <1>15
  <2>11. Timely(Sent(e), T2, LT2, F2, LF2, P!Connected(p), Received(p), FALSE, Waited(p))
    BY <1>9, <1>14, <1>16, <2>1, <2>2, <2>7, <2>8, <2>9, <2>10, TimelyTurn
  <2>12. Waited(p)' = Waited(p)
    BY <1>7 DEF Waited
  <2> QED
    BY <1>6, <1>7, <2>1, <2>3, <2>4, <2>5, <2>6, <2>11, <2>12 DEF InTime
<1>19. PeerInv(p)'
  BY <1>7, <1>8, <1>17, <1>18 DEF PeerInv
<1> QED
  BY <1>5, <1>7, <1>19 DEF Lossless

-----------------------------------------------------------------------------
(* Then time and faults.                                                   *)

\* What a tick changes of the downloader.
LEMMA DownloaderAges ==
  ASSUME Lossless, Passes, pc = "select"
  PROVE  /\ P!IInv /\ P!IInv' /\ Own'
         /\ \A p \in Peer :
              /\ P!Connected(p)' = P!Connected(p)
              /\ Want(p)' = Want(p)
              /\ Received(p)' = Received(p)
              /\ P!ListedIn(p, Owned[p]) => P!ListedIn(p, Owned[p])'
              /\ P!Connected(p) =>
                   /\ P!Unheard(connection[p]) \in Nat
                   /\ P!Unheard(connection'[p]) \in Nat
                   /\ P!Unheard(connection'[p]) <= P!Unheard(connection[p]) + 1
<1>1. P!IInv /\ Own /\ 1 \in {0, 1}
  BY DEF Lossless
<1>2. /\ connection' = [p \in Peer |-> IF P!Connected(p)
                                        THEN P!Elapse(connection[p], 1)
                                        ELSE NoConnection]
      /\ since_flood' = P!Older(since_flood, 1)
      /\ pc' = "select"
      /\ UNCHANGED <<received_seq_num, data>>
      /\ UNCHANGED <<P!job_vars, P!chunk_vars, file>>
  BY DEF Passes, D!Connected, P!Connected, D!Elapse, P!Elapse, D!Older, P!Older,
         Older, P!job_vars, P!chunk_vars
<1>3. P!IInv'
  <2>1. pc' \in {"select", "packet", "input", "timeouts", "finish"}
    BY <1>2
  <2> QED
    BY <1>1, <1>2, <2>1, Assumed, P!AgesStep
<1>4. \A p \in Peer :
        /\ P!SameDownload(p)
        /\ P!Connected(p) =>
             P!Unheard(connection'[p]) <= P!Unheard(connection[p]) + 1
  BY <1>1, <1>2, Assumed, P!SelectKeepsDownloads
<1>5. \A p \in Peer :
        /\ P!Connected(p)' = P!Connected(p)
        /\ Want(p)' = Want(p)
        /\ Received(p)' = Received(p)
        /\ P!ListedIn(p, Owned[p]) => P!ListedIn(p, Owned[p])'
  BY <1>4, SameWants DEF P!SameDownload
<1>6. \A p \in Peer : P!Connected(p) =>
        /\ P!Unheard(connection[p]) \in Nat
        /\ P!Unheard(connection'[p]) \in Nat
  BY <1>1, <1>3, <1>5, UnheardInBounds
<1>7. Own'
  BY <1>1, <1>2, OwnStays
<1> QED
  BY <1>1, <1>3, <1>4, <1>5, <1>6, <1>7

\* Nothing on its way is late.
LEMMA TimelyIdle ==
  ASSUME NEW LT, NEW LF, NEW con, NEW received, NEW gone, con => gone, NEW u, NEW v,
         Timely(NoConnection, <<>>, LT, <<>>, LF, con, received, gone, u)
  PROVE  Timely(NoConnection, <<>>, LT, <<>>, LF, con, received, gone, v)
<1>1. PICK F : F = <<>>
  OBVIOUS
<1>2. \A k \in 1 .. Len(F) : v <= MaxDelay + LF[k]
  BY <1>1
<1>3. con => HeardInTime(<<>>, LT, <<>>, LF, received, gone, v)
  BY <1>1, <1>2 DEF HeardInTime
<1> QED
  BY <1>3 DEF Timely

\* A tick that finds nothing on its way finds no transfer going on, but with
\* peers that crashed.
LEMMA TickKeeps ==
  ASSUME Lossless, Network, Tick
  PROVE  Lossless'
<1>1. /\ pc = "select"
      /\ Passes
      /\ UNCHANGED <<to, from, to_late, from_late, crashed>>
      /\ \A p \in Peer : to[p] = <<>> /\ from[p] = <<>>
      /\ \A p \in Peer : provider[p] = NoConnection => provider'[p] = NoConnection
  BY DEF Tick, Passes, OnTheWay
<1>2. P!IInv /\ P!IInv' /\ Own'
  BY <1>1, DownloaderAges
<1>3. ASSUME NEW p \in Peer
      PROVE  PeerInv(p)'
  <2>1. PeerInv(p)
    BY DEF Lossless
  <2>2. /\ P!Connected(p)' = P!Connected(p)
        /\ Want(p)' = Want(p)
        /\ Received(p)' = Received(p)
        /\ P!ListedIn(p, Owned[p])'
    BY <1>1, <2>1, DownloaderAges DEF PeerInv
  <2>3. P!Connected(p) \in BOOLEAN /\ Received(p) \in Nat
    BY <1>2, <2>1, InBounds
  <2>4. provider[p] = NoConnection /\ (p \notin crashed => ~P!Connected(p))
    <3>1. Transfer(provider[p], <<>>, <<>>, P!Connected(p), Want(p), Received(p),
                   p \in crashed, Owned[p])
      BY <1>1, <2>1 DEF PeerInv, InTransfer
    <3>2. CASE p \in crashed
      BY <3>1, <3>2 DEF Transfer
    <3>3. CASE p \notin crashed
      <4>1. PICK con \in BOOLEAN : con = P!Connected(p)
        BY <2>3
      <4>2. (p \in crashed) = FALSE
        BY <3>3
      <4>3. Transfer(provider[p], <<>>, <<>>, con, Want(p), Received(p), FALSE, Owned[p])
        BY <3>1, <4>1, <4>2
      <4>4. provider[p] = NoConnection /\ ~con
        BY <2>3, <4>3, NothingOnTheWay
      <4> QED
        BY <4>1, <4>4
    <3> QED
      BY <3>2, <3>3
  <2>5. provider'[p] = NoConnection /\ to'[p] = to[p] /\ from'[p] = from[p]
    BY <1>1, <2>4
  <2>6. InTransfer(p)'
    BY <1>1, <2>1, <2>2, <2>4, <2>5 DEF PeerInv, InTransfer
  <2>7. InTime(p)'
    <3>1. PICK v : v = Waited(p)'
      OBVIOUS
    <3>2. Timely(NoConnection, <<>>, to_late[p], <<>>, from_late[p], P!Connected(p),
                 Received(p), p \in crashed, Waited(p))
      BY <1>1, <2>1, <2>4 DEF PeerInv, InTime
    <3>3. P!Connected(p) => p \in crashed
      BY <2>4
    <3>4. Timely(NoConnection, <<>>, to_late[p], <<>>, from_late[p], P!Connected(p),
                 Received(p), p \in crashed, v)
      BY <3>2, <3>3, TimelyIdle
    <3> QED
      BY <1>1, <2>2, <2>5, <3>1, <3>4 DEF InTime
  <2> QED
    BY <2>2, <2>6, <2>7 DEF PeerInv
<1> QED
  BY <1>2, <1>3 DEF Lossless

\* A tick that finds packets on their way makes each of them a tick later.
LEMMA LateTickKeeps ==
  ASSUME Lossless, Network, LateTick
  PROVE  Lossless'
<1>1. /\ pc = "select"
      /\ Passes
      /\ UNCHANGED <<to, from, crashed>>
      /\ \A p \in Peer : MayBeLater(to_late[p]) /\ MayBeLater(from_late[p])
      /\ to_late' = [p \in Peer |-> Later(to_late[p])]
      /\ from_late' = [p \in Peer |-> Later(from_late[p])]
      /\ \A p \in Peer : provider'[p] = IF provider[p] = NoConnection
                                          THEN NoConnection
                                          ELSE Elapse(provider[p], 1)
  BY DEF LateTick, Passes
<1>2. P!IInv /\ P!IInv' /\ Own'
  BY <1>1, DownloaderAges
<1>3. ASSUME NEW p \in Peer
      PROVE  PeerInv(p)'
  <2>1. PeerInv(p)
    BY DEF Lossless
  <2>2. /\ P!Connected(p)' = P!Connected(p)
        /\ Want(p)' = Want(p)
        /\ Received(p)' = Received(p)
        /\ P!ListedIn(p, Owned[p])'
        /\ P!Connected(p) =>
             /\ P!Unheard(connection[p]) \in Nat
             /\ P!Unheard(connection'[p]) \in Nat
             /\ P!Unheard(connection'[p]) <= P!Unheard(connection[p]) + 1
    BY <1>1, <2>1, DownloaderAges DEF PeerInv
  <2> DEFINE c == provider[p]
             d == provider'[p]
  <2>3. /\ d = IF c = NoConnection THEN c ELSE Elapse(c, 1)
        /\ to'[p] = to[p] /\ from'[p] = from[p]
        /\ to_late'[p] = Later(to_late[p]) /\ from_late'[p] = Later(from_late[p])
        /\ MayBeLater(to_late[p]) /\ MayBeLater(from_late[p])
        /\ (p \in crashed') = (p \in crashed)
    BY <1>1
  <2>4. Transfer(c, to[p], from[p], P!Connected(p), Want(p), Received(p),
                 p \in crashed, Owned[p])
    BY <2>1 DEF PeerInv, InTransfer
  <2>5. c # NoConnection => p \notin crashed /\ Sound(c) /\ c \in ProviderConnection
    BY <2>4 DEF Transfer, Busy, Sound
  <2> HIDE DEF c
  <2>6. InTransfer(p)'
    <3>1. CASE c = NoConnection
      BY <2>2, <2>3, <2>4, <3>1 DEF InTransfer
    <3>2. CASE c # NoConnection
      <4>1. (p \in crashed) = FALSE
        BY <2>5, <3>2
      <4>2. Transfer(c, to[p], from[p], P!Connected(p), Want(p), Received(p),
                     FALSE, Owned[p])
        BY <2>4, <4>1
      <4>3. Transfer(Elapse(c, 1), to[p], from[p], P!Connected(p), Want(p),
                     Received(p), FALSE, Owned[p])
        BY <3>2, <4>2, TransferAged
      <4> QED
        BY <2>2, <2>3, <3>2, <4>1, <4>3 DEF InTransfer
    <3> QED
      BY <3>1, <3>2
  <2>7. /\ c = NoConnection <=> d = NoConnection
        /\ c # NoConnection => /\ d.last_packet_acked = c.last_packet_acked
                               /\ c.since_acked \in Nat /\ d.since_acked \in Nat
                               /\ d.since_acked <= c.since_acked + 1
    <3>1. CASE c = NoConnection
      BY <2>3, <3>1
    <3>2. CASE c # NoConnection
      <4>1. /\ c \in ProviderConnection /\ Elapse(c, 1) \in ProviderConnection
            /\ c.since_acked \in Age /\ Elapse(c, 1).since_acked \in Age
        <5>1. Sound(c) /\ Sound(Elapse(c, 1))
          BY <2>5, <3>2, ElapseSound
        <5> QED
          BY <5>1 DEF Sound, ProviderConnection
      <4>2. /\ Elapse(c, 1).since_acked <= c.since_acked + 1
            /\ Elapse(c, 1).last_packet_acked = c.last_packet_acked
        BY <2>5, <3>2, ElapseSame
      <4>3. Elapse(c, 1) # NoConnection
        BY <4>1, NoConnectionAssumption
      <4>4. \A n : n \in Age => n \in Nat
        BY ControlAssumption, SMT DEF Age
      <4> QED
        BY <2>3, <3>2, <4>1, <4>2, <4>3, <4>4
    <3> QED
      BY <3>1, <3>2
  <2>8. InTime(p)'
    <3>1. PICK v : v = Waited(p)'
      OBVIOUS
    <3>2. PICK e : e = d
      OBVIOUS
    <3>3. Waited(p) \in Nat /\ v \in Nat /\ v <= Waited(p) + 1
      BY <2>2, <3>1 DEF Waited
    <3>4. Timely(c, to[p], to_late[p], from[p], from_late[p], P!Connected(p),
                 Received(p), p \in crashed, Waited(p))
      BY <2>1 DEF PeerInv, InTime, c
    <3>5. Timely(e, to[p], Later(to_late[p]), from[p], Later(from_late[p]),
                 P!Connected(p), Received(p), p \in crashed, v)
      BY <2>3, <2>7, <3>2, <3>3, <3>4, TimelyLater
    <3> QED
      BY <2>2, <2>3, <3>1, <3>2, <3>5 DEF InTime
  <2> QED
    BY <2>2, <2>6, <2>8 DEF PeerInv
<1> QED
  BY <1>2, <1>3 DEF Lossless

\* A peer crashes.
LEMMA CrashKeeps ==
  ASSUME Lossless, Network, NEW p \in Peer, Crash(p)
  PROVE  Lossless'
<1>1. /\ p \notin crashed
      /\ crashed' = crashed \cup {p}
      /\ provider' = [provider EXCEPT ![p] = NoConnection]
      /\ to' = [to EXCEPT ![p] = <<>>]
      /\ to_late' = [to_late EXCEPT ![p] = <<>>]
      /\ UNCHANGED downloader_vars
      /\ UNCHANGED <<from, from_late>>
  BY DEF Crash
<1>2. /\ provider = [o \in Peer |-> provider[o]]
      /\ to = [o \in Peer |-> to[o]]
      /\ to_late = [o \in Peer |-> to_late[o]]
  BY DEF Network
<1>3. /\ provider'[p] = NoConnection
      /\ to'[p] = <<>> /\ to_late'[p] = <<>>
      /\ from'[p] = from[p] /\ from_late'[p] = from_late[p]
  BY <1>1, <1>2
<1>4. \A o \in Peer : o # p => SameEnd(o) /\ SameQueue(o)
  <2>1. \A o \in Peer : o # p => /\ provider'[o] = provider[o]
                                /\ to'[o] = to[o]
                                /\ to_late'[o] = to_late[o]
    BY <1>1, <1>2
  <2>2. \A o \in Peer : o # p => (o \in crashed') = (o \in crashed)
    BY <1>1
  <2>3. from' = from /\ from_late' = from_late
    BY <1>1
  <2> QED
    BY <2>1, <2>2, <2>3 DEF SameEnd, SameQueue
<1>5. \A o \in Peer : o # p => PeerInv(o)'
  BY <1>1, <1>4, PeerRests
<1>6. /\ P!IInv' /\ Own'
      /\ connection' = connection
      /\ P!Connected(p)' = P!Connected(p)
      /\ Want(p)' = Want(p)
      /\ Received(p)' = Received(p)
      /\ P!ListedIn(p, Owned[p]) => P!ListedIn(p, Owned[p])'
  BY <1>1, DownloaderRests
<1>7. PeerInv(p) /\ (p \in crashed) = FALSE /\ (p \in crashed') = TRUE
  BY <1>1 DEF Lossless
<1>8. Transfer(provider[p], to[p], from[p], P!Connected(p), Want(p), Received(p),
               FALSE, Owned[p])
  BY <1>7 DEF PeerInv, InTransfer
<1>9. Transfer(NoConnection, <<>>, from[p], P!Connected(p), Want(p), Received(p),
               TRUE, Owned[p])
  BY <1>8, TransferCrashed
<1>10. InTransfer(p)'
  BY <1>3, <1>6, <1>7, <1>9 DEF InTransfer
<1>11. InTime(p)'
  <2>1. Timely(provider[p], to[p], to_late[p], from[p], from_late[p], P!Connected(p),
               Received(p), FALSE, Waited(p))
    BY <1>7 DEF PeerInv, InTime
  <2>2. Waited(p) \in Nat
    BY <1>7, PeerTimes DEF Lossless
  <2>3. Timely(NoConnection, <<>>, <<>>, from[p], from_late[p], P!Connected(p),
               Received(p), TRUE, Waited(p))
    BY <2>1, <2>2, TimelyCrashed
  <2>4. Waited(p)' = Waited(p)
    BY <1>6 DEF Waited
  <2> QED
    BY <1>3, <1>6, <1>7, <2>3, <2>4 DEF InTime
<1> QED
  BY <1>5, <1>6, <1>7, <1>10, <1>11 DEF PeerInv, Lossless

-----------------------------------------------------------------------------
(* The invariant holds.                                                    *)

\* The network is one queue to, and one from, every peer.
LEMMA NetworkKeeps ==
  ASSUME Network, [Next]_vars
  PROVE  Network'
<1>1. /\ provider = [p \in Peer |-> provider[p]]
      /\ to = [p \in Peer |-> to[p]]
      /\ from = [p \in Peer |-> from[p]]
      /\ to_late = [p \in Peer |-> to_late[p]]
      /\ from_late = [p \in Peer |-> from_late[p]]
      /\ losses \in Nat
  BY DEF Network
<1>2. CASE UNCHANGED vars
  BY <1>1, <1>2 DEF vars, net_vars, Network
<1>3. CASE StartTurn \/ HandleNoPacket
  BY <1>1, <1>3 DEF StartTurn, HandleNoPacket, net_vars, Network
<1>4. ASSUME NEW p \in Peer, HandlePacket(p)
      PROVE  Network'
  BY <1>1, <1>4 DEF HandlePacket, Deliver, Network
<1>5. CASE RestOfTurn
  BY <1>1, <1>5 DEF RestOfTurn, Deliver, Network
<1>6. ASSUME NEW p \in Peer, ProviderTurn(p)
      PROVE  Network'
  BY <1>1, <1>6 DEF ProviderTurn, Network
<1>7. CASE Tick \/ LateTick
  <2>1. /\ provider' = [p \in Peer |-> IF provider[p] = NoConnection
                                         THEN NoConnection
                                         ELSE Elapse(provider[p], 1)]
        /\ UNCHANGED <<to, from, losses>>
    BY <1>7 DEF Tick, LateTick, Passes
  <2>2. provider' = [p \in Peer |-> provider'[p]]
    BY <2>1
  <2>3. /\ to_late' = [p \in Peer |-> to_late'[p]]
        /\ from_late' = [p \in Peer |-> from_late'[p]]
    BY <1>1, <1>7 DEF Tick, LateTick
  <2> QED
    BY <1>1, <2>1, <2>2, <2>3 DEF Network
<1>8. ASSUME NEW p \in Peer, Lose(p)
      PROVE  Network'
  BY <1>1, <1>8 DEF Lose, Network
<1>9. ASSUME NEW p \in Peer, Crash(p) \/ Restart(p)
      PROVE  Network'
  BY <1>1, <1>9 DEF Crash, Restart, Network
<1> QED
  BY <1>2, <1>3, <1>4, <1>5, <1>6, <1>7, <1>8, <1>9 DEF Next, Progress

\* At first no transfer is going on.
LEMMA SwarmInitHolds == Init => SwarmInv
<1> SUFFICES ASSUME Init PROVE SwarmInv
  OBVIOUS
<1>1. Network
  BY SwarmAssumption DEF Init, Network
<1>2. P!IInv
  <2>1. P!Init
    BY DEF Init, D!Init, P!Init, D!JobChunk, P!JobChunk, D!Silence, P!Silence
  <2> QED
    BY <2>1, Assumed, P!InitHolds
<1>3. ASSUME NEW p \in Peer
      PROVE  PeerInv(p)
  <2> DEFINE T == <<>>
             F == <<>>
  <2>1. /\ to[p] = T /\ from[p] = F
        /\ provider[p] = NoConnection
        /\ ~P!Connected(p)
        /\ (p \in crashed) = FALSE
    BY <1>3 DEF Init, D!Init, P!Connected
  <2>2. /\ P!Connected(p) = FALSE
        /\ Want(p) = NoConnection
        /\ Received(p) = 0
    BY <2>1 DEF P!Connected, Want, Received
  <2>3. T \in Seq(ToPacket) /\ F \in Seq(FromPacket(Owned[p])) /\ Len(T) = 0 /\ Len(F) = 0
    OBVIOUS
  <2> HIDE DEF T, F
  <2>4. Flow(F, Len(F), FALSE, NoConnection, 0) /\ Len(F) \in 0 .. Len(F)
    <3>1. \A k \in 1 .. Len(F) : F[k].type = "DATA" => F[k].seq_number >= 2
      BY <2>3
    <3>2. Len(F) \in Nat /\ Len(F) \in 0 .. Len(F)
      BY <2>3
    <3>3. PICK want : want = NoConnection
      OBVIOUS
    <3>4. Flow(F, Len(F), FALSE, want, 0)
      BY <3>1, <3>2, FlowOver
    <3> QED
      BY <3>2, <3>3, <3>4
  <2>5. Stage(NoConnection, T, F, Len(F), FALSE, NoConnection, 0)
    BY <2>3 DEF Stage, Idle, After
  <2>6. Transfer(NoConnection, T, F, FALSE, NoConnection, 0, FALSE, Owned[p])
    BY <2>3, <2>4, <2>5 DEF Transfer, Alive, Busy
  <2>7. InTransfer(p)
    BY <2>1, <2>2, <2>6 DEF InTransfer
  <2>8. InTime(p)
    <3>1. Waited(p) = 0 /\ to_late[p] = T /\ from_late[p] = F
      BY <2>1 DEF Waited, Init, T, F
    <3>2. Paired(T, T) /\ Paired(F, F)
      BY DEF Paired, T, F
    <3>3. Timely(NoConnection, T, T, F, F, FALSE, 0, FALSE, 0)
      BY <3>2 DEF Timely
    <3> QED
      BY <2>1, <2>2, <3>1, <3>3 DEF InTime
  <2> QED
    BY <2>1, <2>7, <2>8 DEF PeerInv, P!ListedIn
<1>4. Own
  <2>1. data = [c \in P!JobChunk |-> <<>>]
    BY DEF Init, D!Init, D!JobChunk, P!JobChunk
  <2> QED
    BY <2>1, EmptySeq DEF Own, P!Verified
<1> QED
  BY <1>1, <1>2, <1>3, <1>4 DEF SwarmInv, Lossless

\* Every step keeps it.
LEMMA SwarmStepKeeps ==
  ASSUME SwarmInv, [Next]_vars, Punctual
  PROVE  SwarmInv'
<1>1. Network /\ Network'
  BY NetworkKeeps DEF SwarmInv
<1>2. ASSUME losses' = 0
      PROVE  Lossless'
  <2>1. losses \in Nat /\ ~(\E p \in Peer : Lose(p) \/ Restart(p))
    <3>1. losses \in Nat
      BY <1>1 DEF Network
    <3>2. \A p \in Peer : Lose(p) \/ Restart(p) => losses' = losses + 1
      BY DEF Lose, Restart
    <3> QED
      BY <1>2, <3>1, <3>2
  <2>2. losses' = losses
    <3>1. UNCHANGED vars \/ StartTurn \/ HandleNoPacket => losses' = losses
      BY DEF vars, net_vars, StartTurn, HandleNoPacket
    <3>2. \A p \in Peer :
            HandlePacket(p) \/ ProviderTurn(p) \/ Crash(p) => losses' = losses
      BY DEF HandlePacket, ProviderTurn, Crash
    <3>3. RestOfTurn \/ Tick \/ LateTick => losses' = losses
      BY DEF RestOfTurn, Tick, LateTick, Passes
    <3> QED
      BY <2>1, <3>1, <3>2, <3>3 DEF Next, Progress
  <2>3. Lossless
    BY <1>2, <2>2 DEF SwarmInv
  <2>4. CASE UNCHANGED vars
    <3>1. UNCHANGED downloader_vars /\ UNCHANGED net_vars
      BY <2>4 DEF vars
    <3>2. \A p \in Peer : SameEnd(p) /\ SameQueue(p)
      BY <3>1 DEF net_vars, SameEnd, SameQueue
    <3>3. \A p \in Peer : PeerInv(p)'
      BY <2>3, <3>1, <3>2, PeerRests
    <3> QED
      BY <2>3, <3>1, <3>3, DownloaderRests DEF Lossless
  <2>5. CASE StartTurn
    BY <1>1, <2>3, <2>5, StartTurnKeeps
  <2>6. ASSUME NEW p \in Peer, HandlePacket(p)
        PROVE  Lossless'
    BY <1>1, <2>3, <2>6, HandlePacketKeeps
  <2>7. CASE HandleNoPacket
    BY <1>1, <2>3, <2>7, HandleNoPacketKeeps
  <2>8. CASE RestOfTurn
    BY <1>1, <2>3, <2>8, RestOfTurnKeeps
  <2>9. ASSUME NEW p \in Peer, ProviderTurn(p)
        PROVE  Lossless'
    BY <1>1, <2>3, <2>9, ProviderTurnKeeps
  <2>10. CASE Tick
    BY <1>1, <2>3, <2>10, TickKeeps
  <2>11. CASE LateTick
    BY <1>1, <2>3, <2>11, LateTickKeeps
  <2>12. ASSUME NEW p \in Peer, Crash(p)
         PROVE  Lossless'
    BY <1>1, <2>3, <2>12, CrashKeeps
  <2> QED
    BY <2>1, <2>4, <2>5, <2>6, <2>7, <2>8, <2>9, <2>10, <2>11, <2>12 DEF Next, Progress
<1> QED
  BY <1>1, <1>2 DEF SwarmInv

\* The inductive invariant of the swarm holds for any number of peers, jobs,
\* chunks, crashes and late ticks, as long as no packet is later than MaxDelay
\* ticks, and a packet and its answer together not later than a timeout.
THEOREM SwarmInvariance == Punctual => (Spec => []SwarmInv)
<1> SUFFICES ASSUME Punctual PROVE Spec => []SwarmInv
  OBVIOUS
<1>1. SwarmInv /\ [Next]_vars => SwarmInv'
  BY SwarmStepKeeps
<1> QED
  BY <1>1, SwarmInitHolds, PTL DEF Spec

\* TimeoutNeedsLoss follows: what a peer that did not crash waits for is on its
\* way, and neither it nor the packet that asked for it can be later.
LEMMA TimeoutsNeedLoss == Punctual /\ SwarmInv => TimeoutNeedsLoss
<1> SUFFICES ASSUME Punctual, SwarmInv, losses = 0, NEW p \in Peer, p \notin crashed
             PROVE  /\ D!Connected(p) => ~D!ProviderCrashed(connection[p])
                    /\ provider[p] # NoConnection => ~ReceiverCrashed(provider[p])
  BY DEF TimeoutNeedsLoss, OnlyTheCrashedTimeOut
<1>1. P!IInv /\ PeerInv(p)
  BY DEF SwarmInv, Lossless
<1>2. ASSUME D!Connected(p)
      PROVE  ~D!ProviderCrashed(connection[p])
  <2>1. P!Connected(p)
    BY <1>2 DEF D!Connected, P!Connected
  <2>2. p \notin P!Gone
    BY <1>1, GoneCrashed
  <2> QED
    BY <2>1, <2>2 DEF P!Gone, D!ProviderCrashed, P!ProviderCrashed
<1>3. ASSUME provider[p] # NoConnection
      PROVE  ~ReceiverCrashed(provider[p])
  <2>1. /\ provider[p].since_acked \in Nat
        /\ Waited(p) \in Nat /\ Len(from[p]) \in Nat
    BY <1>1, <1>3, PeerTimes
  <2>2. Timely(provider[p], to[p], to_late[p], from[p], from_late[p], P!Connected(p),
               Received(p), p \in crashed, Waited(p))
    BY <1>1 DEF PeerInv, InTime
  <2>3. provider[p].since_acked <= 2 * MaxDelay
    BY <1>3, <2>1, <2>2, TimelyBounds
  <2> QED
    BY <2>1, <2>3, SwarmAssumption, ControlAssumption, SMT
    DEF Punctual, ReceiverCrashed
<1> QED
  BY <1>2, <1>3

\* While nothing is lost, crashes and late packets, however many, never make a
\* node take one for crashed that did not crash, if each packet is at most
\* MaxDelay ticks late and the crash timeout is at least twice that long.
THEOREM TimeoutNeedsLossHolds == Punctual => (Spec => []TimeoutNeedsLoss)
<1> SUFFICES ASSUME Punctual PROVE Spec => []TimeoutNeedsLoss
  OBVIOUS
<1>1. SwarmInv => TimeoutNeedsLoss
  BY TimeoutsNeedLoss
<1> QED
  BY <1>1, SwarmInvariance, PTL

\* While nothing is lost, what a downloader keeps for a chunk was cut from
\* that chunk, although DATA packets do not name theirs.
THEOREM ForeignDataNeedsLossHolds == Punctual => (Spec => []ForeignDataNeedsLoss)
<1> SUFFICES ASSUME Punctual PROVE Spec => []ForeignDataNeedsLoss
  OBVIOUS
<1>1. SwarmInv => ForeignDataNeedsLoss
  BY DEF SwarmInv, Lossless, Own, ForeignDataNeedsLoss, NoForeignData,
         D!JobChunk, P!JobChunk, D!Verified, P!Verified, D!HashOfChunk,
         P!HashOfChunk
<1> QED
  BY <1>1, SwarmInvariance, PTL

=============================================================================
