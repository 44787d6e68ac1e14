------------------------------- MODULE Swarm --------------------------------
(***************************************************************************)
(* A node that downloads (Download) and the nodes it downloads from, each  *)
(* with the sender of Control, joined by the network.  The network keeps   *)
(* the packets between two nodes in order, as the queues of the Spiffy     *)
(* router do; it may lose packets, each packet may be MaxDelay ticks late, *)
(* and a node may crash or start again; MaxFaults bounds how often.        *)
(*                                                                         *)
(* Nodes take turns of their event loops.  Time passes when every node has *)
(* handled its packets and timers: a tick is long for the loop, which      *)
(* waits 0.3 s at most, and short for the timeouts.  A turn that would     *)
(* change nothing is left out.                                             *)
(***************************************************************************)
EXTENDS Control, Sequences, FiniteSets

CONSTANTS
  Peer, Hash, JobId, HashOf, MAX_HASH_LIST_NUM, GET_TIMEOUT,
  WHOHAS_FLOOD_INTERVAL_MS, max_receiver_connection, NoJob, NoConnection,
  Owned,               \* Owned[p]: the hashes of has_chunks of node p
  MayCrash,            \* the nodes that may crash
  MayRestart,          \* the nodes that may crash and start again
  MaxDelay,            \* how many ticks a packet may be late
  MaxFaults            \* bound on packets lost, restarts and late ticks together

ASSUME SwarmAssumption ==
  /\ Owned \in [Peer -> SUBSET Hash]
  /\ MayCrash \subseteq Peer
  /\ MayRestart \subseteq Peer
  /\ MaxDelay \in Nat
  /\ MaxFaults \in Nat
  /\ Chunk = Hash
  /\ SLOW_START_INIT_WINDOW_SIZE < CHUNK_DATA_NUM
  \* what Download assumes of the constants it has beside those of Control
  /\ IsFiniteSet(Peer)
  /\ HashOf \in [JobId -> Seq(Hash)]
  /\ MAX_HASH_LIST_NUM \in Nat \ {0}
  /\ GET_TIMEOUT \in Nat
  /\ WHOHAS_FLOOD_INTERVAL_MS \in Nat
  /\ max_receiver_connection \in Nat
  /\ GET_TIMEOUT < MaxAge
  /\ WHOHAS_FLOOD_INTERVAL_MS < MaxAge
  /\ NoJob \notin JobId

VARIABLES
  \* the downloader
  pc, current_job, status, received_seq_num, data, connection, since_flood,
  file, got, asked, out,
  provider,            \* the connection every peer has with the downloader
  to,                  \* packets on their way to every peer
  from,                \* packets on their way from every peer
  to_late,             \* how many ticks each packet of to[p] is late
  from_late,           \* how many ticks each packet of from[p] is late
  crashed,             \* the peers that crashed
  losses,              \* how many packets were lost and nodes restarted
  late_ticks           \* how many ticks found packets on their way

D == INSTANCE Download WITH IHave          <- {},
                            SaveFailure    <- {},
                            MaxShortWrites <- 0

ASSUME NoConnectionAssumption ==
  /\ NoConnection \notin ProviderConnection
  /\ NoConnection \notin D!ReceiverConnection

downloader_vars == <<pc, current_job, status, received_seq_num, data, connection,
                     since_flood, file, got, asked, out>>
net_vars == <<provider, to, from, to_late, from_late, crashed, losses, late_ticks>>
vars == <<downloader_vars, net_vars>>

Init ==
  /\ D!Init
  /\ provider = [p \in Peer |-> NoConnection]
  /\ to = [p \in Peer |-> <<>>]
  /\ from = [p \in Peer |-> <<>>]
  /\ to_late = [p \in Peer |-> <<>>]
  /\ from_late = [p \in Peer |-> <<>>]
  /\ crashed = {}
  /\ losses = 0
  /\ late_ticks = 0

-----------------------------------------------------------------------------
(* The downloader.                                                         *)

\* Something waits for its loop: a packet, the user, a timer, a job to end.
DownloaderDue ==
  \/ \E p \in Peer : from[p] # <<>>
  \/ JobId \ asked # {}
  \/ since_flood > WHOHAS_FLOOD_INTERVAL_MS
  \/ \E p \in Peer : /\ D!Connected(p)
                     /\ \/ D!ProviderCrashed(connection[p])
                        \/ D!GetLost(connection[p])
  \/ D!JobFinished

\* A packet that is sent is not late yet.
OnTime(packets) == [k \in DOMAIN packets |-> 0]

\* What a step of the downloader sends goes on its way, unless to a node
\* that crashed.
Deliver ==
  /\ to' = [p \in Peer |-> IF p \in crashed THEN <<>> ELSE to[p] \o out'[p]]
  /\ to_late' = [p \in Peer |-> IF p \in crashed THEN <<>>
                                ELSE to_late[p] \o OnTime(out'[p])]

StartTurn ==
  /\ DownloaderDue
  /\ D!Select(0)
  /\ UNCHANGED net_vars

\* The first packet from some peer; IHAVE and DATA are all that peers send.
HandlePacket(p) ==
  /\ from[p] # <<>>
  /\ LET packet == Head(from[p])
     IN  IF packet.type = "IHAVE"
           THEN D!ReceiveIHave(p, packet.hashes)
           ELSE D!ReceiveData(p, packet.seq_number, packet.hash)
  /\ from' = [from EXCEPT ![p] = Tail(@)]
  /\ from_late' = [from_late EXCEPT ![p] = Tail(@)]
  /\ Deliver
  /\ UNCHANGED <<provider, crashed, losses, late_ticks>>

HandleNoPacket ==
  /\ \A p \in Peer : from[p] = <<>>
  /\ D!NoPacket
  /\ UNCHANGED net_vars

RestOfTurn ==
  /\ \/ \E j \in JobId : D!ProcessGet(j)
     \/ D!NoUserInput
     \/ D!ReceiversTimeout
     \/ D!FloodAndFinishJob
  /\ Deliver
  /\ UNCHANGED <<provider, from, from_late, crashed, losses, late_ticks>>

-----------------------------------------------------------------------------
(* The providers.                                                          *)

SearchOwnedChunk(p, hash) == hash \in Owned[p]

\* The search of load_chunk.  That the file it names can be opened and read is
\* assumed here; Provider has the GET that is ignored because it cannot.
LoadChunk(p, hash) == SearchOwnedChunk(p, hash)

\* process_inbound_udp with the first packet on its way to p, if any.  One
\* downloader asks, so p never meets its limit of connections (ProviderPool).
HandleInbound(p) ==
  LET c      == provider[p]
      packet == Head(to[p])
  IN  IF to[p] = <<>> THEN c
      ELSE IF packet.type = "GET"
        THEN IF c = NoConnection /\ LoadChunk(p, packet.hash)
               THEN InitProviderConnection(packet.hash)
               ELSE c
      ELSE IF packet.type = "ACK" /\ c # NoConnection
        THEN LET d == ProviderControlByAck(c, packet.ack_number)
             IN  IF d.last_packet_acked = CHUNK_DATA_NUM THEN NoConnection
                                                         ELSE d
      ELSE c

\* malloc_ihave_packet: the hashes of a WHOHAS that p owns, if there are any.
IHaveReply(p) ==
  IF to[p] # <<>> /\ Head(to[p]).type = "WHOHAS"
    THEN LET hashes == Head(to[p]).hashes
             places == D!Ascending({k \in D!Listed(hashes) :
                                      SearchOwnedChunk(p, hashes[k])},
                                   MAX_HASH_LIST_NUM)
             owned  == [i \in 1 .. Len(places) |-> hashes[places[i]]]
         IN  IF owned = <<>> THEN <<>>
                             ELSE <<[type |-> "IHAVE", hashes |-> owned]>>
    ELSE <<>>

AfterTimeout(c) ==
  IF c = NoConnection \/ ReceiverCrashed(c) THEN NoConnection
                                            ELSE ProviderControlByTimeout(c)

Sends(c) == c # NoConnection /\ CanSend(c)

DataPacket(c) ==
  [type |-> "DATA", seq_number |-> c.last_packet_sent + 1, hash |-> c.chunk]

\* A turn of the loop of p: one packet, the timers, one DATA packet.
AfterInbound(p) == AfterTimeout(HandleInbound(p))

AfterTurn(p) ==
  IF Sends(AfterInbound(p)) THEN SendDataPacket(AfterInbound(p))
                            ELSE AfterInbound(p)

\* What p sends in it.
SentInTurn(p) ==
  IHaveReply(p) \o (IF Sends(AfterInbound(p))
                      THEN <<DataPacket(AfterInbound(p))>> ELSE <<>>)

ProviderDue(p) == to[p] # <<>> \/ AfterTurn(p) # provider[p]

ProviderTurn(p) ==
  /\ pc = "select"
  /\ p \notin crashed
  /\ ProviderDue(p)
  /\ provider' = [provider EXCEPT ![p] = AfterTurn(p)]
  /\ to' = [to EXCEPT ![p] = IF @ = <<>> THEN @ ELSE Tail(@)]
  /\ to_late' = [to_late EXCEPT ![p] = IF @ = <<>> THEN @ ELSE Tail(@)]
  /\ from' = [from EXCEPT ![p] = @ \o SentInTurn(p)]
  /\ from_late' = [from_late EXCEPT ![p] = @ \o OnTime(SentInTurn(p))]
  /\ UNCHANGED <<downloader_vars, crashed, losses, late_ticks>>

-----------------------------------------------------------------------------
(* Time and faults.                                                        *)

TimersHandled ==
  /\ since_flood <= WHOHAS_FLOOD_INTERVAL_MS
  /\ ~D!JobFinished
  /\ \A p \in Peer :
       D!Connected(p) => /\ ~D!ProviderCrashed(connection[p])
                         /\ ~D!GetLost(connection[p])
  /\ \A p \in Peer \ crashed :
       /\ AfterTimeout(provider[p]) = provider[p]
       /\ ~Sends(provider[p])

OnTheWay == \E p \in Peer : to[p] # <<>> \/ from[p] # <<>>

Passes ==
  /\ connection' = [p \in Peer |-> IF D!Connected(p)
                                     THEN D!Elapse(connection[p], 1)
                                     ELSE NoConnection]
  /\ since_flood' = Older(since_flood, 1)
  /\ provider' = [p \in Peer |-> IF provider[p] = NoConnection
                                   THEN NoConnection
                                   ELSE Elapse(provider[p], 1)]
  /\ UNCHANGED <<pc, current_job, status, received_seq_num, data, file, got,
                 asked, out, to, from, crashed, losses>>

Tick ==
  /\ pc = "select"
  /\ TimersHandled
  /\ ~OnTheWay
  /\ Passes
  /\ UNCHANGED <<to_late, from_late, late_ticks>>

MayBeLater(late) == \A k \in DOMAIN late : late[k] < MaxDelay

Later(late) == [k \in DOMAIN late |-> late[k] + 1]

\* The network is late: time passes while packets are on their way, if each
\* of them may be a tick later.
LateTick ==
  /\ pc = "select"
  /\ TimersHandled
  /\ OnTheWay
  /\ losses + late_ticks < MaxFaults
  /\ late_ticks' = late_ticks + 1
  /\ \A p \in Peer : MayBeLater(to_late[p]) /\ MayBeLater(from_late[p])
  /\ to_late' = [p \in Peer |-> Later(to_late[p])]
  /\ from_late' = [p \in Peer |-> Later(from_late[p])]
  /\ Passes

Lose(p) ==
  /\ pc = "select"
  /\ losses + late_ticks < MaxFaults
  /\ losses' = losses + 1
  /\ \/ /\ to[p] # <<>>
        /\ to' = [to EXCEPT ![p] = Tail(@)]
        /\ to_late' = [to_late EXCEPT ![p] = Tail(@)]
        /\ UNCHANGED <<from, from_late>>
     \/ /\ from[p] # <<>>
        /\ from' = [from EXCEPT ![p] = Tail(@)]
        /\ from_late' = [from_late EXCEPT ![p] = Tail(@)]
        /\ UNCHANGED <<to, to_late>>
  /\ UNCHANGED <<downloader_vars, provider, crashed, late_ticks>>

\* A node stops for good, and the packets it did not read are lost.
Crash(p) ==
  /\ pc = "select"
  /\ p \in MayCrash \ crashed
  /\ crashed' = crashed \cup {p}
  /\ provider' = [provider EXCEPT ![p] = NoConnection]
  /\ to' = [to EXCEPT ![p] = <<>>]
  /\ to_late' = [to_late EXCEPT ![p] = <<>>]
  /\ UNCHANGED <<downloader_vars, from, from_late, losses, late_ticks>>

\* A node stops and is started again: it owns what it owned, and knows
\* nothing of the transfers it was in.
Restart(p) ==
  /\ pc = "select"
  /\ p \in MayRestart \ crashed
  /\ losses + late_ticks < MaxFaults
  /\ losses' = losses + 1
  /\ provider' = [provider EXCEPT ![p] = NoConnection]
  /\ to' = [to EXCEPT ![p] = <<>>]
  /\ to_late' = [to_late EXCEPT ![p] = <<>>]
  /\ UNCHANGED <<downloader_vars, from, from_late, crashed, late_ticks>>

Progress ==
  \/ StartTurn
  \/ \E p \in Peer : HandlePacket(p)
  \/ HandleNoPacket
  \/ RestOfTurn
  \/ \E p \in Peer : ProviderTurn(p)
  \/ Tick

Next ==
  \/ Progress
  \/ LateTick
  \/ \E p \in Peer : Lose(p) \/ Crash(p) \/ Restart(p)

Spec == Init /\ [][Next]_vars

\* Nodes that did not crash go on with their loops, and time goes on.
FairSpec == Spec /\ WF_vars(Progress)

-----------------------------------------------------------------------------
\* A timeout declares a peer crashed only when it did: the packets lost or
\* late are retransmitted long before (readme.txt:17-19).
OnlyTheCrashedTimeOut ==
  \A p \in Peer \ crashed :
    /\ D!Connected(p) => ~D!ProviderCrashed(connection[p])
    /\ provider[p] # NoConnection => ~ReceiverCrashed(provider[p])

\* While nothing is lost, lateness and crashes alone declare nobody crashed
\* that did not, if a packet and its answer are not later together than the
\* crash timeout lasts: retransmissions and repeated ACKs are enough.
TimeoutNeedsLoss == losses = 0 => OnlyTheCrashedTimeOut

\* DATA does not say which chunk it belongs to: what a downloader keeps for a
\* chunk was nevertheless cut from that chunk, also when it changed from one
\* chunk of a peer to the next while packets were on their way.
NoForeignData ==
  \A c \in D!JobChunk : D!Verified(c, data[c])

\* While nothing is lost, a provider is done with a chunk before it is asked
\* for the next one, whatever is late and whoever crashes.
ForeignDataNeedsLoss == losses = 0 => NoForeignData

\* Whatever is lost and whichever provider crashes, as long as every chunk
\* has an owner that remains, though it may forget the transfer, a job ends
\* with GOT and has all its chunks.
DownloadCompletes ==
  \A j \in JobId :
    j \in asked ~> /\ j \in got
                  /\ \A i \in 1 .. Len(HashOf[j]) : status[<<j, i>>] = "finished"

=============================================================================
