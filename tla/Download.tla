------------------------------ MODULE Download ------------------------------
(***************************************************************************)
(* The receiving half of a node: the job a GET command starts (job.c), the *)
(* receiver connections (connection.c) and the part of the event loop      *)
(* (peer.c) that drives them.                                              *)
(*                                                                         *)
(* Every action is one phase of a turn of peer_run: select, one packet,    *)
(* the user's command, receivers_timeout, and the rest (flood_whohas and   *)
(* finish_job).  Packets of the peers are inputs of the actions and the    *)
(* packets the node sends are its output, `out', so that the module says   *)
(* what a node does with whatever reaches it.                              *)
(*                                                                         *)
(* The content of a DATA packet is modelled by the hash of the chunk it    *)
(* was cut from: the bytes of a chunk verify when every packet of it was   *)
(* cut from the chunk with that hash.                                      *)
(***************************************************************************)
EXTENDS Integers, Sequences, FiniteSets, Functions

CONSTANTS
  Peer,                    \* the other nodes of the peer list
  Hash,                    \* the hashes of chunks
  JobId,                   \* the GET commands, each given at most once
  HashOf,                  \* HashOf[j]: the hashes of j's chunk file, in order
  IHave,                   \* lists of hashes an IHAVE may carry
  CHUNK_DATA_NUM,          \* DATA packets of a chunk (512)
  MAX_HASH_LIST_NUM,       \* hashes a packet has room for (74)
  GET_TIMEOUT,             \* (4000)
  PEER_CRASH_TIMEOUT,      \* (10000)
  WHOHAS_FLOOD_INTERVAL_MS,\* (3000)
  max_receiver_connection, \* config.max_conn
  MaxAge,                  \* bound: ages saturate here
  SaveFailure,             \* how saving a chunk may fail: "cannot_open",
                           \* "short_write"
  MaxShortWrites,          \* bound on the writes of a chunk that fall short
  NoJob, NoConnection

ASSUME DownloadAssumption ==
  /\ IsFiniteSet(Peer)
  /\ HashOf \in [JobId -> Seq(Hash)]
  /\ IHave \subseteq Seq(Hash)
  /\ CHUNK_DATA_NUM \in Nat \ {0}
  /\ MAX_HASH_LIST_NUM \in Nat \ {0}
  /\ GET_TIMEOUT \in Nat
  /\ PEER_CRASH_TIMEOUT \in Nat
  /\ WHOHAS_FLOOD_INTERVAL_MS \in Nat
  /\ max_receiver_connection \in Nat
  /\ MaxAge \in Nat
  /\ GET_TIMEOUT < MaxAge
  /\ PEER_CRASH_TIMEOUT < MaxAge
  /\ WHOHAS_FLOOD_INTERVAL_MS < MaxAge
  /\ SaveFailure \subseteq {"cannot_open", "short_write"}
  /\ MaxShortWrites \in Nat
  /\ NoJob \notin JobId

CHUNK_STATUS == {"not_found", "downloading", "pending", "finished"}
RECEIVER_STATUS == {"pending_data", "received_data"}

Age == 0 .. MaxAge

\* The chunks of the jobs: the i-th line of a job's chunk file.
JobChunk == UNION {{j} \X (1 .. Len(HashOf[j])) : j \in JobId}

HashOfChunk(c) == HashOf[c[1]][c[2]]

ReceiverConnection ==
  [ chunks      : Seq(JobChunk),   \* chunk_list_head
    status      : RECEIVER_STATUS,
    since_start : Age,             \* start_time
    since_get   : Age,             \* last_get_time
    since_data  : Age ]            \* last_data_time

ASSUME NoConnectionAssumption == NoConnection \notin ReceiverConnection

VARIABLES
  pc,                  \* the phase of the turn
  current_job,         \* the job in progress, or NoJob
  status,              \* status of every chunk
  received_seq_num,    \* received_seq_num of every chunk
  data,                \* the packets received of every chunk
  connection,          \* the receiver connection with every peer
  since_flood,         \* last_flood_whohas_time
  file,                \* the blocks written to the output file of every job
  got,                 \* the jobs whose GOT line was printed
  asked,               \* the GET commands given so far
  out                  \* what the last step sent to every peer

chunk_vars == <<status, received_seq_num, data>>
job_vars == <<current_job, got, asked>>
vars == <<pc, job_vars, chunk_vars, connection, since_flood, file, out>>

Connected(p) == connection[p] # NoConnection

ConnectionNumber == Cardinality({p \in Peer : Connected(p)})

Silence == [p \in Peer |-> <<>>]

\* Faulty: always the first chunk of the job.
GetFirstPacket(c) == [type |-> "GET", hash |-> HashOf[c[1]][1]]

GetPacket(c) == [type |-> "GET", hash |-> HashOfChunk(c)]

\* Faulty: the packet before the one that arrived.
AckPacketBefore(n) == [type |-> "ACK", ack_number |-> n - 1]

AckPacket(n) == [type |-> "ACK", ack_number |-> n]
WhoHasPacket(hashes) == [type |-> "WHOHAS", hashes |-> hashes]

Init ==
  /\ pc = "select"
  /\ current_job = NoJob
  /\ status = [c \in JobChunk |-> "not_found"]
  /\ received_seq_num = [c \in JobChunk |-> 0]
  /\ data = [c \in JobChunk |-> <<>>]
  /\ connection = [p \in Peer |-> NoConnection]
  /\ since_flood = 0
  /\ file = [j \in JobId |-> <<>>]
  /\ got = {}
  /\ asked = {}
  /\ out = Silence

Phase(from, to) ==
  /\ pc = from
  /\ pc' = to

-----------------------------------------------------------------------------
(* select returns, within one tick or after one.                           *)

Older(age, dt) == IF age + dt < MaxAge THEN age + dt ELSE MaxAge

Elapse(rc, dt) ==
  [rc EXCEPT !.since_start = Older(@, dt),
             !.since_get   = Older(@, dt),
             !.since_data  = Older(@, dt)]

Select(dt) ==
  /\ Phase("select", "packet")
  /\ connection' = [p \in Peer |-> IF Connected(p)
                                     THEN Elapse(connection[p], dt)
                                     ELSE NoConnection]
  /\ since_flood' = Older(since_flood, dt)
  /\ out' = Silence
  /\ UNCHANGED <<job_vars, chunk_vars, file>>

-----------------------------------------------------------------------------
(* IHAVE.                                                                  *)

\* get_chunk: the first chunk of the current job with this hash.
IsGetChunk(hash, c) ==
  /\ c[1] = current_job
  /\ HashOfChunk(c) = hash
  /\ \A i \in 1 .. c[2] - 1 : HashOf[current_job][i] # hash

\* Only what a packet has room for is read, whatever its count says.
Listed(hashes) == {k \in DOMAIN hashes : k <= MAX_HASH_LIST_NUM}

Named(hashes, c) == {k \in Listed(hashes) : IsGetChunk(hashes[k], c)}

\* Faulty: the status of the chunk is not tested.
WantedAgain(hashes) == {c \in JobChunk : Named(hashes, c) # {}}

\* The chunks add_ihave_to_receiver_connection appends: those named by the
\* packet and not found yet, each at its first occurrence.
Wanted(hashes) ==
  {c \in JobChunk : status[c] = "not_found" /\ Named(hashes, c) # {}}

Before(hashes, c, d) ==
  \E k \in Named(hashes, c) : \A m \in Named(hashes, d) : k < m

Selection(hashes) ==
  LET wanted == Wanted(hashes)
  IN  {q \in [1 .. Cardinality(wanted) -> wanted] :
         \A a, b \in DOMAIN q : a < b => Before(hashes, q[a], q[b])}

\* A connection exists: its list is extended.
ExtendConnection(p, hashes) ==
  /\ Phase("packet", "input")
  /\ current_job # NoJob
  /\ Connected(p)
  /\ \E q \in Selection(hashes) :
       connection' = [connection EXCEPT ![p].chunks = @ \o q]
  /\ status' = [c \in JobChunk |-> IF c \in Wanted(hashes) THEN "pending"
                                                           ELSE status[c]]
  /\ out' = Silence
  /\ UNCHANGED <<job_vars, received_seq_num, data, since_flood, file>>

\* malloc_receiver_connection and start_connection: the first chunk of the
\* new list is requested at once.  last_data_time is left uninitialised by
\* the code, and not read before the first DATA packet stores it.
AddReceiverConnection(p, hashes) ==
  /\ Phase("packet", "input")
  /\ current_job # NoJob
  /\ ~Connected(p)
  /\ ConnectionNumber < max_receiver_connection
  /\ Wanted(hashes) # {}
  /\ \E q \in Selection(hashes) :
       /\ connection' = [connection EXCEPT ![p] =
                           [ chunks      |-> q,
                             status      |-> "pending_data",
                             since_start |-> 0,
                             since_get   |-> 0,
                             since_data  |-> 0 ]]
       /\ status' = [c \in JobChunk |-> IF c = q[1] THEN "downloading"
                                        ELSE IF c \in Wanted(hashes)
                                          THEN "pending" ELSE status[c]]
       /\ out' = [Silence EXCEPT ![p] = <<GetPacket(q[1])>>]
  /\ UNCHANGED <<job_vars, received_seq_num, data, since_flood, file>>

\* No job, no free connection, or nothing in the packet is wanted.
IgnoreIHave(p, hashes) ==
  /\ Phase("packet", "input")
  /\ \/ current_job = NoJob
     \/ /\ ~Connected(p)
        /\ \/ ConnectionNumber >= max_receiver_connection
           \/ Wanted(hashes) = {}
  /\ out' = Silence
  /\ UNCHANGED <<job_vars, chunk_vars, connection, since_flood, file>>

ReceiveIHave(p, hashes) ==
  \/ ExtendConnection(p, hashes)
  \/ AddReceiverConnection(p, hashes)
  \/ IgnoreIHave(p, hashes)

-----------------------------------------------------------------------------
(* DATA.  The head of the connection's list is the chunk that is being     *)
(* downloaded; the packet carries no name of the chunk it belongs to.      *)

Downloading(p) == Head(connection[p].chunks)

\* No connection with the sender, or an old packet: it is not acknowledged
\* again.
IgnoreData(p, seq_number) ==
  /\ Phase("packet", "input")
  /\ Connected(p) => seq_number <= received_seq_num[Downloading(p)]
  /\ out' = Silence
  /\ UNCHANGED <<job_vars, chunk_vars, connection, since_flood, file>>

\* A later packet arrived first: the last one received is acknowledged again.
AcknowledgeAgain(p, seq_number) ==
  /\ Phase("packet", "input")
  /\ Connected(p)
  /\ seq_number > received_seq_num[Downloading(p)] + 1
  /\ out' = [Silence EXCEPT ![p] =
               <<AckPacket(received_seq_num[Downloading(p)])>>]
  /\ UNCHANGED <<job_vars, chunk_vars, connection, since_flood, file>>

Expected(p, seq_number) ==
  /\ Connected(p)
  /\ seq_number = received_seq_num[Downloading(p)] + 1

\* Faulty: the connection goes on waiting for its first DATA packet.
HeardTimeOnly(rc) == [rc EXCEPT !.since_data = 0]

Heard(rc) == [rc EXCEPT !.status = "received_data", !.since_data = 0]

\* The packet expected, and more of the chunk to come: save_data_packet.
SaveDataPacket(p, seq_number, hash) ==
  LET c == Downloading(p)
  IN  /\ Phase("packet", "input")
      /\ Expected(p, seq_number)
      /\ Len(data[c]) + 1 < CHUNK_DATA_NUM
      /\ data' = [data EXCEPT ![c] = Append(@, hash)]
      /\ received_seq_num' = [received_seq_num EXCEPT ![c] = seq_number]
      /\ connection' = [connection EXCEPT ![p] = Heard(@)]
      /\ out' = [Silence EXCEPT ![p] = <<AckPacket(seq_number)>>]
      /\ UNCHANGED <<job_vars, status, since_flood, file>>

\* The bytes received hash to what the chunk file says.
Verified(c, bytes) == \A k \in DOMAIN bytes : bytes[k] = HashOfChunk(c)

ShortWrites(j) == Cardinality({k \in DOMAIN file[j] : ~file[j][k].whole})

\* Faulty: the hash is computed and not compared.
SaveOutcomeUnverified(verified) ==
  {"saved"} \cup
  {failure \in SaveFailure :
     failure = "short_write" => ShortWrites(current_job) < MaxShortWrites}

\* What becomes of a chunk that is complete: its hash is wrong, or the file
\* cannot be opened, or fwrite falls short, or it is saved.
SaveOutcome(verified) ==
  IF ~verified THEN {"broken"}
  ELSE {"saved"} \cup
       {failure \in SaveFailure :
          failure = "short_write" => ShortWrites(current_job) < MaxShortWrites}

\* The file is opened in mode "a+": a block goes to its end, wherever fseek
\* moved to.  A whole block has all the bytes of the chunk, and the right ones.
Written(c, bytes, outcome) ==
  IF outcome \in {"saved", "short_write"}
    THEN [file EXCEPT ![current_job] =
            Append(@, [chunk |-> c,
                       whole |-> outcome = "saved" /\ Verified(c, bytes)])]
    ELSE file

\* The last packet of a chunk: save_data_packet, save_chunk (the hash is
\* verified and the block written to the file of the current job), and
\* reset_receiver_connection (the next chunk of the list is requested from
\* the same peer, or the connection is removed).
FinishChunk(p, seq_number, hash) ==
  LET c     == Downloading(p)
      bytes == Append(data[c], hash)
      rest  == Tail(connection[p].chunks)
  IN  /\ Phase("packet", "input")
      /\ Expected(p, seq_number)
      /\ Len(bytes) = CHUNK_DATA_NUM
      /\ \E outcome \in SaveOutcome(Verified(c, bytes)) :
           /\ file' = Written(c, bytes, outcome)
           /\ status' =
                [d \in JobChunk |->
                   IF d = c
                     THEN IF outcome = "saved" THEN "finished" ELSE "not_found"
                   ELSE IF rest # <<>> /\ d = Head(rest) THEN "downloading"
                   ELSE status[d]]
      /\ data' = [data EXCEPT ![c] = <<>>]
      /\ received_seq_num' = [received_seq_num EXCEPT ![c] = 0]
      /\ connection' = [connection EXCEPT ![p] =
                          IF rest = <<>> THEN NoConnection
                          ELSE [Heard(@) EXCEPT !.chunks = rest,
                                                !.since_get = 0]]
      /\ out' = [Silence EXCEPT ![p] =
                   <<AckPacket(seq_number)>> \o
                   (IF rest = <<>> THEN <<>> ELSE <<GetPacket(Head(rest))>>)]
      /\ UNCHANGED <<job_vars, since_flood>>

ReceiveData(p, seq_number, hash) ==
  \/ IgnoreData(p, seq_number)
  \/ AcknowledgeAgain(p, seq_number)
  \/ SaveDataPacket(p, seq_number, hash)
  \/ FinishChunk(p, seq_number, hash)

\* Nothing arrived, or a packet that does not concern a receiver.
NoPacket ==
  /\ Phase("packet", "input")
  /\ out' = Silence
  /\ UNCHANGED <<job_vars, chunk_vars, connection, since_flood, file>>

-----------------------------------------------------------------------------
(* The user's GET and the WHOHAS flood.                                    *)

NotFound(j, st) ==
  {c \in JobChunk : c[1] = j /\ st[c] = "not_found"}

\* The numbers up to n that are in the set, in ascending order.
Ascending(set, n) ==
  LET listed[k \in 0 .. n] ==
        IF k = 0 THEN <<>>
        ELSE IF k \in set THEN Append(listed[k - 1], k) ELSE listed[k - 1]
  IN  listed[n]

\* The hashes of the chunks not found yet, in the order of the chunk file.
WhoHasHashes(j, st) ==
  LET lines == Ascending({i \in 1 .. Len(HashOf[j]) : <<j, i>> \in NotFound(j, st)},
                         Len(HashOf[j]))
  IN  [k \in 1 .. Len(lines) |-> HashOf[j][lines[k]]]

\* Faulty: one more packet than needed when the hashes fill the packets.
PacketNumberOver(n) == n \div MAX_HASH_LIST_NUM + 1

PacketNumber(n) ==
  IF n % MAX_HASH_LIST_NUM = 0 THEN n \div MAX_HASH_LIST_NUM
                               ELSE n \div MAX_HASH_LIST_NUM + 1

\* malloc_all_whohas_packet: every packet is full, and the last takes the rest.
WhoHasPackets(hashes) ==
  LET number == PacketNumber(Len(hashes))
      before(k) == (k - 1) * MAX_HASH_LIST_NUM
      last(k) == IF k < number THEN k * MAX_HASH_LIST_NUM ELSE Len(hashes)
  IN  [k \in 1 .. number |->
         WhoHasPacket(SubSeq(hashes, before(k) + 1, last(k)))]

\* flood_whohas for the job j: what every peer is sent.
FloodWhoHas(j) ==
  IF \/ j = NoJob
     \/ ConnectionNumber >= max_receiver_connection
     \/ NotFound(j, status) = {}
    THEN Silence
    ELSE [p \in Peer |-> WhoHasPackets(WhoHasHashes(j, status))]

\* process_get: the new job takes the place of the current one, whose
\* connections stay.
ProcessGet(j) ==
  /\ Phase("input", "timeouts")
  /\ j \notin asked
  /\ asked' = asked \cup {j}
  /\ current_job' = j
  /\ out' = FloodWhoHas(j)
  /\ UNCHANGED <<got, chunk_vars, connection, since_flood, file>>

NoUserInput ==
  /\ Phase("input", "timeouts")
  /\ out' = Silence
  /\ UNCHANGED <<job_vars, chunk_vars, connection, since_flood, file>>

-----------------------------------------------------------------------------
(* receivers_timeout.                                                      *)

\* Faulty: only a peer that never answered is given up.
ProviderCrashedPending(rc) ==
  rc.status = "pending_data" /\ rc.since_start > PEER_CRASH_TIMEOUT

ProviderCrashed(rc) ==
  \/ rc.status = "pending_data"  /\ rc.since_start > PEER_CRASH_TIMEOUT
  \/ rc.status = "received_data" /\ rc.since_data  > PEER_CRASH_TIMEOUT

GetLost(rc) ==
  /\ rc.status = "pending_data"
  /\ ~ProviderCrashed(rc)
  /\ rc.since_get > GET_TIMEOUT

\* Faulty: only the chunk being downloaded is given back.
CancelledHead ==
  {Downloading(p) :
     p \in {q \in Peer : Connected(q) /\ ProviderCrashed(connection[q])}}

\* The chunks of the connections that are cancelled.
Cancelled ==
  UNION {Range(connection[p].chunks) :
           p \in {q \in Peer : Connected(q) /\ ProviderCrashed(connection[q])}}

ReceiversTimeout ==
  /\ Phase("timeouts", "finish")
  /\ connection' = [p \in Peer |->
       IF ~Connected(p) \/ ProviderCrashed(connection[p]) THEN NoConnection
       ELSE IF GetLost(connection[p])
         THEN [connection[p] EXCEPT !.since_get = 0]
         ELSE connection[p]]
  /\ status' = [c \in JobChunk |->
       IF c \in Cancelled /\ status[c] # "finished" THEN "not_found"
       ELSE IF \E p \in Peer : /\ Connected(p)
                               /\ GetLost(connection[p])
                               /\ c = Downloading(p)
         THEN "downloading"
         ELSE status[c]]
  /\ data' = [c \in JobChunk |->
       IF c \in Cancelled /\ status[c] # "finished" THEN <<>> ELSE data[c]]
  /\ received_seq_num' = [c \in JobChunk |->
       IF c \in Cancelled /\ status[c] # "finished" THEN 0
                                                    ELSE received_seq_num[c]]
  /\ out' = [p \in Peer |-> IF Connected(p) /\ GetLost(connection[p])
                              THEN <<GetPacket(Downloading(p))>>
                              ELSE <<>>]
  /\ UNCHANGED <<job_vars, since_flood, file>>

-----------------------------------------------------------------------------
(* The end of a turn: the regular flood, then finish_job.                  *)

\* Faulty: it is not tested that there is a job.
JobFinishedNoJob ==
  /\ ConnectionNumber = 0
  /\ NotFound(current_job, status) = {}

\* Faulty: the open connections are not counted.
JobFinishedEarly ==
  /\ current_job # NoJob
  /\ NotFound(current_job, status) = {}

JobFinished ==
  /\ current_job # NoJob
  /\ ConnectionNumber = 0
  /\ NotFound(current_job, status) = {}

FloodAndFinishJob ==
  /\ Phase("finish", "select")
  /\ IF since_flood > WHOHAS_FLOOD_INTERVAL_MS
       THEN since_flood' = 0 /\ out' = FloodWhoHas(current_job)
       ELSE since_flood' = since_flood /\ out' = Silence
  /\ IF JobFinished
       THEN got' = got \cup {current_job} /\ current_job' = NoJob
       ELSE UNCHANGED <<got, current_job>>
  /\ UNCHANGED <<asked, chunk_vars, connection, file>>

-----------------------------------------------------------------------------
Next ==
  \/ \E dt \in {0, 1} : Select(dt)
  \/ \E p \in Peer, hashes \in IHave : ReceiveIHave(p, hashes)
  \/ \E p \in Peer, n \in 1 .. CHUNK_DATA_NUM, hash \in Hash :
       ReceiveData(p, n, hash)
  \/ NoPacket
  \/ \E j \in JobId : ProcessGet(j)
  \/ NoUserInput
  \/ ReceiversTimeout
  \/ FloodAndFinishJob

Spec == Init /\ [][Next]_vars

\* The loop never stops, and the clock runs.
Fairness == WF_vars(Next) /\ SF_vars(Select(1))

FairSpec == Spec /\ Fairness

-----------------------------------------------------------------------------
(* Safety.                                                                 *)

TypeOK ==
  /\ pc \in {"select", "packet", "input", "timeouts", "finish"}
  /\ current_job \in JobId \cup {NoJob}
  /\ status \in [JobChunk -> CHUNK_STATUS]
  /\ received_seq_num \in [JobChunk -> 0 .. CHUNK_DATA_NUM - 1]
  /\ data \in [JobChunk -> Seq(Hash)]
  /\ connection \in [Peer -> ReceiverConnection \cup {NoConnection}]
  /\ since_flood \in Age
  /\ file \in [JobId -> Seq([chunk : JobChunk, whole : BOOLEAN])]
  /\ got \subseteq asked
  /\ asked \subseteq JobId

List(p) == IF Connected(p) THEN connection[p].chunks ELSE <<>>

\* The status of a chunk and the lists of the connections agree: a chunk is
\* on its way exactly when one connection, and only one, holds it, once; the
\* head of a list is downloading and the rest is pending; no list is empty.
\* A chunk that broke this would be requested twice, or never again.
ChunkOwnership ==
  /\ \A p \in Peer : Connected(p) => List(p) # <<>> /\ IsInjective(List(p))
  /\ \A p, q \in Peer : p # q => Range(List(p)) \cap Range(List(q)) = {}
  /\ \A c \in JobChunk :
       status[c] \in {"pending", "downloading"} =>
         \E p \in Peer : c \in Range(List(p))
  /\ \A p \in Peer : \A k \in DOMAIN List(p) :
       status[List(p)[k]] = IF k = 1 THEN "downloading" ELSE "pending"

\* Data is only kept for a chunk whose download goes on, from a peer that
\* was heard of: what a peer that crashed or sent a broken chunk left behind
\* is never mixed with what the next one sends.
PartialData ==
  \A c \in JobChunk :
    /\ received_seq_num[c] = Len(data[c])
    /\ data[c] # <<>> =>
         \E p \in Peer : /\ Connected(p)
                         /\ Downloading(p) = c
                         /\ connection[p].status = "received_data"

\* save_chunk and get_chunk use the current job without testing that there
\* is one: a connection never outlives the job; and no more connections are
\* open than the user allowed.
ConnectionsNeedJob ==
  /\ ConnectionNumber > 0 => current_job # NoJob
  /\ ConnectionNumber <= max_receiver_connection

WholeBlocks(c) ==
  {b \in UNION {{j} \X DOMAIN file[j] : j \in JobId} :
     file[b[1]][b[2]] = [chunk |-> c, whole |-> TRUE]}

\* A chunk is finished when it was written completely, and then it was
\* written once: a failed write or a wrong hash is followed by a new
\* download, and nothing is downloaded again after a write that succeeded.
FinishedIsSaved ==
  \A c \in JobChunk :
    Cardinality(WholeBlocks(c)) = IF status[c] = "finished" THEN 1 ELSE 0

\* GOT is printed only for a job all of whose chunks are in its own file.
GotIsComplete ==
  \A j \in got : \A c \in JobChunk :
    c[1] = j => \E k \in DOMAIN file[j] :
                  file[j][k] = [chunk |-> c, whole |-> TRUE]

\* The file of a job that is reported has its chunks in the order of the
\* chunk file, from whichever peers they came (tests.txt:24-27).
FileInOrder ==
  \A j \in got : \A k \in DOMAIN file[j] : file[j][k].chunk = <<j, k>>

(* What a step may never do.                                               *)

\* The packets of the chunk received in order, this step included: all of
\* them when the step ends the download.
ReceivedInOrder(c) ==
  IF status'[c] = "downloading" THEN received_seq_num'[c] ELSE CHUNK_DATA_NUM

TrueAck(p, n) == Connected(p) /\ n = ReceivedInOrder(Downloading(p))

TrueGet(p, hash) == Connected(p)' /\ hash = HashOfChunk(Downloading(p))'

SentStep ==
  \A p \in Peer : \A k \in DOMAIN out'[p] :
    LET packet == out'[p][k]
    IN  /\ packet.type = "ACK" => TrueAck(p, packet.ack_number)
        /\ packet.type = "GET" => TrueGet(p, packet.hash)

\* What a node tells a peer is true: an acknowledgement names the last of
\* the packets that arrived in order, the one of this step included, even
\* when the step ends the chunk; a GET names the chunk the connection waits
\* for when the step is over.
SentIsTrue == [][SentStep]_vars

FloodDue ==
  \/ pc = "input" /\ asked' # asked
  \/ pc = "finish" /\ since_flood > WHOHAS_FLOOD_INTERVAL_MS

\* The places of the packets just sent to p where the hash is listed.
Places(p, hash) ==
  {b \in UNION {{k} \X DOMAIN out'[p][k].hashes : k \in DOMAIN out'[p]} :
     out'[p][b[1]].hashes[b[2]] = hash}

\* The packets just sent to p are full but for the last, and none is empty.
Packed(p) ==
  \A k \in DOMAIN out'[p] :
    /\ Len(out'[p][k].hashes) \in 1 .. MAX_HASH_LIST_NUM
    /\ k < Len(out'[p]) => Len(out'[p][k].hashes) = MAX_HASH_LIST_NUM

FloodStep ==
  FloodDue /\ ConnectionNumber < max_receiver_connection =>
    LET job == IF pc = "input" THEN current_job' ELSE current_job
    IN  \A p \in Peer :
          /\ Packed(p)
          /\ \A hash \in Hash :
               Cardinality(Places(p, hash)) =
                 Cardinality({c \in NotFound(job, status) :
                                HashOfChunk(c) = hash})

\* A flood asks every peer for every chunk that is not found, and for each
\* once, in as few packets as can be: all are full but for the last, which
\* is not empty, whether or not the chunks fill it.
FloodAsksForAll == [][FloodStep]_vars

(* The downloader implements the assignment of chunks to peers.            *)

Missing == <<"missing">>
Saved == <<"saved">>
GivenTo(peers) == <<"given to", peers>>

\* By the status, what became of a chunk; by the lists, who is to deliver it.
Holder(c) ==
  CASE status[c] = "not_found" -> Missing
    [] status[c] = "finished"  -> Saved
    [] OTHER -> GivenTo({p \in Peer : c \in Range(List(p))})

Assigned == INSTANCE Assignment WITH
              Peer     <- {GivenTo({p}) : p \in Peer},
              Chunk    <- JobChunk,
              Job      <- JobId,
              JobOf    <- [c \in JobChunk |-> c[1]],
              job      <- current_job,
              given    <- asked,
              holder   <- [c \in JobChunk |-> Holder(c)],
              reported <- got

\* Connections, lists, timers and saves that fail move chunks between peers,
\* and never lose or double one: each is missing, or to be delivered by one
\* peer, or saved for good; a job is reported when all of it is saved, also
\* when it took the place of another one whose chunks were under way.
ChunksAssigned == Assigned!Spec

(* Liveness.                                                               *)

HeardFrom(p) ==
  \E n \in 1 .. CHUNK_DATA_NUM, hash \in Hash :
    SaveDataPacket(p, n, hash) \/ FinishChunk(p, n, hash)

\* The connection with a peer that crashed, or whose DATA is all lost or
\* useless, is released: one that stays keeps receiving expected packets.
CrashedProviderReleased ==
  \A p \in Peer : []<>~Connected(p) \/ []<><<HeardFrom(p)>>_vars

=============================================================================
