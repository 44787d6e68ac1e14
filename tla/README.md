# A TLA+ model of the BitTorrent-like peer

This directory specifies the peer of this repository (`peer.c`, `connection.c`,
`control.c`, `job.c`) and the network simulator it is tested with (`hupsim.pl`) in
TLA+, checks the specification with TLC on small instances, and proves the peer's
sender, its list of provider connections, its downloader and its input buffer, and the
routing and the loop of the simulator, correct for every size with TLAPS.

    tlc -config MCProvider.cfg MCProvider     # check one run
    tlapm ProviderProofs.tla                  # check the proofs

`PROJECT.json` lists the runs, the lines of code behind every definition, the
mutants that show each property can fail, the hazards and the findings.

## The system

A node is one process with one thread. `peer_run` waits in `select` for at most
0.3 s, handles at most one UDP packet and the user's input, runs the timers of
all connections, sends at most one DATA packet on each provider connection,
floods WHOHAS every 3 s, and ends the job if nothing is left to do. A node plays
two roles at once, which share only this loop.

| Component | State | Operations | Interacts with |
|---|---|---|---|
| Provider connection (`control.c`, `connection.c`) | window, threshold, status, last packet sent and acknowledged, duplicate count, RTT sample, three instants | opened by GET; ACK; timeout; send; released by the last ACK or by 10 s of silence | the loop; DATA to and ACK from the peer |
| List of provider connections | one connection per peer, `max_conn` at most | search, add, remove | GET is ignored when the peer has one or the list is full |
| Job (`job.c`) | per chunk: status, next sequence number, bytes | started by the user's GET; WHOHAS for chunks not found; finished when nothing is left | one job at a time; a second GET replaces it |
| Receiver connection | list of chunks (the head is downloading), waiting or receiving, three instants | opened or extended by IHAVE; DATA; GET resent after 4 s; cancelled after 10 s | chunk status; GET and ACK to the peer |
| Saving a chunk (`save_chunk`) | the output file | hash check, append, reset of the chunk | the current job's file name |
| Packets (`packet.c`, `job.c`) | none | packing of 74 hashes, byte order, validation | all of the above |
| User input (`input_buffer.c`) | bytes read, how many count | append, hand out the lines, move the rest to the front; exit when full | starts jobs |
| `hupsim.pl` | routing table of every router, a queue per link and direction, when the loop wakes next | computes the tables; receives, forwards, delays, drops | the network between nodes |
| Spiffy sockets (`spiffy.c`) | address of the simulator | adds sender and destination to a packet | every packet goes through the simulator |
| Configuration, hashing, debugging | | | start-up and input/output |

What is hard in it: packets are lost and late; both ends of a transfer time out
independently; DATA names no chunk and a provider keeps its connection when its
receiver has moved on; several peers offer the same chunks; a chunk may fail to
verify or to be saved after it was marked finished; the job may be replaced under
its connections; provider connections are freed while the loop walks their list; in
the simulator, a router that already ran is given packets by one that runs later.

What makes each part correct:

* sender: the window bounds what is in flight, packets go out in order and none
  is skipped, every loss is repaired, window and status follow slow start and
  congestion avoidance, a silent receiver is dropped;
* downloader: a chunk on its way is on exactly one list, data of different
  attempts is not mixed, finished means saved, GOT means complete, what is said to
  peers is true, floods ask for all that is missing, a silent provider is dropped and
  its chunks are found elsewhere;
* provider list: the limit holds, no connection falls off the list or stays on it
  freed, connections do not disturb each other, and places come free;
* protocol: every download ends, only crashed peers are declared crashed, and the
  bytes stored for a chunk belong to it;
* network simulator: packets take shortest ways, stay in order, and leave;
* user input: every line typed is handled once, complete and in order, and the
  program stops only over a line that is too long.

## Modules

    Control --> Provider --> MCProvider
       |  |        \------ implements --> GoBackN (abstract)
       |  |        \<-- implements, for every peer -- ProviderPool --> MCProviderPool
       |  \--------------------------- EXTENDS ---------/
       v
    Swarm <---- Download --> MCDownload
       |            \-- implements --> Assignment (abstract)
       v
    MCSwarm               InputBuffer --> MCInputBuffer
                               \-- implements --> LineReader (abstract)
    Simulator --> MCSimulator
        \-- implements --> Links (abstract): the network Swarm assumes

The proofs are beside the modules they are about:

    ControlProofs --> ProviderProofs         DownloadProofs --> SwarmProofs
          \---------> ProviderPoolProofs                         ^  ^
          \------------------------------------------------------/  |
    NaturalsOrder --> ProviderPoolProofs, DownloadProofs, ---------/
                      InputBufferProofs, SimulatorProofs

* **Control**: `struct provider_connection_s` as a record and each C function
  that changes it as an operator from record to record: `SetRTT`, `DuplicateAck`,
  `ProviderControlByAck`, `ProviderControlByTimeout`, the four increase and
  decrease functions, `SendDataPacket`. A stored instant is modelled by its age,
  which is what `get_time_diff` returns; ages grow with `Elapse` and saturate at
  `MaxAge`, beyond every timeout they are compared with.
* **GoBackN**: the abstract sender: packets 1..N in order, cumulative
  acknowledgement of what was sent, go-back, close.
* **Provider**: one slot of the provider list under the event loop: `Select`,
  `AcceptGet`, `IgnorePacket`, `ReceiveAck`, `ProvidersTimeout`,
  `AllProviderConnectionSendData`. The peer is arbitrary: any GET and any number in an
  ACK at any turn. `GoBackNSender` is the refinement of GoBackN, with
  `acked`, `sent` and `open` read off the connection.
* **ProviderPool**: all provider connections of a node, as cells of a heap linked by
  `next` from `head`. `AcceptGet` is the GET with its two tests (a connection exists,
  the limit is reached) and takes any free cell; the two walks of a turn
  (`ProviderTimeout`, `ProviderSends`) take a step per cell, and the first may remove
  and free the cell it stands on before it reads that cell's `next`.
  `SlotForEveryPeer` says that to each peer the list is the one slot of Provider, so that
  what is checked and proved of the slot holds for every connection of the list.
* **Download**: the downloading half of a node, one action per branch of the
  packet handler and per phase of a turn. Peers are arbitrary here too: any IHAVE
  of a given set, any sequence number, and DATA cut from any chunk. A chunk's bytes
  are the sequence of the hashes of the chunks its packets were cut from, so that
  the SHA-1 check becomes a comparison. Opening the file or `fwrite` may fail.
  `WhoHasPackets` cuts the hashes not found into packets with room for
  `MAX_HASH_LIST_NUM`, and an IHAVE is read up to that number.
* **Assignment**: what the downloader promises: a chunk is missing, or one peer is to
  deliver it, or it is saved for good; only missing chunks of the current job are given
  to a peer; a job is reported when all of it is saved. `ChunksAssigned` reads the
  holder of a chunk off its status and the lists of the connections; a chunk on no list
  or on two would be held by no peer the abstract specification knows.
* **Swarm**: a Download and one sender of Control per provider, joined by FIFO
  links. What the downloader sends is the `out` of its step. A turn of a provider
  is one step. Links lose packets, time may pass while packets are on their way, as long
  as none of them is more than `MaxDelay` ticks late (`to_late` and `from_late` say how late
  each one is), the peers of `MayCrash` may stop, and those of `MayRestart`
  start again without their connections; `MaxFaults` bounds the losses, restarts and late
  ticks of a behaviour together. These are the network's and the environment's and are
  marked external in the map. The user may give a command at any turn.

* **Simulator**: `Visit` and `FillTable` compute the routing tables of all routers, one
  after the other (`createTable`: Dijkstra, whose `predecessor`s are never reset);
  then the loop of `main`: `select` waits for a packet (`Receive`) or for the first
  queued packet to be due (`Wake`), and `Run` lets one router move every packet that is
  due to the next one, which `EnQ`s it or hands it to its node. A router that is given
  packets is appended to the routers that are still to run.
* **Links**: packets of a flow arrive in the order they were sent, each at most once,
  late or never.

* **LineReader**: bytes wait in order and are handled line by line.
* **InputBuffer**: `process_user_input`, one action for the read, one for each line
  handled, one for the return and one for the exit. The buffer has all its bytes,
  also those behind the `cur` that count, and `Shifted` is what `memmove` makes of
  them. `LinesDelivered` is the refinement of LineReader.

* **ControlProofs**: what every function of Control does to a sound connection.
  **ProviderProofs**, **ProviderPoolProofs**, **DownloadProofs**, **SwarmProofs**,
  **InputBufferProofs**, **SimulatorProofs**: the theorems (below). **NaturalsOrder**:
  induction and recursion on the naturals, as lemmas about sets and functions.

`MC*.tla` give the constants their values. Operators whose comment begins with
"Faulty" are the mutants: they are used by no specification, and each is what a
plausible slip in the code would have made of the definition that follows it.

## Runs

| Run | Expect | Question |
|---|---|---|
| `provider` | pass | Sender against an arbitrary receiver: `TypeOK`, `WindowRespected`, `StatusMatchesThreshold`, `InOrder`, `WindowChanges`, `GoBackNSender`; under fairness `CrashedReceiverReleased`, `LossRepaired` |
| `provider_pool` | pass | Three peers compete for one, two or three connections: `ListWellFormed`, `SlotForEveryPeer` (refines Provider for every peer); under fairness `PlacesComeFree` |
| `download` | pass | Downloader against two arbitrary peers: ownership of chunks, partial data, finished chunks, GOT, truth of ACK and GET, `FloodAsksForAll`, `ChunksAssigned` (refines Assignment) |
| `download_jobs` | pass | The same with a second GET, for a file that shares a chunk, during a download and one connection at most; release of silent providers |
| `swarm` | pass | Three faults, each a loss, a restart of the only owner of a chunk or a late tick, and a crash at any moment: the download ends (`DownloadCompletes`); and as long as nothing was lost, no timeout accuses a live peer (`TimeoutNeedsLoss`) and no foreign data is stored (`ForeignDataNeedsLoss`) |
| `simulator` | pass | Two flows through four routers on five maps: `ShortestWays`, `NeverOversleeps`, `KeepsOrder` (refines Links); under fairness `PacketsLeave` |
| `input_buffer` | pass | Lines from a terminal, and several lines at once in up to half the buffer: `NothingLeftBehind`, `LinesDelivered` |
| `input_buffer_pipe` | violation | Several lines at once in more than half the buffer are not delivered right |
| `swarm_lost_ack` | violation | One lost ACK stops a transfer for 10 s |
| `swarm_foreign` | violation | DATA of an old transfer is stored for a new chunk |
| `swarm_twins` | violation | A chunk file with equal chunks never ends |
| `download_order` | violation | The file has chunks in order of arrival |

The violations are disagreements between the code and its documentation, quoted in
`PROJECT.json` under `findings`:

1. *Lost ACK* (`peer.c:153`). An old DATA packet is not acknowledged again. If the
   ACK of the only packet in flight is lost, the sender repeats that packet every
   0.5 s, the receiver ignores it, and both declare the other crashed after 10 s.
   The download recovers by starting the chunk again (`swarm`).
2. *Foreign data* (`peer.c:112`). A receiver that gave up on a slow provider and
   asks it for another chunk is ignored while the provider still has its connection, and
   takes the old chunk's packet 1 for the new chunk's. The hash check finds out at the end.
3. *Equal chunks* (`job.c:307`). Only the first line with a hash is ever found.
4. *File order* (`connection.c:330`). `"a+"` makes `fseek` ineffective. The same line
   takes the file name from the job that is current when a chunk is complete, not from
   the job that asked for it, so that a second GET gets chunks of the first in its file,
   although `readme.txt:39-40` says a job tracks its own chunks.
5. *Stale input* (`input_buffer.c:50`). `memmove` leaves old bytes behind those that
   count, and `strchr` finds an old end of line behind the bytes of the next read. This
   takes several lines that fill more than half the buffer, so a terminal
   does not do it, and a pipe may. In `input_buffer_pipe` a line is handled that
   was not typed and `cur` wraps.

`FinishedIsSaved` and `GotIsComplete` therefore say that every chunk is in a file
as one whole block, not where.

### Bounds

* `provider`: 6 packets, threshold 5, three duplicates. The window passes the
  threshold, grows in congestion avoidance, and is halved to 3 and to 2; each of the
  three timeouts is short of, at, and beyond its limit.
* `provider_pool`: three peers, three cells and a limit of one, two or three: entries are
  removed at the head, in the middle and at the end of the list, several in one walk, and
  their cells used again in another order. Chunks have one packet, windows one or two, and
  the timeouts are 0 and 1: the control of a connection is Provider's concern.
* `download`: three chunks of two packets, two peers: a chunk has a first and a last
  packet, a list has a head, a middle and an end, and peers compete for chunks.
  A packet has room for two hashes: a flood of one, two and three hashes is a packet
  not full, one full, and one full followed by one that is not.
  One partial write per file. Timeouts of 0 and 1 ticks keep GET repetition, crash and
  flood distinct. `download_jobs`: jobs of two chunks and of one, with one hash in
  common, and one connection, so that the limit is met and one connection serves both jobs.
* `Swarm`: two providers that both own one chunk and of which one owns both; 3 (or
  2) packets per chunk, threshold 2. In `swarm` every packet may be one tick late and the crash
  timeout is two, which is the least that `TimeoutNeedsLoss` allows (`Punctual`, below); a GET is
  repeated after two ticks, hashes are flooded after one. Three faults are enough
  for a transfer and its repetition to be disturbed each. One receiver connection at a time keeps the run
  small: several at once are in `download`, and two ask for chunks at once in the proofs.
  `TimeoutNeedsLoss` and `ForeignDataNeedsLoss` are claimed for a network that loses nothing:
  they are not true with a loss (`swarm_lost_ack`, `swarm_foreign`).
* `simulator`: four routers on two lines (one passes the routers out of the order of
  their numbers, so that a router fills a queue of one that already ran), a star, and two
  maps with ways of equal length; sizes 1 and 3, so that a packet may be due before the
  one ahead of it; three packets and room for two in a queue, so that one is dropped. All
  links have one latency and rate.
* `InputBuffer`: 7 bytes, two letters, and every input of up to 7 bytes. A read may
  return at most one line, with nothing behind its end, as a terminal does, or several lines
  as long as the buffer then holds no more than `ManyLinesLimit`. The run
  passes with 4 (half of the buffer and its last byte) and fails with 5;
  `input_buffer_pipe` is a smaller buffer without the limit. `UINT_RANGE` is
  small but larger than twice the buffer, as 2^32 is. Deadlock is not
  checked there, because the program exits when the buffer is full.

### Fairness

The loop has no exit and `select` has a timeout, so that some step is always taken
(`WF_vars(Next)`), and real time passes between turns: `SF_vars(Select(1))` says that
infinitely many of the `select`s that could last a tick do. No fairness is
assumed of the peer's packets: a receiver may be silent for ever. In `Swarm`, turns
that change nothing are left out, a tick passes when nothing else is to be done,
and the fairness is of a step of some node or the clock (`WF_vars(Progress)`); losses,
late ticks and crashes are never forced. In `Simulator` it is of the loop and of time, not of
nodes that send. `PlacesComeFree` has an alternative: a receiver that goes on acknowledging
inside the window keeps its connection by right.

## Proofs

| Module | Theorems (each `Spec => ...`) | Stated in the runs as |
|---|---|---|
| ProviderProofs | `TypeCorrectness`, `WindowIsRespected`, `StatusAgrees`, `SendsInOrder`, `WindowChangesWell`, `ImplementsGoBackN` | `TypeOK`, `WindowRespected`, `StatusMatchesThreshold`, `InOrder`, `WindowChanges`, `GoBackNSender` |
| ProviderPoolProofs | `ListStaysWellFormed`, `EveryPeerHasASlot`, `EveryWindowIsRespected` | `ListWellFormed`, `SlotForEveryPeer` |
| DownloadProofs | `TypeCorrect`, `ChunksHaveOneOwner`, `DataIsOfOneDownload`, `ConnectionsHaveTheirJob`, `FinishedChunksAreSavedOnce`, `ReportedJobsAreComplete`, `PacketsAreTrue`, `FloodsAskForAll`, `ChunksAreAssigned` | `TypeOK`, `ChunkOwnership`, `PartialData`, `ConnectionsNeedJob`, `FinishedIsSaved`, `GotIsComplete`, `SentIsTrue`, `FloodAsksForAll`, `ChunksAssigned` |
| SwarmProofs | `TimeoutNeedsLossHolds`, `ForeignDataNeedsLossHolds` (with `Punctual`) | `TimeoutNeedsLoss`, `ForeignDataNeedsLoss` |
| InputBufferProofs | `TypeCorrect`, `NothingIsLeft`, `LinesAreDelivered` (with `HalfFull`) | `TypeOK`, `NothingLeftBehind`, `LinesDelivered` |
| SimulatorProofs | `SelectIsInTime`, `TablesAreShortest`, `OrderIsKept` | `NeverOversleeps`, `ShortestWays`, `KeepsOrder` |

Each of the first three modules and InputBufferProofs also has its `Invariance`, `Spec => []IInv`,
from which the others follow; SwarmProofs has `SwarmInvariance`, whose invariant contains that of
DownloadProofs, and SimulatorProofs has an invariant for each of its three theorems (`LoopInv`,
`TableInv`, `OrderInv`).

**Assumptions.** `ControlAssumption`: a threshold above the initial window,
positive sizes, an ACK timeout shorter than the crash timeout. `PoolAssumption` and
`DownloadAssumption`: the limits are natural numbers, the peers (`nodes.map` is a file) and
the cells are finitely many with a cell for every connection the limit allows, a packet has room
for a hash, and ages saturate beyond the timeouts. `NoConnectionAssumption`: the
NULL pointer is no connection. `InputBufferAssumption`: the buffer has a byte and the
unsigned integers reach beyond it. `SimulatorAssumption`: maps are connected (`createTable` does not
return for another), there are fewer routers than `$INFINITY`, and `undef` is no number. `SwarmAssumption`: peers own sets of hashes, `DATA` is cut from the chunks that have a hash, a first
window is smaller than a chunk (in the code 1 and 512), and what `DownloadAssumption` says of the same
constants. TLC evaluates all of them in the runs. Two theorem modules have a
hypothesis more, `HalfFull` and `Punctual`, which are discussed there.

**Sender.** `WindowRespected` alone is not inductive. A decrease in congestion avoidance sets
the window to its initial size with packets in flight, and the invariant survives only
because every caller rewinds at once: after the rewind nothing is in flight and the
window is at least one. And the status chooses whether a decrease shrinks the window
at all, so that the agreement of status and threshold and the range of every
field are needed with it. `Sound(c)` is this strengthening as a property of one
record, with the window at least 1; `IInv` says that the connection is sound and its
chunk not yet acknowledged completely. There is a lemma for each function of
`control.c` ("if the argument is sound so is the result, and the positions change like
this"), a lemma for each action, and each theorem follows from `EveryStepIsGood`;
`WindowChanges` needs a lemma more about each function, on how window and threshold move.

**Provider list.** The list is a linked one in a heap, and a statement on every list needs
induction along it. Instead of following pointers, `ListAndWalk` says that there are a number `n`
and a one-to-one `f` from `1 .. n` such that the cells `f[1]`, `f[2]`, ... are the
allocated ones, each points to the next and the last to NULL; adding and removing an entry are then
`AddedList` and `RemovedList` (which gives the new `f`), and that no connection falls off the
list is what they state. `NthIsEntry` shows that following the pointers, as
`ListWellFormed` does, finds `f[i]` in step `i`: the one induction. The invariant has to say
where a walk is too (`Walked`): after `providers_timeout` freed the cell it stands on it
reads `next` of a cell that is no longer on the list, and only the place that cell had tells that
the walk goes on with the rest of the list and leaves out nobody. The refinement then
needs that `search_provider_connection` finds the one cell of a peer (`SearchFinds`),
and that cells of other peers stay as they are (`OneSlot`); with
`EveryPeerHasASlot`, what is proved of Provider holds of every connection in the list, and
`EveryWindowIsRespected` says so of the window.

**Downloader.** The ownership of chunks, the state of the data and the connections need each
other: the DATA handler writes to the chunk at the head of the sender's list without
looking at its status, and only the ownership says that this chunk is the one that is
downloading and that no other list has it. The lists change in three ways, each of them an
operator on lists and statuses with one lemma that ownership survives: a list is extended
or begun (`Extended`, IHAVE), its head leaves it (`Advanced`, a chunk is complete), or whole
lists are given up (`GivenUp`, silent providers). `FinishedIsSaved` and `GotIsComplete` need that a
job is started once and that only a started job has chunks on their way (`JobsAreAsked`), that a
finished chunk has exactly one block (`WrittenOnce`, where a cardinality is replaced by what
it says), and that the block is in the file of its own job unless the job was
replaced (`SavedInOwnFile`). The refinement of Assignment reads the
holder of a chunk off the lists; with ownership it has at most one value, and for each action
that changes a list a lemma says which holders changed. `SentIsTrue` is an action property,
proved action by action. So is `FloodAsksForAll`: the hashes not found are those of an ascending list
of lines of the chunk file (`Ascending`, of which one exists for every set of lines), the cuts of
`WhoHasPackets` lie one behind the other, and so every line is in exactly one packet and all packets but the
last are full.

**Swarm.** DATA does not name its chunk and an ACK does not name its transfer, so that both properties
depend on what the two queues between a downloader and a peer may hold. A transfer is in one
of three stages (`Stage`). `Idle`: the provider has no connection, and the GET is on its way if the
downloader waits. `Serving`: the provider sends the chunk that is awaited; acknowledgements on
their way grow one by one (`Chain`), the last one is what the downloader has or is on its way, and the
last DATA packet sent has been received or is on its way. `Ending`: the downloader has the whole chunk
and its last acknowledgement is on its way; behind it may already be the GET of the next chunk, for
which the provider has no connection yet. In the queue to the downloader, the first packets may be left
over from the transfer before (`Flow`): there is no packet 1 among them, because packet 1 is sent again only
while a first window at most is in flight (`FirstAgain`), and so the downloader, which awaits
packet 1 then, ignores them; behind them are packets of the present chunk that never jump ahead of what was
received (`NoGap`). `ForeignDataNeedsLoss` follows from `Flow`. For `TimeoutNeedsLoss`, `Timely` says
that while nothing is lost nobody waited longer than the packets between the two are late: a node
whose clock runs has a packet on its way to it or from it, because of the stages, and the clock goes on
only while that packet is late. Who awaits an answer has waited for the packet that calls for
it, `MaxDelay` ticks at most, and for the answer, as long again: as long as the first is on its
way the clock of the other side is at most as old as it is late, and when it is handled what is sent
in reply starts with a clock at most `MaxDelay` old. The invariant of the downloader is used through
an instance of DownloadProofs in which peers may offer any hashes; each step of the swarm maps to one of
its actions, and one lemma for each (GET, DATA, IHAVE, ACK, the turns, the clock, a crash, a restart, a loss)
keeps the stages. `Punctual` is `2 * MaxDelay <= PEER_CRASH_TIMEOUT`: each packet may be late by up to half
the crash timeout, however many are. That no packet is later than the whole timeout is not enough,
and `TimeoutNeedsLoss` is false then: a GET that is 6 s late and its DATA that is 6 s late make 12 s of
silence. It is a hypothesis, because the network does not promise it. The conclusion is for any number of
peers, chunks, jobs, crashes and late packets and any timing of them. A restart counts as a
loss in the model (the connections of the peer are lost).

**Input buffer.** `NothingLeftBehind` depends on bytes at and behind `cur`, which do not count
and which `strchr` may yet find. The invariant says that there is no end of line among them
(`NoStaleLine`), no NUL among those that count (`NoEarlyEnd`), no line that waits
outside of the handler (`NoLineWaits`), and that within it the only end of line is the last byte or the
buffer is filled no further than `ManyLinesLimit` (`OneLineOrHalf`). The
last is what makes the first true. `HalfFull` is `2 * ManyLinesLimit <= USERBUF_SIZE + 2`:
what a shift moves to the front then overwrites every end of line that it leaves behind. It is a
hypothesis of the theorems and no assumption, as the code does not ensure it: `input_buffer` has the
largest limit its size allows, TLC finds the invariants violated with one byte more, and
`input_buffer_pipe` and finding 5 show what happens without it. A
terminal, which hands out one line at a time, is `ManyLinesLimit = 0`.

**Simulator.** `NeverOversleeps` is about the moment of `select`, and the invariant about the routers
that run before it. A router's packets may be given to routers that ran already, whose wait
is no longer right; `NobodyForgotten` says that each router is awaited, by the sleep computed so far, or
still on the list of routers to run, and `PassedHas` that a router which gets a packet is put on it.
That `q[1]` is what a router waits for needs that `Ready` is exactly the due head of a queue
(`ReadyIsFirst`) and that packets join at the end (`EnQKeeps`, `QueueAtKeeps`).
For `ShortestWays`, `Searched` is the invariant of Dijkstra's algorithm with stale predecessors: a
router with a distance has a predecessor that is done and nearer by a link, every neighbour of a
router that is done is at most one link further than it, and the routers that are done are the
nearest. It says nothing of the predecessors of routers without a distance, so what the search before
left there does no harm (`StartSearches`). When all are done, a connected map
leaves no router without a distance (`AllAreReached`), distances are those of `Ball` (`BallIsNear`), and
following predecessors back ends next to the router itself (`StartRouteIsNearer`), at a neighbour
from which everything on that way is nearer by one link.

For `KeepsOrder`, `Stages(f)` lists where the packets of a flow can be: the socket, the queues
along its route, and `arrived`. `OrderInv` says that the packets are at these stages only (`OnlyOnRoute`),
and that they are `Ordered`: by their numbers within a stage, and every packet at a later
stage is older than all at an earlier one. The tables are complete before the first packet is
sent, each router sends packets to one that is nearer (`ShortestWays`), and so the routers of a flow
(`Stops`) are a `Route`: they are different up to the destination, which they reach
(`StopsAreRoute`). `Run` takes the due head of each queue of one router and appends it, some packets
lost, to the next stage or to `arrived` (`RunPassesOn`, `RunHandsOver`); `Receive` does
this with the head of the socket. A move of a stage's head to the end of the next one keeps the stages
`Ordered` and makes them no larger (`Shrinks`), and two ordered ways of which the later is made of
packets of the earlier are a step of Links (`StagesPassOn`), because the numbers of packets tell
where each one was.

**Induction.** A theorem with an operator as parameter cannot be used with the
installed provers, so `NaturalsOrder` has the induction rule for sets
(`SetInduction`: a set with 0 and the successor of each of its naturals has all of them) and the
existence of a smallest element (`Smallest`), and says that a recursive function whose
step is given as a function exists (`Recursion`), from which the lemmas on `TotalSize`, `Of`, `QueueAt` and
`FlattenSeq` begin.

**Model-checked only.** Liveness (`CrashedReceiverReleased`, `LossRepaired`, `PlacesComeFree`,
`CrashedProviderReleased`, `DownloadCompletes`, `PacketsLeave`), which the prover does not
do (nor `ENABLED`, which fairness needs).

## Abstractions

* *One slot per provider* in Provider and Swarm. `SlotForEveryPeer` justifies it; in
  Swarm a provider has one peer that asks, so that the limit is not met there, and
  `HandleInbound` leaves out the test of it (`peer.c:117`).
* *Full packets.* Every DATA packet has 1024 bytes, as `send_data_packet` sends
  them; received bytes are then counted by packets.
* *Freed connections.* `providers_timeout` and `receivers_timeout` read `next` of
  a connection that was just freed. The modules take the value to be intact: `free` of
  the C library writes to the first 16 bytes of a block, `next` is the last field of
  either structure, and nothing is allocated before the read. ProviderPool has the cells
  and their pointers; the receivers' list, which has the same code, is a function from
  peers in Download. `malloc` does not fail.
* *Peers are told apart.* `search_bt_peer` compares ports only; the peers of `nodes.map`
  have different ones.
* *Simulator.* The loop takes no time; a map is connected and every packet is for a node
  of `nodes.map` (otherwise the packet is dropped, and `createTable` does not return: the test for
  a router without predecessor, `hupsim.pl:280`, comes after a look-up that gives it one);
  the sizes and rates are such that instants are whole ticks.
* *Loading a chunk* succeeds or fails as a whole in Provider; in Swarm an owner's files can
  always be read, without which no download need end. (`job.c:97` leaves the data file open
  when it is too short; open files are not counted.)
* *The clock* runs and does not jump, although `gettimeofday` might.
* *Input bytes.* The input has no NUL, and a failing `read` is one that returns nothing.
* *One command per turn.* Several lines read at once are several jobs in successive
  turns.
* *Uninitialised instants* (`last_data_time`, `RTT_data_sent_time`) are not read
  before they are stored; their first value is immaterial.
* Not modelled: SHA-1 and hexadecimal conversion, configuration, the Spiffy header,
  debugging output, the window log, the sample programs, the statistics of `hupsim.pl`.

## Plan

Done: Control, GoBackN, Provider; ProviderPool; Download with the packing
of hashes, Assignment; Swarm; Simulator, Links; LineReader, InputBuffer; and the proofs of
all safety properties.

Left: liveness, which is model-checked on the small instances only.
