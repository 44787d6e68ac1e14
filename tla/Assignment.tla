----------------------------- MODULE Assignment -----------------------------
(***************************************************************************)
(* What a downloader promises about the chunks of its jobs, without        *)
(* connections, packets and timers: every chunk is missing, or one peer is *)
(* to deliver it, or it is saved, for good.  A peer is given missing       *)
(* chunks only, and a job is reported when all it asked for is saved.      *)
(***************************************************************************)
CONSTANTS
  Peer, Chunk, Job,
  JobOf,               \* JobOf[c]: the job chunk c belongs to
  NoJob,
  Missing, Saved       \* a chunk that no peer holds

VARIABLES
  job,                 \* the job in progress, or NoJob
  given,               \* the jobs asked for so far
  holder,              \* the peer a chunk was given to, Missing or Saved
  reported             \* the jobs reported complete

vars == <<job, given, holder, reported>>

HeldBy(peers) == {c \in Chunk : holder[c] \in peers}

Init ==
  /\ job = NoJob
  /\ given = {}
  /\ holder = [c \in Chunk |-> Missing]
  /\ reported = {}

\* A job may take the place of another: what its peers still hold, they hold.
Start(j) ==
  /\ j \in Job \ given
  /\ job' = j
  /\ given' = given \cup {j}
  /\ UNCHANGED <<holder, reported>>

Give(p, chunks) ==
  /\ \A c \in chunks : holder[c] = Missing /\ JobOf[c] = job
  /\ holder' = [c \in Chunk |-> IF c \in chunks THEN p ELSE holder[c]]
  /\ UNCHANGED <<job, given, reported>>

Save(c) ==
  /\ c \in HeldBy(Peer)
  /\ holder' = [holder EXCEPT ![c] = Saved]
  /\ UNCHANGED <<job, given, reported>>

\* The chunk was delivered and is useless, or could not be saved.
Reject(c) ==
  /\ c \in HeldBy(Peer)
  /\ holder' = [holder EXCEPT ![c] = Missing]
  /\ UNCHANGED <<job, given, reported>>

\* Peers are given up, with everything they hold.
GiveUp(peers) ==
  /\ holder' = [c \in Chunk |-> IF c \in HeldBy(peers) THEN Missing
                                                       ELSE holder[c]]
  /\ UNCHANGED <<job, given, reported>>

Report ==
  /\ job # NoJob
  /\ HeldBy(Peer) = {}
  /\ \A c \in Chunk : JobOf[c] = job => holder[c] = Saved
  /\ reported' = reported \cup {job}
  /\ job' = NoJob
  /\ UNCHANGED <<given, holder>>

Next ==
  \/ \E j \in Job : Start(j)
  \/ \E p \in Peer, chunks \in SUBSET Chunk : Give(p, chunks)
  \/ \E c \in Chunk : Save(c) \/ Reject(c)
  \/ \E peers \in SUBSET Peer : GiveUp(peers)
  \/ Report

Spec == Init /\ [][Next]_vars

=============================================================================
