--------------------------- MODULE DownloadProofs ---------------------------
(***************************************************************************)
(* What holds of the downloader for any number of peers, jobs and chunks,  *)
(* whatever packets reach it and however the saves fail: the types, who    *)
(* owns a chunk, what partial data is kept, what is in the files.          *)
(*                                                                         *)
(* The lists of the connections are reasoned about as plain functions: a   *)
(* handler extends one of them, takes the head of one, or gives some up,   *)
(* and keeps Owned (OwnedExtended, OwnedAdvanced, OwnedGivenUp).  Then one *)
(* lemma for each action shows that it keeps the invariant, IInv.          *)
(*                                                                         *)
(* From the invariant follows what the steps do: the packets they send are *)
(* true (SentIsTrue), a flood asks for everything that is not found, once  *)
(* (FloodAsksForAll), and each step is one of the assignment of chunks to  *)
(* peers, Assignment, or leaves it alone (ChunksAssigned).  The end says   *)
(* what each step changes of the transfer from one peer.                   *)
(***************************************************************************)
EXTENDS Download, NaturalsOrder, SequenceTheorems, FunctionTheorems,
        FiniteSetTheorems, TLAPS

\* The lists of the connections, as one function.
Lists == [p \in Peer |-> List(p)]

\* ChunkOwnership, of any lists and any status: no place of the lists has
\* the chunk of another place, and the status of a chunk tells its place.
Owned(L, st) ==
  /\ \A p, q \in Peer : \A i \in 1 .. Len(L[p]), j \in 1 .. Len(L[q]) :
       L[p][i] = L[q][j] => p = q /\ i = j
  /\ \A c \in JobChunk :
       st[c] \in {"pending", "downloading"} =>
         \E p \in Peer : \E i \in 1 .. Len(L[p]) : L[p][i] = c
  /\ \A p \in Peer : \A i \in 1 .. Len(L[p]) :
       st[L[p][i]] = IF i = 1 THEN "downloading" ELSE "pending"

\* A connection lasts while its list does.
HasChunks == \A p \in Peer : Connected(p) => connection[p].chunks # <<>>

Ownership == HasChunks /\ Owned(Lists, status)

\* A job is given at most once, and only its own GET makes its chunks move.
JobsAreAsked ==
  /\ current_job # NoJob => current_job \in asked
  /\ \A c \in JobChunk : status[c] # "not_found" => c[1] \in asked

WholeBlock(c) == [chunk |-> c, whole |-> TRUE]

\* FinishedIsSaved, without counting.
WrittenOnce ==
  \A c \in JobChunk :
    IF status[c] = "finished" THEN \E b \in WholeBlocks(c) : WholeBlocks(c) = {b}
                              ELSE WholeBlocks(c) = {}

\* A chunk that is saved while its own job is in progress is saved in the
\* file of that job; one of a job that was replaced is not.
SavedInOwnFile ==
  \A c \in JobChunk :
    c[1] = current_job /\ status[c] = "finished" =>
      \E k \in DOMAIN file[current_job] : file[current_job][k] = WholeBlock(c)

BlocksSaved == WrittenOnce /\ SavedInOwnFile /\ GotIsComplete

\* The inductive invariant.
IInv ==
  /\ TypeOK
  /\ Ownership
  /\ PartialData
  /\ ConnectionsNeedJob
  /\ JobsAreAsked
  /\ BlocksSaved

-----------------------------------------------------------------------------
\* Chunks that are not found yet, the sequence q, go to the end of one list.
Extended(L, st, p, q, M, st2) ==
  /\ \A i, j \in 1 .. Len(q) : q[i] = q[j] => i = j
  /\ \A i \in 1 .. Len(q) : st[q[i]] = "not_found"
  /\ M = [L EXCEPT ![p] = @ \o q]
  /\ \A i \in 1 .. Len(q) :
       st2[q[i]] = IF L[p] = <<>> /\ i = 1 THEN "downloading" ELSE "pending"
  /\ \A c \in JobChunk :
       (\A i \in 1 .. Len(q) : q[i] # c) => st2[c] = st[c]

\* The head of one list leaves it, and the chunk behind it takes its turn.
Advanced(L, st, p, M, st2) ==
  /\ L[p] # <<>>
  /\ M = [L EXCEPT ![p] = Tail(@)]
  /\ st2[L[p][1]] \notin {"pending", "downloading"}
  /\ Len(L[p]) > 1 => st2[L[p][2]] = "downloading"
  /\ \A c \in JobChunk :
       c # L[p][1] /\ (Len(L[p]) > 1 => c # L[p][2]) => st2[c] = st[c]

\* Some lists are given up, and so are all their chunks.
GivenUp(L, st, gone, M, st2) ==
  /\ M = [o \in Peer |-> IF o \in gone THEN <<>> ELSE L[o]]
  /\ \A o \in Peer \cap gone : \A i \in 1 .. Len(L[o]) :
       st2[L[o][i]] \notin {"pending", "downloading"}
  /\ \A c \in JobChunk :
       (\A o \in Peer \cap gone : \A i \in 1 .. Len(L[o]) : L[o][i] # c)
         => st2[c] = st[c]

\* Chunks that were in no list keep the lists owned when they join one.
LEMMA OwnedExtended ==
  ASSUME NEW L \in [Peer -> Seq(JobChunk)],
         NEW st \in [JobChunk -> CHUNK_STATUS],
         Owned(L, st),
         NEW p \in Peer,
         NEW q \in Seq(JobChunk),
         NEW M, NEW st2,
         Extended(L, st, p, q, M, st2)
  PROVE  Owned(M, st2)
<1>0. /\ \A i, j \in 1 .. Len(q) : q[i] = q[j] => i = j
      /\ \A i \in 1 .. Len(q) : st[q[i]] = "not_found"
      /\ M = [L EXCEPT ![p] = @ \o q]
      /\ \A i \in 1 .. Len(q) :
           st2[q[i]] = IF L[p] = <<>> /\ i = 1 THEN "downloading" ELSE "pending"
      /\ \A c \in JobChunk :
           (\A i \in 1 .. Len(q) : q[i] # c) => st2[c] = st[c]
  BY DEF Extended
<1> DEFINE n == Len(L[p])
<1>1. /\ L[p] \in Seq(JobChunk)
      /\ n \in Nat
      /\ Len(q) \in Nat
      /\ L[p] = <<>> <=> n = 0
  BY SMT
<1>2. /\ M \in [Peer -> Seq(JobChunk)]
      /\ Len(M[p]) = n + Len(q)
      /\ \A i \in 1 .. n : M[p][i] = L[p][i]
      /\ \A i \in 1 .. Len(q) : M[p][n + i] = q[i]
      /\ \A o \in Peer : o # p => M[o] = L[o]
  BY <1>0, <1>1, ConcatProperties, SMT
<1>3. /\ \A o \in Peer : Len(L[o]) \in Nat
      /\ \A o \in Peer : \A i \in 1 .. Len(L[o]) :
           L[o][i] \in JobChunk /\ st[L[o][i]] # "not_found"
  BY SMT DEF Owned
\* A place of the new lists is a place of the old ones, or one of q.
<1>4. \A o \in Peer : \A i \in 1 .. Len(M[o]) :
        \/ i \in 1 .. Len(L[o]) /\ M[o][i] = L[o][i]
        \/ /\ o = p
           /\ i \in n + 1 .. n + Len(q)
           /\ i - n \in 1 .. Len(q)
           /\ M[p][i] = q[i - n]
  <2> TAKE o \in Peer
  <2> TAKE i \in 1 .. Len(M[o])
  <2>1. CASE o # p
    BY <1>2, <2>1
  <2>2. CASE o = p /\ i <= n
    BY <1>1, <1>2, <2>2, SMT
  <2>3. CASE o = p /\ i > n
    <3>1. i - n \in 1 .. Len(q) /\ i = n + (i - n)
      BY <1>1, <1>2, <2>3, SMT
    <3>2. M[p][n + (i - n)] = q[i - n]
      BY <1>2, <3>1
    <3>3. i \in n + 1 .. n + Len(q)
      BY <1>1, <3>1, SMT
    <3> QED
      BY <2>3, <3>1, <3>2, <3>3
  <2> QED
    BY <1>1, <1>2, <2>1, <2>2, <2>3, SMT
<1> HIDE DEF n
<1>5. ASSUME NEW a \in Peer, NEW b \in Peer,
             NEW i \in 1 .. Len(M[a]), NEW j \in 1 .. Len(M[b]),
             M[a][i] = M[b][j]
      PROVE  a = b /\ i = j
  <2>1. CASE /\ i \in 1 .. Len(L[a]) /\ M[a][i] = L[a][i]
             /\ j \in 1 .. Len(L[b]) /\ M[b][j] = L[b][j]
    BY <1>0, <1>5, <2>1 DEF Owned
  <2>2. CASE /\ i \in 1 .. Len(L[a]) /\ M[a][i] = L[a][i]
             /\ ~(j \in 1 .. Len(L[b]) /\ M[b][j] = L[b][j])
    <3>1. j - n \in 1 .. Len(q) /\ M[b][j] = q[j - n]
      BY <1>4, <2>2
    <3> QED
      BY <1>0, <1>3, <1>5, <2>2, <3>1
  <2>3. CASE /\ ~(i \in 1 .. Len(L[a]) /\ M[a][i] = L[a][i])
             /\ j \in 1 .. Len(L[b]) /\ M[b][j] = L[b][j]
    <3>1. i - n \in 1 .. Len(q) /\ M[a][i] = q[i - n]
      BY <1>4, <2>3
    <3> QED
      BY <1>0, <1>3, <1>5, <2>3, <3>1
  <2>4. CASE /\ ~(i \in 1 .. Len(L[a]) /\ M[a][i] = L[a][i])
             /\ ~(j \in 1 .. Len(L[b]) /\ M[b][j] = L[b][j])
    <3>1. /\ a = p /\ i \in n + 1 .. n + Len(q)
          /\ i - n \in 1 .. Len(q) /\ M[a][i] = q[i - n]
      BY <1>4, <2>4
    <3>2. /\ b = p /\ j \in n + 1 .. n + Len(q)
          /\ j - n \in 1 .. Len(q) /\ M[b][j] = q[j - n]
      BY <1>4, <2>4
    <3>3. i - n = j - n
      BY <1>0, <1>5, <3>1, <3>2
    <3> QED
      BY <1>0, <1>1, <3>1, <3>2, <3>3, SMT
  <2> QED
    BY <1>0, <2>1, <2>2, <2>3, <2>4
<1>6. ASSUME NEW c \in JobChunk, st2[c] \in {"pending", "downloading"}
      PROVE  \E o \in Peer : \E i \in 1 .. Len(M[o]) : M[o][i] = c
  <2>1. CASE \E i \in 1 .. Len(q) : q[i] = c
    <3>1. PICK i \in 1 .. Len(q) : q[i] = c
      BY <1>0, <2>1
    <3>2. n + i \in 1 .. Len(M[p]) /\ M[p][n + i] = c
      BY <1>0, <1>1, <1>2, <3>1, SMT
    <3> QED
      BY <1>0, <3>2
  <2>2. CASE \A i \in 1 .. Len(q) : q[i] # c
    <3>1. st[c] \in {"pending", "downloading"}
      BY <1>0, <1>6, <2>2
    <3>2. PICK o \in Peer : \E i \in 1 .. Len(L[o]) : L[o][i] = c
      BY <1>0, <3>1 DEF Owned
    <3>3. PICK i \in 1 .. Len(L[o]) : L[o][i] = c
      BY <1>0, <3>2
    <3>4. i \in 1 .. Len(M[o]) /\ M[o][i] = c
      BY <1>0, <1>1, <1>2, <1>3, <3>3, SMT DEF n
    <3> QED
      BY <1>0, <3>4
  <2> QED
    BY <1>0, <2>1, <2>2
<1>7. ASSUME NEW o \in Peer, NEW i \in 1 .. Len(M[o])
      PROVE  st2[M[o][i]] = IF i = 1 THEN "downloading" ELSE "pending"
  <2>1. CASE i \in 1 .. Len(L[o]) /\ M[o][i] = L[o][i]
    <3>1. \A k \in 1 .. Len(q) : q[k] # M[o][i]
      BY <1>0, <1>3, <2>1
    <3>2. st2[M[o][i]] = st[L[o][i]]
      BY <1>0, <1>3, <2>1, <3>1
    <3> QED
      BY <1>0, <2>1, <3>2 DEF Owned
  <2>2. CASE ~(i \in 1 .. Len(L[o]) /\ M[o][i] = L[o][i])
    <3>1. /\ i \in n + 1 .. n + Len(q)
          /\ i - n \in 1 .. Len(q) /\ M[o][i] = q[i - n]
      BY <1>4, <2>2
    <3>2. i = 1 <=> L[p] = <<>> /\ i - n = 1
      BY <1>0, <1>1, <3>1, SMT
    <3> QED
      BY <1>0, <3>1, <3>2
  <2> QED
    BY <1>0, <2>1, <2>2
<1> QED
  BY <1>5, <1>6, <1>7 DEF Owned

\* The chunk behind the head becomes the one that is downloaded.
LEMMA OwnedAdvanced ==
  ASSUME NEW L \in [Peer -> Seq(JobChunk)],
         NEW st \in [JobChunk -> CHUNK_STATUS],
         Owned(L, st),
         NEW p \in Peer,
         NEW M, NEW st2,
         Advanced(L, st, p, M, st2)
  PROVE  Owned(M, st2)
<1>0. /\ L[p] # <<>>
      /\ M = [L EXCEPT ![p] = Tail(@)]
      /\ st2[L[p][1]] \notin {"pending", "downloading"}
      /\ Len(L[p]) > 1 => st2[L[p][2]] = "downloading"
      /\ \A c \in JobChunk :
           c # L[p][1] /\ (Len(L[p]) > 1 => c # L[p][2]) => st2[c] = st[c]
  BY DEF Advanced
<1> DEFINE n == Len(L[p])
<1>1. /\ L[p] \in Seq(JobChunk)
      /\ n \in Nat \ {0}
  BY <1>0, SMT
<1>2. /\ Len(M[p]) = n - 1
      /\ \A i \in 1 .. n - 1 : M[p][i] = L[p][i + 1]
      /\ \A o \in Peer : o # p => M[o] = L[o]
  BY <1>0, <1>1, HeadTailProperties, SMT
<1>3. /\ \A o \in Peer : Len(L[o]) \in Nat
      /\ \A o \in Peer : \A i \in 1 .. Len(L[o]) : L[o][i] \in JobChunk
  BY SMT
\* Where a place of the new lists was before.
<1> DEFINE was(o, i) == IF o = p THEN i + 1 ELSE i
<1>4. \A o \in Peer : \A i \in 1 .. Len(M[o]) :
        /\ was(o, i) \in 1 .. Len(L[o])
        /\ M[o][i] = L[o][was(o, i)]
        /\ o = p => was(o, i) # 1
  BY <1>1, <1>2, <1>3, SMT
<1>5. ASSUME NEW a \in Peer, NEW b \in Peer,
             NEW i \in 1 .. Len(M[a]), NEW j \in 1 .. Len(M[b]),
             M[a][i] = M[b][j]
      PROVE  a = b /\ i = j
  <2>1. a = b /\ was(a, i) = was(b, j)
    BY <1>0, <1>3, <1>4, <1>5 DEF Owned
  <2>2. i \in Int /\ j \in Int
    BY <1>1, <1>2, <1>3
  <2> QED
    BY <2>1, <2>2
<1>6. ASSUME NEW c \in JobChunk, st2[c] \in {"pending", "downloading"}
      PROVE  \E o \in Peer : \E i \in 1 .. Len(M[o]) : M[o][i] = c
  <2>1. CASE n > 1 /\ c = L[p][2]
    <3>1. 1 \in 1 .. Len(M[p]) /\ M[p][1] = c
      BY <1>0, <1>1, <1>2, <2>1, SMT
    <3> QED
      BY <1>0, <3>1
  <2>2. CASE ~(n > 1 /\ c = L[p][2])
    <3>1. c # L[p][1] /\ st[c] \in {"pending", "downloading"}
      BY <1>0, <1>6, <2>2
    <3>2. PICK o \in Peer : \E i \in 1 .. Len(L[o]) : L[o][i] = c
      BY <1>0, <3>1 DEF Owned
    <3>3. PICK i \in 1 .. Len(L[o]) : L[o][i] = c
      BY <1>0, <3>2
    <3>4. CASE o # p
      BY <1>0, <1>2, <3>3, <3>4
    <3>5. CASE o = p
      <4>1. i # 1
        BY <1>0, <3>1, <3>3, <3>5
      <4>2. i - 1 \in 1 .. Len(M[p]) /\ M[p][i - 1] = c
        BY <1>0, <1>1, <1>2, <3>3, <3>5, <4>1, SMT
      <4> QED
        BY <1>0, <4>2
    <3> QED
      BY <1>0, <3>4, <3>5
  <2> QED
    BY <1>0, <2>1, <2>2
<1>7. ASSUME NEW o \in Peer, NEW i \in 1 .. Len(M[o])
      PROVE  st2[M[o][i]] = IF i = 1 THEN "downloading" ELSE "pending"
  <2>1. /\ was(o, i) \in 1 .. Len(L[o])
        /\ M[o][i] = L[o][was(o, i)]
        /\ M[o][i] \in JobChunk
        /\ i \in Int
    BY <1>0, <1>1, <1>2, <1>3, <1>4
  <2>2. CASE o = p /\ i = 1
    BY <1>0, <1>1, <1>2, <2>1, <2>2, SMT
  <2>3. CASE ~(o = p /\ i = 1)
    <3>1. M[o][i] # L[p][1]
      BY <1>0, <1>1, <1>4, <2>1 DEF Owned
    <3>2. n > 1 => M[o][i] # L[p][2]
      <4> SUFFICES ASSUME n > 1 PROVE M[o][i] # L[p][2]
        OBVIOUS
      <4>1. was(o, i) = 2 => o # p
        BY <1>0, <2>1, <2>3
      <4>2. 2 \in 1 .. Len(L[p])
        BY <1>0, <1>1
      <4> QED
        BY <1>0, <2>1, <4>1, <4>2 DEF Owned
    <3>3. st2[M[o][i]] = st[L[o][was(o, i)]]
      BY <1>0, <2>1, <3>1, <3>2
    <3>4. st[L[o][was(o, i)]] = IF was(o, i) = 1 THEN "downloading"
                                                 ELSE "pending"
      BY <1>0, <2>1 DEF Owned
    <3>5. was(o, i) = 1 <=> i = 1
      BY <1>0, <1>4, <2>1, <2>3
    <3> QED
      BY <1>0, <3>3, <3>4, <3>5
  <2> QED
    BY <1>0, <2>2, <2>3
<1> QED
  BY <1>5, <1>6, <1>7 DEF Owned

\* No other list had a chunk of those that are given up.
LEMMA OwnedGivenUp ==
  ASSUME NEW L \in [Peer -> Seq(JobChunk)],
         NEW st \in [JobChunk -> CHUNK_STATUS],
         Owned(L, st),
         NEW gone, NEW M, NEW st2,
         GivenUp(L, st, gone, M, st2)
  PROVE  Owned(M, st2)
<1>0. /\ M = [o \in Peer |-> IF o \in gone THEN <<>> ELSE L[o]]
      /\ \A o \in Peer \cap gone : \A i \in 1 .. Len(L[o]) :
           st2[L[o][i]] \notin {"pending", "downloading"}
      /\ \A c \in JobChunk :
           (\A o \in Peer \cap gone : \A i \in 1 .. Len(L[o]) : L[o][i] # c)
             => st2[c] = st[c]
  BY DEF GivenUp
<1>1. /\ \A o \in Peer : Len(L[o]) \in Nat
      /\ \A o \in Peer : \A i \in 1 .. Len(L[o]) : L[o][i] \in JobChunk
  BY SMT
<1>2. \A o \in Peer : \A i \in 1 .. Len(M[o]) :
        /\ o \notin gone
        /\ M[o] = L[o]
        /\ i \in 1 .. Len(L[o])
  BY <1>0, SMT
<1>3. ASSUME NEW a \in Peer, NEW b \in Peer,
             NEW i \in 1 .. Len(M[a]), NEW j \in 1 .. Len(M[b]),
             M[a][i] = M[b][j]
      PROVE  a = b /\ i = j
  BY <1>2, <1>3 DEF Owned
<1>4. ASSUME NEW c \in JobChunk, st2[c] \in {"pending", "downloading"}
      PROVE  \E o \in Peer : \E i \in 1 .. Len(M[o]) : M[o][i] = c
  <2>1. \A o \in Peer \cap gone : \A i \in 1 .. Len(L[o]) : L[o][i] # c
    BY <1>0, <1>4
  <2>2. st[c] \in {"pending", "downloading"}
    BY <1>0, <1>4, <2>1
  <2>3. PICK o \in Peer : \E i \in 1 .. Len(L[o]) : L[o][i] = c
    BY <1>0, <2>2 DEF Owned
  <2>4. M[o] = L[o]
    BY <1>0, <2>1, <2>3
  <2> QED
    BY <1>0, <2>3, <2>4
<1>5. ASSUME NEW o \in Peer, NEW i \in 1 .. Len(M[o])
      PROVE  st2[M[o][i]] = IF i = 1 THEN "downloading" ELSE "pending"
  <2>1. o \notin gone /\ M[o] = L[o] /\ i \in 1 .. Len(L[o])
    BY <1>0, <1>2
  <2>2. \A a \in Peer \cap gone : \A j \in 1 .. Len(L[a]) : L[a][j] # L[o][i]
    BY <1>0, <2>1 DEF Owned
  <2>3. st2[L[o][i]] = st[L[o][i]]
    BY <1>0, <1>1, <2>1, <2>2
  <2> QED
    BY <1>0, <2>1, <2>3 DEF Owned
<1> QED
  BY <1>3, <1>4, <1>5 DEF Owned

-----------------------------------------------------------------------------
\* What an IHAVE offers are finitely many chunks of the job in progress.
LEMMA WantedIsFinite ==
  ASSUME NEW hashes
  PROVE  /\ IsFiniteSet(Wanted(hashes))
         /\ \A c \in Wanted(hashes) :
              /\ c \in JobChunk
              /\ c[1] = current_job
              /\ current_job \in JobId
              /\ status[c] = "not_found"
<1>1. \A c \in JobChunk :
        c[1] \in JobId /\ c \in {c[1]} \X (1 .. Len(HashOf[c[1]]))
  BY DEF JobChunk
<1>2. \A c \in Wanted(hashes) :
        c \in JobChunk /\ c[1] = current_job /\ status[c] = "not_found"
  BY DEF Wanted, Named, IsGetChunk
<1>3. CASE current_job \notin JobId
  <2>1. Wanted(hashes) = {}
    BY <1>1, <1>2, <1>3
  <2> QED
    BY <2>1, FS_EmptySet
<1>4. CASE current_job \in JobId
  <2> DEFINE all == {current_job} \X (1 .. Len(HashOf[current_job]))
  <2>1. Len(HashOf[current_job]) \in Nat
    BY <1>4, DownloadAssumption, LenProperties
  <2>2. IsFiniteSet({current_job}) /\ IsFiniteSet(1 .. Len(HashOf[current_job]))
    <3>1. 1 \in Int /\ Len(HashOf[current_job]) \in Int
      BY <2>1
    <3>2. IsFiniteSet(1 .. Len(HashOf[current_job]))
      BY <3>1, FS_Interval
    <3> QED
      BY <3>2, FS_Singleton
  <2>3. IsFiniteSet(all)
    BY <2>2, FS_Product
  <2>4. Wanted(hashes) \in SUBSET all
    <3> SUFFICES ASSUME NEW c \in Wanted(hashes)
                 PROVE  c \in all
      OBVIOUS
    <3>1. c \in JobChunk /\ c[1] = current_job
      BY <1>2
    <3> QED
      BY <1>1, <3>1
  <2> QED
    BY <1>2, <1>4, <2>3, <2>4, FS_Subset
<1> QED
  BY <1>3, <1>4

\* The chunks that are appended to a list are those offered and wanted, each
\* once, although a packet may name a chunk several times.
LEMMA SelectionIsWanted ==
  ASSUME NEW hashes \in Seq(Hash), NEW q \in Selection(hashes)
  PROVE  /\ q \in Seq(JobChunk)
         /\ \A i, j \in 1 .. Len(q) : q[i] = q[j] => i = j
         /\ \A i \in 1 .. Len(q) : q[i] \in Wanted(hashes)
         /\ \A c \in Wanted(hashes) : \E i \in 1 .. Len(q) : q[i] = c
<1> DEFINE W == Wanted(hashes)
           n == Cardinality(W)
<1>1. IsFiniteSet(W) /\ W \subseteq JobChunk /\ n \in Nat
  BY WantedIsFinite, FS_CardinalityType
<1>2. /\ q \in [1 .. n -> W]
      /\ \A a, b \in 1 .. n : a < b => Before(hashes, q[a], q[b])
  BY DEF Selection
<1>3. \A c : ~Before(hashes, c, c)
  <2>1. \A k \in DOMAIN hashes : k \in Nat
    BY LenProperties
  <2> QED
    BY <2>1, SMT DEF Before, Named, Listed
<1>4. q \in Seq(W) /\ Len(q) = n /\ DOMAIN q = 1 .. n
  BY <1>1, <1>2, SMT
<1> HIDE DEF W, n
<1>5. \A i, j \in 1 .. n : q[i] = q[j] => i = j
  <2> SUFFICES ASSUME NEW i \in 1 .. n, NEW j \in 1 .. n, q[i] = q[j], i # j
               PROVE  FALSE
    OBVIOUS
  <2>1. i < j \/ j < i
    BY <1>1, SMT
  <2> QED
    BY <1>2, <1>3, <2>1
<1>6. q \in Surjection(1 .. n, W)
  <2>1. q \in Injection(1 .. n, W)
    BY <1>2, <1>5, Fun_IsInj
  <2>2. Cardinality(1 .. n) = Cardinality(W)
    BY <1>1, FS_Interval DEF n
  <2> QED
    BY <1>1, <2>1, <2>2, FS_Injection
<1>7. \A c \in W : \E i \in 1 .. n : q[i] = c
  BY <1>6 DEF Surjection
<1> QED
  BY <1>1, <1>2, <1>4, <1>5, <1>7, SeqMonotonic DEF W

-----------------------------------------------------------------------------
(* The steps of the loop: each keeps the invariant.                        *)

\* The types, and what the rest of the invariant says of a list.
LEMMA ListsOfChunks ==
  ASSUME TypeOK
  PROVE  /\ Lists \in [Peer -> Seq(JobChunk)]
         /\ \A p \in Peer : Lists[p] = List(p)
         /\ \A p \in Peer : Connected(p) => /\ connection[p] \in ReceiverConnection
                                            /\ connection[p].chunks \in Seq(JobChunk)
                                            /\ List(p) = connection[p].chunks
         /\ \A p \in Peer : ~Connected(p) => List(p) = <<>>
<1>1. \A p \in Peer : Connected(p) => connection[p] \in ReceiverConnection
  BY DEF TypeOK, Connected
<1>2. \A rc \in ReceiverConnection : rc.chunks \in Seq(JobChunk)
  BY DEF ReceiverConnection
<1>3. \A p \in Peer : List(p) \in Seq(JobChunk)
  BY <1>1, <1>2 DEF List
<1> QED
  BY <1>1, <1>2, <1>3 DEF Lists, List

\* Peers are counted.
LEMMA PeersCounted ==
  ASSUME NEW S \in SUBSET Peer
  PROVE  /\ IsFiniteSet(S)
         /\ Cardinality(S) \in Nat
         /\ Cardinality(S) = 0 <=> S = {}
<1>1. IsFiniteSet(S)
  BY DownloadAssumption, FS_Subset
<1> QED
  BY <1>1, FS_CardinalityType, FS_EmptySet

\* What a receiver connection is open for: the job in progress.
LEMMA ConnectionsHaveJob ==
  ASSUME IInv
  PROVE  /\ ConnectionNumber \in Nat
         /\ ConnectionNumber = 0 <=> \A p \in Peer : ~Connected(p)
         /\ (\E p \in Peer : Connected(p)) => current_job \in JobId
<1>1. /\ ConnectionNumber \in Nat
      /\ ConnectionNumber = 0 <=> {p \in Peer : Connected(p)} = {}
  BY PeersCounted DEF ConnectionNumber
<1>2. {p \in Peer : Connected(p)} # {} => ConnectionNumber > 0
  BY <1>1
<1> QED
  BY <1>1, <1>2 DEF IInv, TypeOK, ConnectionsNeedJob

\* The chunk at the head of a list is being downloaded.
LEMMA HeadIsDownloading ==
  ASSUME IInv, NEW p \in Peer, Connected(p)
  PROVE  /\ Downloading(p) \in JobChunk
         /\ Len(Lists[p]) \in Nat \ {0}
         /\ Downloading(p) = Lists[p][1]
         /\ status[Downloading(p)] = "downloading"
         /\ current_job \in JobId
<1>1. /\ Lists[p] = connection[p].chunks
      /\ Lists[p] \in Seq(JobChunk)
      /\ Lists[p] # <<>>
  BY ListsOfChunks DEF IInv, Ownership, HasChunks
<1>2. /\ Head(Lists[p]) \in JobChunk
      /\ Len(Lists[p]) \in Nat \ {0}
      /\ Head(Lists[p]) = Lists[p][1]
  BY <1>1, SMT
<1>3. status[Lists[p][1]] = "downloading"
  BY <1>1, <1>2, SMT DEF IInv, Ownership, Owned
<1>4. current_job \in JobId
  BY ConnectionsHaveJob
<1> QED
  BY <1>1, <1>2, <1>3, <1>4 DEF Downloading

\* A step that changes neither what the job nor what the connections are
\* about.
LEMMA QuietStep ==
  ASSUME IInv,
         pc' \in {"select", "packet", "input", "timeouts", "finish"},
         UNCHANGED <<job_vars, chunk_vars, connection, since_flood, file>>
  PROVE  IInv'
<1> USE DEF job_vars, chunk_vars
<1>1. TypeOK'
  BY DEF IInv, TypeOK
<1>2. Ownership'
  BY DEF IInv, Ownership, HasChunks, Owned, Lists, List, Connected
<1>3. PartialData'
  BY DEF IInv, PartialData, Connected, Downloading
<1>4. ConnectionsNeedJob' /\ JobsAreAsked'
  BY DEF IInv, ConnectionsNeedJob, ConnectionNumber, Connected, JobsAreAsked
<1>5. BlocksSaved'
  BY DEF IInv, BlocksSaved, WrittenOnce, WholeBlocks, SavedInOwnFile,
         GotIsComplete
<1> QED
  BY <1>1, <1>2, <1>3, <1>4, <1>5 DEF IInv

\* No list changes, whatever else becomes of the connections.
LEMMA ListsKept ==
  ASSUME IInv,
         status' = status,
         \A p \in Peer : Connected(p)' <=> Connected(p),
         \A p \in Peer : Connected(p) =>
           connection'[p].chunks = connection[p].chunks
  PROVE  Ownership'
<1>1. Lists' = Lists
  <2>1. \A p \in Peer : List(p)' = List(p)
    BY DEF List
  <2> QED
    BY <2>1 DEF Lists
<1> QED
  BY <1>1 DEF IInv, Ownership, HasChunks, Owned

\* No connection is opened and the job stays.
LEMMA NoNewConnection ==
  ASSUME IInv,
         current_job' = current_job,
         \A p \in Peer : Connected(p)' => Connected(p)
  PROVE  ConnectionsNeedJob'
<1> DEFINE old == {p \in Peer : Connected(p)}
           new == {p \in Peer : Connected(p)'}
<1>1. /\ IsFiniteSet(old) /\ new \in SUBSET old
      /\ Cardinality(old) \in Nat
      /\ Cardinality(new) \in Nat
      /\ Cardinality(new) = 0 <=> new = {}
      /\ Cardinality(old) = 0 <=> old = {}
  BY PeersCounted
<1>2. Cardinality(new) <= Cardinality(old)
  BY <1>1, FS_Subset
<1>3. ConnectionNumber = Cardinality(old) /\ ConnectionNumber' = Cardinality(new)
  BY DEF ConnectionNumber
<1> QED
  BY <1>1, <1>2, <1>3, DownloadAssumption DEF IInv, ConnectionsNeedJob

\* Nothing is written, and no chunk becomes finished or ceases to be.
LEMMA BlocksKept ==
  ASSUME IInv,
         UNCHANGED <<file, got, current_job>>,
         \A c \in JobChunk : status'[c] = "finished" <=> status[c] = "finished"
  PROVE  BlocksSaved'
BY DEF IInv, BlocksSaved, WrittenOnce, WholeBlocks, SavedInOwnFile,
       GotIsComplete

\* Time that passes changes the ages of a connection alone.
LEMMA ElapseKeeps ==
  ASSUME NEW rc \in ReceiverConnection, NEW dt \in {0, 1}
  PROVE  /\ Elapse(rc, dt) \in ReceiverConnection
         /\ Elapse(rc, dt).chunks = rc.chunks
         /\ Elapse(rc, dt).status = rc.status
<1>1. \A age \in Age : Older(age, dt) \in Age
  BY DownloadAssumption, SMT DEF Older, Age
<1> DEFINE r1 == [rc EXCEPT !.since_start = Older(@, dt)]
           r2 == [r1 EXCEPT !.since_get   = Older(@, dt)]
           r3 == [r2 EXCEPT !.since_data  = Older(@, dt)]
<1> HIDE DEF r1, r2, r3
<1>2. r1 \in ReceiverConnection /\ r1.chunks = rc.chunks /\ r1.status = rc.status
  BY <1>1 DEF r1, ReceiverConnection
<1>3. r2 \in ReceiverConnection /\ r2.chunks = rc.chunks /\ r2.status = rc.status
  BY <1>1, <1>2 DEF r2, ReceiverConnection
<1>4. r3 \in ReceiverConnection /\ r3.chunks = rc.chunks /\ r3.status = rc.status
  BY <1>1, <1>3 DEF r3, ReceiverConnection
<1>5. Elapse(rc, dt) = r3
  BY DEF Elapse, r1, r2, r3
<1> QED
  BY <1>4, <1>5

\* Time passes: only ages change.
LEMMA AgesStep ==
  ASSUME IInv, NEW dt \in {0, 1},
         connection' = [p \in Peer |-> IF Connected(p) THEN Elapse(connection[p], dt)
                                                       ELSE NoConnection],
         since_flood' = Older(since_flood, dt),
         pc' \in {"select", "packet", "input", "timeouts", "finish"},
         UNCHANGED <<job_vars, chunk_vars, file>>
  PROVE  IInv'
<1> USE DEF job_vars, chunk_vars
<1>1. \A p \in Peer : Connected(p) =>
        /\ connection[p] \in ReceiverConnection
        /\ connection'[p] \in ReceiverConnection
        /\ connection'[p].chunks = connection[p].chunks
        /\ connection'[p].status = connection[p].status
  BY ElapseKeeps, ListsOfChunks DEF IInv
<1>2. \A p \in Peer : Connected(p)' <=> Connected(p)
  BY <1>1, NoConnectionAssumption DEF Connected
<1>3. TypeOK'
  <2>1. connection' \in [Peer -> ReceiverConnection \cup {NoConnection}]
    BY <1>1
  <2>2. since_flood' \in Age
    BY DownloadAssumption, SMT DEF IInv, TypeOK, Older, Age
  <2> QED
    BY <2>1, <2>2 DEF IInv, TypeOK
<1>4. Ownership'
  BY <1>1, <1>2, ListsKept
<1>5. PartialData'
  BY <1>1, <1>2 DEF IInv, PartialData, Downloading
<1>6. ConnectionsNeedJob' /\ BlocksSaved'
  BY <1>2, NoNewConnection, BlocksKept
<1>7. JobsAreAsked'
  BY DEF IInv, JobsAreAsked
<1> QED
  BY <1>3, <1>4, <1>5, <1>6, <1>7 DEF IInv

\* select returns.
LEMMA SelectStep ==
  ASSUME IInv, NEW dt \in {0, 1}, Select(dt)
  PROVE  IInv'
<1>1. pc' \in {"select", "packet", "input", "timeouts", "finish"}
  BY DEF Select, Phase
<1> QED
  BY <1>1, AgesStep DEF Select

\* A new job: none of its chunks has moved yet.
LEMMA ProcessGetStep ==
  ASSUME IInv, NEW j \in JobId, ProcessGet(j)
  PROVE  IInv'
<1> USE DEF chunk_vars
<1>1. TypeOK'
  BY DEF IInv, TypeOK, ProcessGet, Phase
<1>2. Ownership'
  BY DEF IInv, Ownership, HasChunks, Owned, Lists, List, Connected, ProcessGet
<1>3. PartialData'
  BY DEF IInv, PartialData, Connected, Downloading, ProcessGet
<1>4. ConnectionsNeedJob'
  BY DownloadAssumption
  DEF IInv, ConnectionsNeedJob, ConnectionNumber, Connected, ProcessGet
<1>5. JobsAreAsked'
  BY DEF IInv, JobsAreAsked, ProcessGet
<1>6. BlocksSaved'
  <2>1. WrittenOnce' /\ GotIsComplete'
    BY DEF IInv, BlocksSaved, WrittenOnce, WholeBlocks, GotIsComplete,
           ProcessGet
  <2>2. SavedInOwnFile'
    BY DEF IInv, JobsAreAsked, SavedInOwnFile, ProcessGet
  <2> QED
    BY <2>1, <2>2 DEF BlocksSaved
<1> QED
  BY <1>1, <1>2, <1>3, <1>4, <1>5, <1>6 DEF IInv

\* A job is over when its chunks are neither missing nor on their way: then
\* all of them are saved, and in its file.
LEMMA FloodAndFinishJobStep ==
  ASSUME IInv, FloodAndFinishJob
  PROVE  IInv'
<1> USE DEF chunk_vars
<1>1. TypeOK'
  <2>1. pc' = "select"
    BY DEF FloodAndFinishJob, Phase
  <2>2. current_job' \in JobId \cup {NoJob} /\ got' \subseteq asked
    BY DEF IInv, TypeOK, JobsAreAsked, FloodAndFinishJob, JobFinished
  <2>3. since_flood' \in Age
    BY DownloadAssumption DEF IInv, TypeOK, FloodAndFinishJob, Age
  <2> QED
    BY <2>1, <2>2, <2>3 DEF IInv, TypeOK, FloodAndFinishJob
<1>2. Ownership'
  BY DEF IInv, Ownership, HasChunks, Owned, Lists, List, Connected,
         FloodAndFinishJob
<1>3. PartialData'
  BY DEF IInv, PartialData, Connected, Downloading, FloodAndFinishJob
<1>4. ConnectionsNeedJob'
  <2>1. ConnectionNumber' = ConnectionNumber /\ ConnectionNumber \in Nat
    BY ConnectionsHaveJob DEF ConnectionNumber, Connected, FloodAndFinishJob
  <2> QED
    BY <2>1 DEF IInv, ConnectionsNeedJob, FloodAndFinishJob, JobFinished
<1>5. JobsAreAsked'
  BY DEF IInv, JobsAreAsked, FloodAndFinishJob
<1>6. BlocksSaved'
  <2>1. WrittenOnce'
    BY DEF IInv, BlocksSaved, WrittenOnce, WholeBlocks, FloodAndFinishJob
  <2>2. CASE ~JobFinished
    BY <2>1, <2>2 DEF IInv, BlocksSaved, SavedInOwnFile, GotIsComplete,
                      FloodAndFinishJob
  <2>3. CASE JobFinished
    <3>1. current_job \in JobId /\ current_job' = NoJob
          /\ got' = got \cup {current_job}
      BY <2>3 DEF IInv, TypeOK, JobFinished, FloodAndFinishJob
    <3>2. \A c \in JobChunk : c[1] # NoJob
      BY DownloadAssumption DEF JobChunk
    <3>3. SavedInOwnFile'
      BY <3>1, <3>2 DEF SavedInOwnFile
    <3>4. \A p \in Peer : Lists[p] = <<>>
      BY <2>3, ConnectionsHaveJob, ListsOfChunks DEF IInv, JobFinished
    <3>5. \A c \in JobChunk : c[1] = current_job => status[c] = "finished"
      <4> SUFFICES ASSUME NEW c \in JobChunk, c[1] = current_job
                   PROVE  status[c] = "finished"
        OBVIOUS
      <4>1. status[c] # "not_found"
        BY <2>3 DEF JobFinished, NotFound
      <4>2. status[c] \notin {"pending", "downloading"}
        BY <3>4 DEF IInv, Ownership, Owned
      <4> QED
        BY <4>1, <4>2 DEF IInv, TypeOK, CHUNK_STATUS
    <3>6. GotIsComplete'
      BY <3>1, <3>5
      DEF IInv, BlocksSaved, SavedInOwnFile, GotIsComplete, WholeBlock,
          FloodAndFinishJob
    <3> QED
      BY <2>1, <3>3, <3>6 DEF BlocksSaved
  <2> QED
    BY <2>2, <2>3
<1> QED
  BY <1>1, <1>2, <1>3, <1>4, <1>5, <1>6 DEF IInv

\* The expected packet puts the crash of the peer off, and its list stays.
LEMMA HeardKeeps ==
  ASSUME NEW rc \in ReceiverConnection
  PROVE  /\ Heard(rc) \in ReceiverConnection
         /\ Heard(rc).chunks = rc.chunks
         /\ Heard(rc).status = "received_data"
<1> DEFINE r1 == [rc EXCEPT !.status = "received_data"]
           r2 == [r1 EXCEPT !.since_data = 0]
<1> HIDE DEF r1, r2
<1>1. /\ r1 \in ReceiverConnection
      /\ r1.chunks = rc.chunks
      /\ r1.status = "received_data"
  BY DEF r1, ReceiverConnection, RECEIVER_STATUS
<1>2. 0 \in Age
  BY DownloadAssumption DEF Age
<1>3. /\ r2 \in ReceiverConnection
      /\ r2.chunks = rc.chunks
      /\ r2.status = "received_data"
  BY <1>1, <1>2 DEF r2, ReceiverConnection
<1>4. Heard(rc) = r2
  BY DEF Heard, r1, r2
<1> QED
  BY <1>3, <1>4

\* save_data_packet: one more packet of the head of one list.
LEMMA SaveDataPacketStep ==
  ASSUME IInv, NEW p \in Peer, NEW n \in 1 .. CHUNK_DATA_NUM, NEW hash \in Hash,
         SaveDataPacket(p, n, hash)
  PROVE  IInv'
<1> USE DEF job_vars
<1> DEFINE c == Downloading(p)
<1>1. /\ c \in JobChunk
      /\ status[c] = "downloading"
      /\ connection[p] \in ReceiverConnection
      /\ Connected(p)
  BY HeadIsDownloading, ListsOfChunks DEF IInv, SaveDataPacket, Expected
<1>2. /\ pc' = "input"
      /\ n = received_seq_num[c] + 1
      /\ Len(data[c]) + 1 < CHUNK_DATA_NUM
      /\ data' = [data EXCEPT ![c] = Append(@, hash)]
      /\ received_seq_num' = [received_seq_num EXCEPT ![c] = n]
      /\ connection' = [connection EXCEPT ![p] = Heard(@)]
      /\ UNCHANGED <<job_vars, status, since_flood, file>>
  BY DEF SaveDataPacket, Expected, Phase
<1>3. /\ connection'[p] \in ReceiverConnection
      /\ connection'[p].chunks = connection[p].chunks
      /\ connection'[p].status = "received_data"
      /\ \A o \in Peer : o # p => connection'[o] = connection[o]
  BY <1>1, <1>2, HeardKeeps DEF IInv, TypeOK
<1>4. \A o \in Peer : Connected(o)' <=> Connected(o)
  BY <1>1, <1>3, NoConnectionAssumption DEF Connected
<1>5. /\ data[c] \in Seq(Hash)
      /\ data'[c] = Append(data[c], hash)
      /\ received_seq_num[c] = Len(data[c])
      /\ \A d \in JobChunk : d # c =>
           data'[d] = data[d] /\ received_seq_num'[d] = received_seq_num[d]
  BY <1>1, <1>2 DEF IInv, TypeOK, PartialData
<1> HIDE DEF c
<1>6. TypeOK'
  <2>1. connection' \in [Peer -> ReceiverConnection \cup {NoConnection}]
    BY <1>2, <1>3 DEF IInv, TypeOK
  <2>2. data' \in [JobChunk -> Seq(Hash)]
    BY <1>1, <1>2, <1>5, AppendProperties DEF IInv, TypeOK
  <2>3. n \in 0 .. CHUNK_DATA_NUM - 1
    BY <1>2, <1>5, LenProperties, DownloadAssumption
  <2>4. received_seq_num' \in [JobChunk -> 0 .. CHUNK_DATA_NUM - 1]
    BY <1>1, <1>2, <2>3 DEF IInv, TypeOK
  <2> QED
    BY <1>2, <2>1, <2>2, <2>4 DEF IInv, TypeOK
<1>7. Ownership'
  BY <1>2, <1>3, <1>4, ListsKept
<1>8. PartialData'
  <2> SUFFICES ASSUME NEW d \in JobChunk
               PROVE  /\ received_seq_num'[d] = Len(data'[d])
                      /\ data'[d] # <<>> =>
                           \E o \in Peer : /\ Connected(o)'
                                           /\ Downloading(o)' = d
                                           /\ connection'[o].status = "received_data"
    BY DEF PartialData
  <2>1. CASE d = c
    <3>1. received_seq_num'[d] = Len(data'[d])
      BY <1>1, <1>2, <1>5, <2>1, AppendProperties DEF IInv, TypeOK
    <3> QED
      BY <1>1, <1>3, <1>4, <2>1, <3>1 DEF Downloading, c
  <2>2. CASE d # c
    <3>1. /\ received_seq_num[d] = Len(data[d])
          /\ data[d] # <<>> =>
               \E o \in Peer : /\ Connected(o)
                               /\ Downloading(o) = d
                               /\ connection[o].status = "received_data"
      BY DEF IInv, PartialData
    <3> QED
      BY <1>3, <1>4, <1>5, <2>2, <3>1 DEF Downloading, c
  <2> QED
    BY <2>1, <2>2
<1>9. ConnectionsNeedJob' /\ BlocksSaved'
  BY <1>2, <1>4, NoNewConnection, BlocksKept
<1>10. JobsAreAsked'
  BY <1>2 DEF IInv, JobsAreAsked
<1> QED
  BY <1>6, <1>7, <1>8, <1>9, <1>10 DEF IInv

-----------------------------------------------------------------------------
(* The end of a chunk.                                                     *)

\* A block goes to the end of one file; the blocks before it stay.
LEMMA BlockAppended ==
  ASSUME TypeOK, NEW j \in JobId,
         NEW b \in [chunk : JobChunk, whole : BOOLEAN],
         file' = [file EXCEPT ![j] = Append(@, b)]
  PROVE  /\ file' \in [JobId -> Seq([chunk : JobChunk, whole : BOOLEAN])]
         /\ Len(file[j]) + 1 \in DOMAIN file'[j]
         /\ file'[j][Len(file[j]) + 1] = b
         /\ \A i \in JobId : \A k \in DOMAIN file[i] :
              k \in DOMAIN file'[i] /\ file'[i][k] = file[i][k]
         /\ \A c \in JobChunk :
              WholeBlocks(c)' = IF b = WholeBlock(c)
                                  THEN WholeBlocks(c) \cup {<<j, Len(file[j]) + 1>>}
                                  ELSE WholeBlocks(c)
<1> DEFINE Block == [chunk : JobChunk, whole : BOOLEAN]
           n == Len(file[j])
<1>1. file \in [JobId -> Seq(Block)] /\ file[j] \in Seq(Block)
  BY DEF TypeOK
<1> HIDE DEF Block
<1>2. b \in Block
  BY DEF Block
<1>3. /\ file'[j] = Append(file[j], b)
      /\ file'[j] \in Seq(Block)
      /\ \A i \in JobId : i # j => file'[i] = file[i]
      /\ file' \in [JobId -> Seq(Block)]
  BY <1>1, <1>2, AppendProperties
<1>4. /\ n \in Nat
      /\ DOMAIN file[j] = 1 .. n
      /\ DOMAIN file'[j] = 1 .. n + 1
      /\ \A k \in 1 .. n : file'[j][k] = file[j][k]
      /\ file'[j][n + 1] = b
  BY <1>1, <1>2, <1>3, AppendProperties, LenProperties
<1>5. \A i \in JobId : \A k \in DOMAIN file[i] :
        k \in DOMAIN file'[i] /\ file'[i][k] = file[i][k]
  BY <1>3, <1>4
<1> DEFINE places == UNION {{i} \X DOMAIN file[i] : i \in JobId}
           newplaces == UNION {{i} \X DOMAIN file'[i] : i \in JobId}
<1>6. \A x : x \in places <=>
              \E i \in JobId : \E k \in DOMAIN file[i] : x = <<i, k>>
  <2>1. \A i, k, x : x \in {i} \X DOMAIN file[i] <=>
                     \E m \in DOMAIN file[i] : x = <<i, m>>
    OBVIOUS
  <2> QED
    BY <2>1
<1>7. \A x : x \in newplaces <=>
              \E i \in JobId : \E k \in DOMAIN file'[i] : x = <<i, k>>
  <2>1. \A i, k, x : x \in {i} \X DOMAIN file'[i] <=>
                     \E m \in DOMAIN file'[i] : x = <<i, m>>
    OBVIOUS
  <2> QED
    BY <2>1
<1> HIDE DEF places, newplaces
<1>8. newplaces = places \cup {<<j, n + 1>>}
  <2>1. \A k : k \in DOMAIN file'[j] <=> k \in DOMAIN file[j] \/ k = n + 1
    BY <1>4
  <2> QED
    BY <1>3, <1>6, <1>7, <2>1
<1>9. \A x \in places : x # <<j, n + 1>> /\ file'[x[1]][x[2]] = file[x[1]][x[2]]
  BY <1>4, <1>5, <1>6
<1>10. \A c \in JobChunk :
        /\ WholeBlocks(c) = {x \in places : file[x[1]][x[2]] = WholeBlock(c)}
        /\ WholeBlocks(c)' = {x \in newplaces : file'[x[1]][x[2]] = WholeBlock(c)}
  BY DEF WholeBlocks, WholeBlock, places, newplaces
<1> HIDE DEF n
<1> DEFINE old(c) == {x \in places : file[x[1]][x[2]] = WholeBlock(c)}
           new(c) == {x \in newplaces : file'[x[1]][x[2]] = WholeBlock(c)}
<1>11. ASSUME NEW c \in JobChunk
       PROVE  new(c) = IF b = WholeBlock(c) THEN old(c) \cup {<<j, n + 1>>}
                                            ELSE old(c)
  <2>1. file'[<<j, n + 1>>[1]][<<j, n + 1>>[2]] = b
    BY <1>4
  <2> QED
    BY <1>8, <1>9, <2>1
<1>12. \A c \in JobChunk :
         WholeBlocks(c)' = IF b = WholeBlock(c)
                             THEN WholeBlocks(c) \cup {<<j, n + 1>>}
                             ELSE WholeBlocks(c)
  BY <1>10, <1>11
<1>13. Len(file[j]) + 1 \in DOMAIN file'[j]
  BY <1>4 DEF n
<1>14. file'[j][Len(file[j]) + 1] = b
  BY <1>4 DEF n
<1> QED
  BY <1>3, <1>5, <1>12, <1>13, <1>14 DEF Block, n

\* What the end of a chunk leaves of its connection.
Onward(rc, rest) == [Heard(rc) EXCEPT !.chunks = rest, !.since_get = 0]

\* A connection that goes on with the rest of its list.
LEMMA OnwardKeeps ==
  ASSUME NEW rc \in ReceiverConnection, NEW rest \in Seq(JobChunk)
  PROVE  /\ Onward(rc, rest) \in ReceiverConnection
         /\ Onward(rc, rest).chunks = rest
<1> DEFINE h == Heard(rc)
           r1 == [h EXCEPT !.chunks = rest]
           r2 == [r1 EXCEPT !.since_get = 0]
<1>1. h \in ReceiverConnection
  BY HeardKeeps
<1> HIDE DEF h, r1, r2
<1>2. r1 \in ReceiverConnection /\ r1.chunks = rest
  BY <1>1 DEF r1, ReceiverConnection
<1>3. 0 \in Age
  BY DownloadAssumption DEF Age
<1>4. r2 \in ReceiverConnection /\ r2.chunks = rest
  BY <1>2, <1>3 DEF r2, ReceiverConnection
<1>5. Onward(rc, rest) = r2
  BY DEF Onward, r2, r1, h
<1> QED
  BY <1>4, <1>5

\* The rest of a list, and the chunk its turn comes to.
LEMMA TailOfList ==
  ASSUME NEW L \in Seq(JobChunk), L # <<>>
  PROVE  /\ Len(L) \in Nat \ {0}
         /\ Tail(L) \in Seq(JobChunk)
         /\ Tail(L) # <<>> <=> Len(L) > 1
         /\ Tail(L) # <<>> => Head(Tail(L)) = L[2]
<1>1. /\ Len(L) \in Nat \ {0}
      /\ Tail(L) \in Seq(JobChunk)
      /\ Len(Tail(L)) = Len(L) - 1
      /\ \A i \in 1 .. Len(Tail(L)) : Tail(L)[i] = L[i + 1]
  BY HeadTailProperties, EmptySeq
<1>2. Tail(L) # <<>> <=> Len(L) > 1
  <2> DEFINE t == Tail(L)
  <2>1. t \in Seq(JobChunk) /\ Len(t) = Len(L) - 1
    BY <1>1
  <2> HIDE DEF t
  <2>2. t # <<>> <=> Len(t) # 0
    BY <2>1, EmptySeq
  <2> QED
    BY <1>1, <2>1, <2>2 DEF t
<1>3. Tail(L) # <<>> => Head(Tail(L)) = Tail(L)[1] /\ 1 \in 1 .. Len(Tail(L))
  BY <1>1, <1>2, SMT
<1> QED
  BY <1>1, <1>2, <1>3

\* How FinishChunk changes the state, in the terms of the lists.
LEMMA FinishChunkEffect ==
  ASSUME IInv, NEW p \in Peer, NEW n \in 1 .. CHUNK_DATA_NUM, NEW hash \in Hash,
         FinishChunk(p, n, hash)
  PROVE  LET c == Downloading(p)
         IN  /\ c \in JobChunk
             /\ status[c] = "downloading"
             /\ status'[c] \in {"finished", "not_found"}
             /\ \A d \in JobChunk : d # c =>
                  \/ status'[d] = status[d]
                  \/ status[d] = "pending" /\ status'[d] = "downloading"
             /\ status' \in [JobChunk -> CHUNK_STATUS]
             /\ Advanced(Lists, status, p, Lists', status')
             /\ connection' \in [Peer -> ReceiverConnection \cup {NoConnection}]
             /\ Connected(p)
             /\ Connected(p)' <=> Tail(Lists[p]) # <<>>
             /\ Connected(p)' => connection'[p].chunks = Tail(Lists[p])
             /\ \A o \in Peer : o # p => connection'[o] = connection[o]
<1> DEFINE c == Downloading(p)
           L == connection[p].chunks
           rest == Tail(L)
<1>1. /\ c \in JobChunk
      /\ status[c] = "downloading"
      /\ Len(L) \in Nat \ {0}
      /\ L \in Seq(JobChunk)
      /\ L # <<>>
      /\ L = Lists[p]
      /\ c = L[1]
      /\ connection[p] \in ReceiverConnection
      /\ Connected(p)
  BY HeadIsDownloading, ListsOfChunks
  DEF IInv, Ownership, HasChunks, FinishChunk, Expected
<1>2. /\ rest \in Seq(JobChunk)
      /\ rest # <<>> <=> Len(L) > 1
      /\ rest # <<>> => Head(rest) = L[2]
  BY <1>1, TailOfList
<1>3. Len(L) > 1 => L[2] \in JobChunk /\ L[2] # c /\ status[L[2]] = "pending"
  BY <1>1, SMT DEF IInv, Ownership, Owned
<1> HIDE DEF c, L
<1>4. PICK outcome \in SaveOutcome(Verified(c, Append(data[c], hash))) :
        status' = [d \in JobChunk |->
                     IF d = c
                       THEN IF outcome = "saved" THEN "finished" ELSE "not_found"
                     ELSE IF rest # <<>> /\ d = Head(rest) THEN "downloading"
                     ELSE status[d]]
  BY DEF FinishChunk, c, L
<1>5. connection' = [connection EXCEPT ![p] =
                       IF rest = <<>> THEN NoConnection
                                      ELSE Onward(connection[p], rest)]
  BY DEF FinishChunk, Onward, L
<1>6. /\ connection'[p] = IF rest = <<>> THEN NoConnection
                                         ELSE Onward(connection[p], rest)
      /\ \A o \in Peer : o # p => connection'[o] = connection[o]
      /\ connection' \in [Peer -> ReceiverConnection \cup {NoConnection}]
  BY <1>1, <1>2, <1>5, OnwardKeeps DEF IInv, TypeOK
<1>7. /\ Connected(p)' <=> rest # <<>>
      /\ Connected(p)' => connection'[p].chunks = rest
  <2>1. /\ Onward(connection[p], rest) \in ReceiverConnection
        /\ Onward(connection[p], rest).chunks = rest
    BY <1>1, <1>2, OnwardKeeps
  <2> QED
    BY <1>6, <2>1, NoConnectionAssumption DEF Connected
<1>8. Lists' = [Lists EXCEPT ![p] = Tail(@)]
  <2>1. List(p)' = rest
    BY <1>7 DEF List
  <2>2. \A o \in Peer : o # p => List(o)' = List(o)
    BY <1>6 DEF List, Connected
  <2> QED
    BY <1>1, <2>1, <2>2 DEF Lists
<1>9. /\ status'[c] \in {"finished", "not_found"}
      /\ \A d \in JobChunk : d # c =>
           \/ status'[d] = status[d]
           \/ status[d] = "pending" /\ status'[d] = "downloading"
      /\ \A d \in JobChunk :
           d # c /\ (Len(L) > 1 => d # L[2]) => status'[d] = status[d]
      /\ Len(L) > 1 => status'[L[2]] = "downloading"
  BY <1>1, <1>2, <1>3, <1>4
<1>10. status' \in [JobChunk -> CHUNK_STATUS]
  BY <1>4 DEF IInv, TypeOK, CHUNK_STATUS
<1>11. Advanced(Lists, status, p, Lists', status')
  <2>1. Lists[p] = L /\ Lists[p][1] = c
    BY <1>1 DEF c, L
  <2> QED
    BY <1>1, <1>8, <1>9, <2>1 DEF Advanced
<1> QED
  BY <1>1, <1>6, <1>7, <1>9, <1>10, <1>11 DEF c, L

\* How FinishChunk changes the files: the block of a chunk that is finished
\* is written whole to the file of the current job, and no other block is.
LEMMA FinishChunkWrites ==
  ASSUME IInv, NEW p \in Peer, NEW n \in 1 .. CHUNK_DATA_NUM, NEW hash \in Hash,
         FinishChunk(p, n, hash)
  PROVE  LET c == Downloading(p)
             place == <<current_job, Len(file[current_job]) + 1>>
         IN  /\ file' \in [JobId -> Seq([chunk : JobChunk, whole : BOOLEAN])]
             /\ \A i \in JobId : \A k \in DOMAIN file[i] :
                  k \in DOMAIN file'[i] /\ file'[i][k] = file[i][k]
             /\ \A d \in JobChunk :
                  WholeBlocks(d)' = IF d = c /\ status'[c] = "finished"
                                      THEN WholeBlocks(d) \cup {place}
                                      ELSE WholeBlocks(d)
             /\ status'[c] = "finished" =>
                  \E k \in DOMAIN file'[current_job] :
                    file'[current_job][k] = WholeBlock(c)
<1> DEFINE c == Downloading(p)
           bytes == Append(data[c], hash)
           place == <<current_job, Len(file[current_job]) + 1>>
<1>1. c \in JobChunk /\ current_job \in JobId
  BY HeadIsDownloading DEF FinishChunk, Expected
<1>2. PICK outcome \in SaveOutcome(Verified(c, bytes)) :
        /\ file' = Written(c, bytes, outcome)
        /\ status'[c] = IF outcome = "saved" THEN "finished" ELSE "not_found"
  BY <1>1 DEF FinishChunk
<1>3. outcome = "saved" => Verified(c, bytes)
  BY <1>2 DEF SaveOutcome
<1> HIDE DEF c, bytes
<1>4. CASE outcome \notin {"saved", "short_write"}
  <2>1. file' = file /\ status'[c] = "not_found"
    BY <1>2, <1>4 DEF Written
  <2> QED
    BY <2>1 DEF IInv, TypeOK, WholeBlocks, c
<1>5. CASE outcome \in {"saved", "short_write"}
  <2> DEFINE whole == outcome = "saved" /\ Verified(c, bytes)
             b == [chunk |-> c, whole |-> whole]
  <2>1. b \in [chunk : JobChunk, whole : BOOLEAN]
    <3>1. whole \in BOOLEAN
      OBVIOUS
    <3> HIDE DEF whole
    <3> QED
      BY <1>1, <3>1
  <2>2. file' = [file EXCEPT ![current_job] = Append(@, b)]
    BY <1>2, <1>5 DEF Written
  <2>3. \A d \in JobChunk : b = WholeBlock(d) <=> d = c /\ outcome = "saved"
    <3>1. b.chunk = c /\ b.whole = whole
      OBVIOUS
    <3>2. whole <=> outcome = "saved"
      BY <1>3
    <3>3. \A d : WholeBlock(d).chunk = d /\ WholeBlock(d).whole = TRUE
      BY DEF WholeBlock
    <3>4. outcome = "saved" => b = WholeBlock(c)
      BY <1>3 DEF WholeBlock
    <3> HIDE DEF b, whole
    <3>5. ASSUME NEW d \in JobChunk, b = WholeBlock(d)
          PROVE  d = c /\ outcome = "saved"
      BY <3>1, <3>2, <3>3, <3>5
    <3> QED
      BY <3>4, <3>5
  <2> HIDE DEF b
  <2>4. status'[c] = "finished" <=> outcome = "saved"
    BY <1>2
  <2>5. /\ file' \in [JobId -> Seq([chunk : JobChunk, whole : BOOLEAN])]
        /\ Len(file[current_job]) + 1 \in DOMAIN file'[current_job]
        /\ file'[current_job][Len(file[current_job]) + 1] = b
        /\ \A i \in JobId : \A k \in DOMAIN file[i] :
             k \in DOMAIN file'[i] /\ file'[i][k] = file[i][k]
        /\ \A d \in JobChunk :
             WholeBlocks(d)' = IF b = WholeBlock(d)
                                 THEN WholeBlocks(d) \cup {place}
                                 ELSE WholeBlocks(d)
    BY <1>1, <2>1, <2>2, BlockAppended DEF IInv
  <2>6. \A d \in JobChunk :
          WholeBlocks(d)' = IF d = c /\ status'[c] = "finished"
                              THEN WholeBlocks(d) \cup {place}
                              ELSE WholeBlocks(d)
    BY <2>3, <2>4, <2>5
  <2>7. status'[c] = "finished" =>
          \E k \in DOMAIN file'[current_job] :
            file'[current_job][k] = WholeBlock(c)
    BY <1>1, <2>3, <2>4, <2>5
  <2> QED
    BY <2>5, <2>6, <2>7 DEF c
<1> QED
  BY <1>4, <1>5

\* save_chunk and reset_receiver_connection, however the save ends.
LEMMA FinishChunkStep ==
  ASSUME IInv, NEW p \in Peer, NEW n \in 1 .. CHUNK_DATA_NUM, NEW hash \in Hash,
         FinishChunk(p, n, hash)
  PROVE  IInv'
<1> USE DEF job_vars
<1> DEFINE c == Downloading(p)
           place == <<current_job, Len(file[current_job]) + 1>>
<1>1. /\ c \in JobChunk
      /\ status[c] = "downloading"
      /\ status'[c] \in {"finished", "not_found"}
      /\ \A d \in JobChunk : d # c =>
           \/ status'[d] = status[d]
           \/ status[d] = "pending" /\ status'[d] = "downloading"
      /\ status' \in [JobChunk -> CHUNK_STATUS]
      /\ connection' \in [Peer -> ReceiverConnection \cup {NoConnection}]
      /\ Connected(p)
      /\ Connected(p)' <=> Tail(Lists[p]) # <<>>
      /\ Connected(p)' => connection'[p].chunks = Tail(Lists[p])
      /\ \A o \in Peer : o # p => connection'[o] = connection[o]
  BY FinishChunkEffect
<1>2. Advanced(Lists, status, p, Lists', status')
  BY FinishChunkEffect
<1>3. /\ file' \in [JobId -> Seq([chunk : JobChunk, whole : BOOLEAN])]
      /\ \A i \in JobId : \A k \in DOMAIN file[i] :
           k \in DOMAIN file'[i] /\ file'[i][k] = file[i][k]
      /\ \A d \in JobChunk :
           WholeBlocks(d)' = IF d = c /\ status'[c] = "finished"
                               THEN WholeBlocks(d) \cup {place}
                               ELSE WholeBlocks(d)
      /\ status'[c] = "finished" =>
           \E k \in DOMAIN file'[current_job] :
             file'[current_job][k] = WholeBlock(c)
  BY FinishChunkWrites
<1>4. /\ pc' = "input"
      /\ data' = [data EXCEPT ![c] = <<>>]
      /\ received_seq_num' = [received_seq_num EXCEPT ![c] = 0]
      /\ UNCHANGED <<job_vars, since_flood>>
  BY DEF FinishChunk, Phase
<1>5. /\ c = Lists[p][1] /\ Lists[p] # <<>>
      /\ Lists \in [Peer -> Seq(JobChunk)]
      /\ current_job \in JobId
  BY <1>1, HeadIsDownloading, ListsOfChunks DEF IInv, Ownership, HasChunks
<1> HIDE DEF c, place
<1>6. TypeOK'
  <2>1. data' \in [JobChunk -> Seq(Hash)]
    BY <1>1, <1>4 DEF IInv, TypeOK
  <2>2. received_seq_num' \in [JobChunk -> 0 .. CHUNK_DATA_NUM - 1]
    BY <1>1, <1>4, DownloadAssumption DEF IInv, TypeOK
  <2> QED
    BY <1>1, <1>3, <1>4, <2>1, <2>2 DEF IInv, TypeOK
<1>7. Ownership'
  <2>1. HasChunks'
    BY <1>1 DEF IInv, Ownership, HasChunks, Connected
  <2>2. status \in [JobChunk -> CHUNK_STATUS] /\ Owned(Lists, status)
    BY DEF IInv, TypeOK, Ownership
  <2>3. Owned(Lists', status')
    BY <1>2, <1>5, <2>2, OwnedAdvanced
  <2> QED
    BY <2>1, <2>3 DEF Ownership, Owned
<1>8. PartialData'
  <2> SUFFICES ASSUME NEW d \in JobChunk
               PROVE  /\ received_seq_num'[d] = Len(data'[d])
                      /\ data'[d] # <<>> =>
                           \E o \in Peer : /\ Connected(o)'
                                           /\ Downloading(o)' = d
                                           /\ connection'[o].status = "received_data"
    BY DEF PartialData
  <2>1. CASE d = c
    BY <1>1, <1>4, <2>1, EmptySeq DEF IInv, TypeOK
  <2>2. CASE d # c
    <3>1. data'[d] = data[d] /\ received_seq_num'[d] = received_seq_num[d]
      BY <1>4, <2>2 DEF IInv, TypeOK
    <3>2. \A o \in Peer : Downloading(o) = d =>
            connection'[o] = connection[o]
      BY <1>1, <2>2 DEF c
    <3> QED
      BY <3>1, <3>2 DEF IInv, PartialData, Downloading, Connected
  <2> QED
    BY <2>1, <2>2
<1>9. ConnectionsNeedJob'
  <2>1. \A o \in Peer : Connected(o)' => Connected(o)
    BY <1>1 DEF Connected
  <2> QED
    BY <1>4, <2>1, NoNewConnection
<1>10. JobsAreAsked'
  <2>1. \A d \in JobChunk : status'[d] # "not_found" => status[d] # "not_found"
    BY <1>1
  <2> QED
    BY <1>4, <2>1 DEF IInv, JobsAreAsked
<1>11. BlocksSaved'
  <2>1. WrittenOnce'
    <3> SUFFICES ASSUME NEW d \in JobChunk
                 PROVE  IF status'[d] = "finished"
                          THEN \E b \in WholeBlocks(d)' : WholeBlocks(d)' = {b}
                          ELSE WholeBlocks(d)' = {}
      BY DEF WrittenOnce
    <3>1. IF status[d] = "finished"
            THEN \E b \in WholeBlocks(d) : WholeBlocks(d) = {b}
            ELSE WholeBlocks(d) = {}
      BY DEF IInv, BlocksSaved, WrittenOnce
    <3>2. CASE d = c
      BY <1>1, <1>3, <3>1, <3>2
    <3>3. CASE d # c
      <4>1. status'[d] = "finished" <=> status[d] = "finished"
        BY <1>1, <3>3
      <4>2. WholeBlocks(d)' = WholeBlocks(d)
        BY <1>3, <3>3
      <4> QED
        BY <3>1, <4>1, <4>2
    <3> QED
      BY <3>2, <3>3
  <2>2. SavedInOwnFile'
    <3> SUFFICES ASSUME NEW d \in JobChunk, d[1] = current_job,
                        status'[d] = "finished"
                 PROVE  \E k \in DOMAIN file'[current_job] :
                          file'[current_job][k] = WholeBlock(d)
      BY <1>4 DEF SavedInOwnFile, WholeBlock
    <3>1. d # c => status[d] = "finished"
      BY <1>1
    <3>2. CASE d # c
      BY <1>3, <1>5, <3>1, <3>2 DEF IInv, BlocksSaved, SavedInOwnFile
    <3> QED
      BY <1>3, <3>2
  <2>3. GotIsComplete'
    <3>1. got \subseteq JobId
      BY DEF IInv, TypeOK
    <3> SUFFICES ASSUME NEW j \in got, NEW d \in JobChunk, d[1] = j
                 PROVE  \E k \in DOMAIN file'[j] : file'[j][k] = WholeBlock(d)
      BY <1>4 DEF GotIsComplete, WholeBlock
    <3>2. PICK k \in DOMAIN file[j] : file[j][k] = WholeBlock(d)
      BY DEF IInv, BlocksSaved, GotIsComplete, WholeBlock
    <3> QED
      BY <1>3, <3>1, <3>2
  <2> QED
    BY <2>1, <2>2, <2>3 DEF BlocksSaved
<1> QED
  BY <1>6, <1>7, <1>8, <1>9, <1>10, <1>11 DEF IInv

-----------------------------------------------------------------------------
\* Chunks that are put on a list leave what is received, asked and saved
\* alone.
LEMMA GiveKeeps ==
  ASSUME IInv, NEW hashes \in Seq(Hash),
         UNCHANGED <<job_vars, received_seq_num, data, file>>,
         \A c \in JobChunk :
           \/ status'[c] = status[c]
           \/ c \in Wanted(hashes) /\ status'[c] \in {"pending", "downloading"},
         \A o \in Peer : Connected(o) =>
           /\ Connected(o)'
           /\ Downloading(o)' = Downloading(o)
           /\ connection'[o].status = connection[o].status
  PROVE  PartialData' /\ JobsAreAsked' /\ BlocksSaved'
<1> USE DEF job_vars
<1>1. \A c \in Wanted(hashes) : /\ c[1] = current_job
                                /\ current_job \in JobId
                                /\ status[c] = "not_found"
  BY WantedIsFinite
<1>2. PartialData'
  BY DEF IInv, PartialData
<1>3. JobsAreAsked'
  BY <1>1, DownloadAssumption DEF IInv, JobsAreAsked
<1>4. BlocksSaved'
  BY <1>1, BlocksKept
<1> QED
  BY <1>2, <1>3, <1>4

\* The chunks an IHAVE offers and the job wants go to the end of p's list.
GivesWanted(p, hashes) ==
  \E q \in Seq(JobChunk) :
    /\ Extended(Lists, status, p, q, Lists', status')
    /\ \A c \in JobChunk :
         c \in Wanted(hashes) <=> \E i \in 1 .. Len(q) : q[i] = c

\* add_ihave_to_receiver_connection, of a connection that exists.
LEMMA ExtendConnectionStep ==
  ASSUME IInv, NEW p \in Peer, NEW hashes \in IHave,
         ExtendConnection(p, hashes)
  PROVE  IInv' /\ GivesWanted(p, hashes)
<1> USE DEF job_vars
<1>1. hashes \in Seq(Hash)
  BY DownloadAssumption
<1>2. PICK q \in Selection(hashes) :
        connection' = [connection EXCEPT ![p].chunks = @ \o q]
  BY DEF ExtendConnection
<1>3. /\ Connected(p)
      /\ pc' = "input"
      /\ status' = [c \in JobChunk |-> IF c \in Wanted(hashes) THEN "pending"
                                                               ELSE status[c]]
      /\ UNCHANGED <<job_vars, received_seq_num, data, since_flood, file>>
  BY DEF ExtendConnection, Phase
<1>4. /\ q \in Seq(JobChunk)
      /\ \A i, j \in 1 .. Len(q) : q[i] = q[j] => i = j
      /\ \A i \in 1 .. Len(q) : q[i] \in Wanted(hashes) /\ q[i] \in JobChunk
      /\ \A c \in Wanted(hashes) : \E i \in 1 .. Len(q) : q[i] = c
      /\ \A c \in Wanted(hashes) : status[c] = "not_found"
  BY <1>1, SelectionIsWanted, WantedIsFinite
<1>5. /\ connection[p] \in ReceiverConnection
      /\ Lists \in [Peer -> Seq(JobChunk)]
      /\ Lists[p] = connection[p].chunks
      /\ Lists[p] \in Seq(JobChunk)
      /\ Lists[p] # <<>>
      /\ Len(Lists[p]) \in Nat \ {0}
  BY <1>3, ListsOfChunks, HeadIsDownloading DEF IInv, Ownership, HasChunks
\* The connection with p, and no other, has a longer list.
<1> DEFINE rc == connection[p]
           longer == [rc EXCEPT !.chunks = @ \o q]
<1>6. /\ longer \in ReceiverConnection
      /\ longer.chunks = Lists[p] \o q
      /\ longer.status = rc.status
  <2>1. rc.chunks \o q \in Seq(JobChunk)
    BY <1>4, <1>5, ConcatProperties
  <2> QED
    BY <1>5, <2>1 DEF ReceiverConnection
<1>7. /\ connection'[p] = longer
      /\ \A o \in Peer : o # p => connection'[o] = connection[o]
      /\ connection' \in [Peer -> ReceiverConnection \cup {NoConnection}]
  BY <1>2, <1>6 DEF IInv, TypeOK
<1> HIDE DEF longer
<1>8. \A o \in Peer : Connected(o)' <=> Connected(o)
  BY <1>3, <1>6, <1>7, NoConnectionAssumption DEF Connected
<1>9. Lists' = [Lists EXCEPT ![p] = @ \o q]
  <2>1. List(p)' = Lists[p] \o q
    BY <1>3, <1>6, <1>7, <1>8 DEF List
  <2>2. \A o \in Peer : o # p => List(o)' = List(o)
    BY <1>7, <1>8 DEF List
  <2> QED
    BY <1>5, <2>1, <2>2 DEF Lists
<1>10. Lists'[p] = Lists[p] \o q /\ Lists'[p] # <<>> /\ Head(Lists'[p]) = Head(Lists[p])
  <2> DEFINE s == Lists[p] \o q
  <2>1. /\ s \in Seq(JobChunk)
        /\ Len(s) = Len(Lists[p]) + Len(q)
        /\ \A i \in 1 .. Len(Lists[p]) : s[i] = Lists[p][i]
    BY <1>4, <1>5, ConcatProperties
  <2>2. 1 \in 1 .. Len(Lists[p]) /\ Len(q) \in Nat
    BY <1>4, <1>5
  <2> HIDE DEF s
  <2>3. s # <<>> /\ s[1] = Lists[p][1]
    BY <1>5, <2>1, <2>2, EmptySeq
  <2>4. Head(s) = s[1] /\ Head(Lists[p]) = Lists[p][1]
    BY <1>5, <2>1, <2>3
  <2> QED
    BY <1>5, <1>9, <2>3, <2>4 DEF s
<1>11. TypeOK'
  <2>1. status' \in [JobChunk -> CHUNK_STATUS]
    BY <1>3 DEF IInv, TypeOK, CHUNK_STATUS
  <2> QED
    BY <1>3, <1>7, <2>1 DEF IInv, TypeOK
<1>12. Extended(Lists, status, p, q, Lists', status')
  <2>1. /\ \A i \in 1 .. Len(q) : status[q[i]] = "not_found"
        /\ \A i \in 1 .. Len(q) : status'[q[i]] = "pending"
        /\ \A c \in JobChunk :
             (\A i \in 1 .. Len(q) : q[i] # c) => status'[c] = status[c]
    BY <1>3, <1>4
  <2> QED
    BY <1>4, <1>5, <1>9, <2>1 DEF Extended
<1>13. Ownership'
  <2>1. HasChunks'
    BY <1>5, <1>6, <1>7, <1>8, <1>9, <1>10 DEF IInv, Ownership, HasChunks
  <2>2. status \in [JobChunk -> CHUNK_STATUS] /\ Owned(Lists, status)
    BY DEF IInv, TypeOK, Ownership
  <2>3. Owned(Lists', status')
    BY <1>4, <1>5, <1>12, <2>2, OwnedExtended
  <2> QED
    BY <2>1, <2>3 DEF Ownership, Owned
<1>14. PartialData' /\ JobsAreAsked' /\ BlocksSaved'
  <2>1. \A c \in JobChunk :
          \/ status'[c] = status[c]
          \/ c \in Wanted(hashes) /\ status'[c] \in {"pending", "downloading"}
    BY <1>3
  <2>2. \A o \in Peer : Connected(o) =>
          /\ Connected(o)'
          /\ Downloading(o)' = Downloading(o)
          /\ connection'[o].status = connection[o].status
    BY <1>5, <1>6, <1>7, <1>8, <1>9, <1>10 DEF Downloading
  <2> QED
    BY <1>1, <1>3, <2>1, <2>2, GiveKeeps
<1>15. ConnectionsNeedJob'
  BY <1>3, <1>8, NoNewConnection
<1>16. GivesWanted(p, hashes)
  BY <1>4, <1>12 DEF GivesWanted
<1> QED
  BY <1>11, <1>13, <1>14, <1>15, <1>16 DEF IInv

\* A free connection is opened for at least one chunk, the first of which is
\* asked for at once.
LEMMA AddReceiverConnectionStep ==
  ASSUME IInv, NEW p \in Peer, NEW hashes \in IHave,
         AddReceiverConnection(p, hashes)
  PROVE  IInv' /\ GivesWanted(p, hashes)
<1> USE DEF job_vars
<1> DEFINE Opened(q) == [ chunks      |-> q,
                          status      |-> "pending_data",
                          since_start |-> 0,
                          since_get   |-> 0,
                          since_data  |-> 0 ]
<1>1. hashes \in Seq(Hash)
  BY DownloadAssumption
<1>2. PICK q \in Selection(hashes) :
        /\ connection' = [connection EXCEPT ![p] = Opened(q)]
        /\ status' = [c \in JobChunk |-> IF c = q[1] THEN "downloading"
                                         ELSE IF c \in Wanted(hashes)
                                           THEN "pending" ELSE status[c]]
  BY DEF AddReceiverConnection
<1>3. /\ ~Connected(p)
      /\ ConnectionNumber < max_receiver_connection
      /\ Wanted(hashes) # {}
      /\ pc' = "input"
      /\ UNCHANGED <<job_vars, received_seq_num, data, since_flood, file>>
  BY DEF AddReceiverConnection, Phase
<1>4. /\ q \in Seq(JobChunk)
      /\ \A i, j \in 1 .. Len(q) : q[i] = q[j] => i = j
      /\ \A i \in 1 .. Len(q) : q[i] \in Wanted(hashes) /\ q[i] \in JobChunk
      /\ \A c \in Wanted(hashes) : \E i \in 1 .. Len(q) : q[i] = c
      /\ \A c \in Wanted(hashes) : status[c] = "not_found"
      /\ current_job \in JobId
  BY <1>1, <1>3, SelectionIsWanted, WantedIsFinite
<1>5. Len(q) \in Nat /\ 1 \in 1 .. Len(q) /\ q # <<>>
  <2>1. Len(q) \in Nat /\ Len(q) # 0
    BY <1>3, <1>4, LenProperties
  <2>2. q # <<>>
    BY <1>4, <2>1, EmptySeq
  <2> QED
    BY <2>1, <2>2
<1>6. /\ Opened(q) \in ReceiverConnection
      /\ Opened(q).chunks = q
  <2>1. 0 \in Age
    BY DownloadAssumption DEF Age
  <2> QED
    BY <1>4, <2>1 DEF ReceiverConnection, RECEIVER_STATUS
<1> HIDE DEF Opened
<1>7. /\ connection'[p] = Opened(q)
      /\ \A o \in Peer : o # p => connection'[o] = connection[o]
      /\ connection' \in [Peer -> ReceiverConnection \cup {NoConnection}]
  BY <1>2, <1>6 DEF IInv, TypeOK
<1>8. /\ Connected(p)'
      /\ \A o \in Peer : o # p => (Connected(o)' <=> Connected(o))
  BY <1>6, <1>7, NoConnectionAssumption DEF Connected
<1>9. /\ Lists \in [Peer -> Seq(JobChunk)]
      /\ Lists[p] = <<>>
  BY <1>3, ListsOfChunks DEF IInv
<1>10. Lists' = [Lists EXCEPT ![p] = @ \o q]
  <2>1. List(p)' = <<>> \o q
    BY <1>4, <1>6, <1>7, <1>8, ConcatEmptySeq DEF List
  <2>2. \A o \in Peer : o # p => List(o)' = List(o)
    BY <1>7, <1>8 DEF List
  <2> QED
    BY <1>9, <2>1, <2>2 DEF Lists
<1>11. TypeOK'
  <2>1. status' \in [JobChunk -> CHUNK_STATUS]
    BY <1>2 DEF IInv, TypeOK, CHUNK_STATUS
  <2> QED
    BY <1>3, <1>7, <2>1 DEF IInv, TypeOK
<1>12. Extended(Lists, status, p, q, Lists', status')
  <2>1. \A i \in 1 .. Len(q) : status[q[i]] = "not_found"
    BY <1>4
  <2>2. \A i \in 1 .. Len(q) :
          status'[q[i]] = IF i = 1 THEN "downloading" ELSE "pending"
    BY <1>2, <1>4, <1>5
  <2>3. \A c \in JobChunk :
          (\A i \in 1 .. Len(q) : q[i] # c) => status'[c] = status[c]
    BY <1>2, <1>4, <1>5
  <2> QED
    BY <1>4, <1>9, <1>10, <2>1, <2>2, <2>3 DEF Extended
<1>13. Ownership'
  <2>1. HasChunks'
    BY <1>5, <1>6, <1>7, <1>8 DEF IInv, Ownership, HasChunks
  <2>2. status \in [JobChunk -> CHUNK_STATUS] /\ Owned(Lists, status)
    BY DEF IInv, TypeOK, Ownership
  <2>3. Owned(Lists', status')
    BY <1>4, <1>9, <1>12, <2>2, OwnedExtended
  <2> QED
    BY <2>1, <2>3 DEF Ownership, Owned
<1>14. PartialData' /\ JobsAreAsked' /\ BlocksSaved'
  <2>1. \A c \in JobChunk :
          \/ status'[c] = status[c]
          \/ c \in Wanted(hashes) /\ status'[c] \in {"pending", "downloading"}
    BY <1>2, <1>4, <1>5
  <2>2. \A o \in Peer : Connected(o) =>
          /\ Connected(o)'
          /\ Downloading(o)' = Downloading(o)
          /\ connection'[o].status = connection[o].status
    BY <1>3, <1>7, <1>8 DEF Downloading
  <2> QED
    BY <1>1, <1>3, <2>1, <2>2, GiveKeeps
<1>15. ConnectionsNeedJob'
  <2> DEFINE old == {o \in Peer : Connected(o)}
             new == {o \in Peer : Connected(o)'}
  <2>1. IsFiniteSet(old) /\ Cardinality(old) \in Nat /\ p \notin old
    BY <1>3, PeersCounted
  <2>2. new = old \cup {p}
    BY <1>3, <1>8
  <2>3. Cardinality(new) = Cardinality(old) + 1
    BY <2>1, <2>2, FS_AddElement
  <2>4. ConnectionNumber = Cardinality(old) /\ ConnectionNumber' = Cardinality(new)
    BY DEF ConnectionNumber
  <2> QED
    BY <1>3, <1>4, <2>1, <2>3, <2>4, DownloadAssumption
    DEF ConnectionsNeedJob
<1>16. GivesWanted(p, hashes)
  BY <1>4, <1>12 DEF GivesWanted
<1> QED
  BY <1>11, <1>13, <1>14, <1>15, <1>16 DEF IInv

-----------------------------------------------------------------------------
\* A GET that is sent again leaves the rest of the connection as it was.
LEMMA GetAgainKeeps ==
  ASSUME NEW rc \in ReceiverConnection
  PROVE  LET again == [rc EXCEPT !.since_get = 0]
         IN  /\ again \in ReceiverConnection
             /\ again.chunks = rc.chunks
             /\ again.status = rc.status
<1>1. 0 \in Age
  BY DownloadAssumption DEF Age
<1> QED
  BY <1>1 DEF ReceiverConnection

\* The peers whose connections receivers_timeout cancels.
Gone == {p \in Peer : Connected(p) /\ ProviderCrashed(connection[p])}

\* What receivers_timeout cancels is what the peers that are gone held, and
\* nothing else changes its status: a chunk that is asked for again was
\* being downloaded already.
LEMMA ReceiversTimeoutEffect ==
  ASSUME IInv, ReceiversTimeout
  PROVE  /\ \A p \in Peer : Connected(p)' <=> Connected(p) /\ p \notin Gone
         /\ \A p \in Peer : Connected(p)' =>
              /\ connection'[p] \in ReceiverConnection
              /\ connection'[p].chunks = connection[p].chunks
              /\ connection'[p].status = connection[p].status
         /\ \A c \in JobChunk : c \in Cancelled <=>
              \E p \in Peer \cap Gone : \E i \in 1 .. Len(Lists[p]) :
                Lists[p][i] = c
         /\ \A c \in JobChunk : c \in Cancelled =>
              status[c] \in {"pending", "downloading"}
         /\ \A c \in JobChunk :
              status'[c] = IF c \in Cancelled THEN "not_found" ELSE status[c]
<1>1. \A p \in Peer : Connected(p) =>
        /\ connection[p] \in ReceiverConnection
        /\ connection[p].chunks \in Seq(JobChunk)
        /\ Lists[p] = connection[p].chunks
  BY ListsOfChunks DEF IInv
<1>2. \A p \in Peer :
        connection'[p] =
          IF ~Connected(p) \/ ProviderCrashed(connection[p]) THEN NoConnection
          ELSE IF GetLost(connection[p])
            THEN [connection[p] EXCEPT !.since_get = 0]
            ELSE connection[p]
  BY DEF ReceiversTimeout
<1>3. \A p \in Peer :
        /\ Connected(p)' <=> Connected(p) /\ p \notin Gone
        /\ Connected(p)' =>
             /\ connection'[p] \in ReceiverConnection
             /\ connection'[p].chunks = connection[p].chunks
             /\ connection'[p].status = connection[p].status
  <2> TAKE p \in Peer
  <2>1. CASE ~Connected(p) \/ p \in Gone
    BY <1>2, <2>1 DEF Gone, Connected
  <2>2. CASE Connected(p) /\ p \notin Gone
    <3>1. ~(~Connected(p) \/ ProviderCrashed(connection[p]))
      BY <2>2 DEF Gone
    <3> DEFINE again == [connection[p] EXCEPT !.since_get = 0]
    <3>2. /\ again \in ReceiverConnection
          /\ again.chunks = connection[p].chunks
          /\ again.status = connection[p].status
      BY <1>1, <2>2, GetAgainKeeps
    <3>3. connection'[p] = again \/ connection'[p] = connection[p]
      BY <1>2, <3>1
    <3> HIDE DEF again
    <3>4. /\ connection'[p] \in ReceiverConnection
          /\ connection'[p].chunks = connection[p].chunks
          /\ connection'[p].status = connection[p].status
      BY <1>1, <2>2, <3>2, <3>3
    <3> QED
      BY <2>2, <3>4, NoConnectionAssumption DEF Connected
  <2> QED
    BY <2>1, <2>2
<1>4. \A c \in JobChunk : c \in Cancelled <=>
        \E p \in Peer \cap Gone : \E i \in 1 .. Len(Lists[p]) : Lists[p][i] = c
  <2>1. \A p \in Gone : p \in Peer /\ DOMAIN connection[p].chunks = 1 .. Len(Lists[p])
    BY <1>1, LenProperties DEF Gone
  <2>2. \A c : c \in Cancelled <=>
          \E p \in Gone : \E i \in DOMAIN connection[p].chunks :
            connection[p].chunks[i] = c
    BY DEF Cancelled, Gone, Range
  <2> QED
    BY <1>1, <2>1, <2>2 DEF Gone
<1>5. \A c \in JobChunk : c \in Cancelled =>
        status[c] \in {"pending", "downloading"}
  BY <1>4 DEF IInv, Ownership, Owned
<1>6. ASSUME NEW c \in JobChunk
      PROVE  status'[c] = IF c \in Cancelled THEN "not_found" ELSE status[c]
  <2>1. \A p \in Peer : Connected(p) => status[Downloading(p)] = "downloading"
    BY HeadIsDownloading
  <2>2. status'[c] =
          IF c \in Cancelled /\ status[c] # "finished" THEN "not_found"
          ELSE IF \E p \in Peer : /\ Connected(p)
                                  /\ GetLost(connection[p])
                                  /\ c = Downloading(p)
            THEN "downloading"
            ELSE status[c]
    BY DEF ReceiversTimeout
  <2> QED
    BY <1>5, <2>1, <2>2
<1> QED
  BY <1>3, <1>4, <1>5, <1>6

\* receivers_timeout: what is given up is given back with its data.
LEMMA ReceiversTimeoutStep ==
  ASSUME IInv, ReceiversTimeout
  PROVE  IInv'
<1> USE DEF job_vars
<1>1. /\ \A p \in Peer : Connected(p)' <=> Connected(p) /\ p \notin Gone
      /\ \A p \in Peer : Connected(p)' =>
           /\ connection'[p] \in ReceiverConnection
           /\ connection'[p].chunks = connection[p].chunks
           /\ connection'[p].status = connection[p].status
      /\ \A c \in JobChunk : c \in Cancelled <=>
           \E p \in Peer \cap Gone : \E i \in 1 .. Len(Lists[p]) :
             Lists[p][i] = c
      /\ \A c \in JobChunk : c \in Cancelled =>
           status[c] \in {"pending", "downloading"}
      /\ \A c \in JobChunk :
           status'[c] = IF c \in Cancelled THEN "not_found" ELSE status[c]
  BY ReceiversTimeoutEffect
<1>2. /\ pc' = "finish"
      /\ DOMAIN connection' = Peer
      /\ connection' = [p \in Peer |-> connection'[p]]
      /\ status' \in [JobChunk -> CHUNK_STATUS]
      /\ UNCHANGED <<job_vars, since_flood, file>>
  <2>1. status' = [c \in JobChunk |-> status'[c]]
    BY DEF ReceiversTimeout
  <2>2. \A c \in JobChunk : status'[c] \in CHUNK_STATUS
    BY <1>1 DEF IInv, TypeOK, CHUNK_STATUS
  <2> QED
    BY <2>1, <2>2 DEF ReceiversTimeout, Phase
<1>3. /\ data' = [c \in JobChunk |->
                    IF c \in Cancelled THEN <<>> ELSE data[c]]
      /\ received_seq_num' = [c \in JobChunk |->
                    IF c \in Cancelled THEN 0 ELSE received_seq_num[c]]
  <2>1. \A c \in JobChunk :
          c \in Cancelled /\ status[c] # "finished" <=> c \in Cancelled
    BY <1>1
  <2> QED
    BY <2>1 DEF ReceiversTimeout
<1>4. \A p \in Peer : Connected(p) => Lists[p] = connection[p].chunks
  BY ListsOfChunks DEF IInv
<1>5. TypeOK'
  <2>1. connection' \in [Peer -> ReceiverConnection \cup {NoConnection}]
    <3>1. \A p \in Peer : connection'[p] \in ReceiverConnection \cup {NoConnection}
      BY <1>1 DEF Connected
    <3> QED
      BY <1>2, <3>1
  <2>2. data' \in [JobChunk -> Seq(Hash)]
    BY <1>3, EmptySeq DEF IInv, TypeOK
  <2>3. received_seq_num' \in [JobChunk -> 0 .. CHUNK_DATA_NUM - 1]
    BY <1>3, DownloadAssumption DEF IInv, TypeOK
  <2> QED
    BY <1>2, <2>1, <2>2, <2>3 DEF IInv, TypeOK
<1>6. Ownership'
  <2>1. HasChunks'
    BY <1>1 DEF IInv, Ownership, HasChunks
  <2>2. status \in [JobChunk -> CHUNK_STATUS] /\ Owned(Lists, status)
    BY DEF IInv, TypeOK, Ownership
  <2>3. Lists' = [o \in Peer |-> IF o \in Gone THEN <<>> ELSE Lists[o]]
    <3>1. \A o \in Peer : List(o)' = IF o \in Gone THEN <<>> ELSE List(o)
      BY <1>1 DEF List
    <3> QED
      BY <3>1 DEF Lists
  <2>4. \A o \in Peer \cap Gone : \A i \in 1 .. Len(Lists[o]) :
          status'[Lists[o][i]] \notin {"pending", "downloading"}
    <3>1. \A o \in Peer : \A i \in 1 .. Len(Lists[o]) : Lists[o][i] \in JobChunk
      BY ListsOfChunks DEF IInv
    <3> QED
      BY <1>1, <3>1
  <2>5. \A c \in JobChunk :
          (\A o \in Peer \cap Gone : \A i \in 1 .. Len(Lists[o]) :
             Lists[o][i] # c) => status'[c] = status[c]
    BY <1>1
  <2>6. GivenUp(Lists, status, Gone, Lists', status')
    BY <2>3, <2>4, <2>5 DEF GivenUp
  <2>7. Lists \in [Peer -> Seq(JobChunk)]
    BY ListsOfChunks DEF IInv
  <2>8. Owned(Lists', status')
    BY <2>2, <2>6, <2>7, OwnedGivenUp
  <2> QED
    BY <2>1, <2>8 DEF Ownership, Owned
<1>7. PartialData'
  <2> SUFFICES ASSUME NEW c \in JobChunk
               PROVE  /\ received_seq_num'[c] = Len(data'[c])
                      /\ data'[c] # <<>> =>
                           \E o \in Peer : /\ Connected(o)'
                                           /\ Downloading(o)' = c
                                           /\ connection'[o].status = "received_data"
    BY DEF PartialData
  <2>1. CASE c \in Cancelled
    BY <1>3, <2>1, EmptySeq
  <2>2. CASE c \notin Cancelled
    <3>1. data'[c] = data[c] /\ received_seq_num'[c] = received_seq_num[c]
      BY <1>3, <2>2
    <3>2. ASSUME NEW o \in Peer, Connected(o), Downloading(o) = c,
                 connection[o].status = "received_data"
          PROVE  /\ Connected(o)'
                 /\ Downloading(o)' = c
                 /\ connection'[o].status = "received_data"
      <4>1. Lists[o][1] = c /\ 1 \in 1 .. Len(Lists[o])
        BY <3>2, HeadIsDownloading
      <4>2. o \notin Gone
        BY <1>1, <2>2, <4>1
      <4> QED
        BY <1>1, <3>2, <4>2 DEF Downloading
    <3>3. /\ received_seq_num[c] = Len(data[c])
          /\ data[c] # <<>> =>
               \E o \in Peer : /\ Connected(o)
                               /\ Downloading(o) = c
                               /\ connection[o].status = "received_data"
      BY DEF IInv, PartialData
    <3> QED
      BY <3>1, <3>2, <3>3
  <2> QED
    BY <2>1, <2>2
<1>8. ConnectionsNeedJob'
  BY <1>1, <1>2, NoNewConnection
<1>9. JobsAreAsked'
  BY <1>1, <1>2 DEF IInv, JobsAreAsked
<1>10. BlocksSaved'
  <2>1. \A c \in JobChunk : status'[c] = "finished" <=> status[c] = "finished"
    BY <1>1
  <2>2. UNCHANGED <<file, got, current_job>>
    BY <1>2
  <2> QED
    BY <2>1, <2>2, BlocksKept
<1> QED
  BY <1>5, <1>6, <1>7, <1>8, <1>9, <1>10 DEF IInv

-----------------------------------------------------------------------------
(* The invariant.                                                          *)

\* A node that has just started: no connection, nothing given or written.
LEMMA InitHolds == Init => IInv
<1> SUFFICES ASSUME Init PROVE IInv
  OBVIOUS
<1>1. TypeOK
  <2>1. 0 \in Age /\ 0 \in 0 .. CHUNK_DATA_NUM - 1
    BY DownloadAssumption DEF Age
  <2> QED
    BY <2>1, EmptySeq DEF Init, TypeOK, CHUNK_STATUS
<1>2. \A p \in Peer : ~Connected(p)
  BY DEF Init, Connected
<1>3. Ownership
  <2>1. \A p \in Peer : Lists[p] = <<>> /\ Len(Lists[p]) = 0
    BY <1>2 DEF Lists, List
  <2>2. \A c \in JobChunk : status[c] = "not_found"
    BY DEF Init
  <2> QED
    BY <1>2, <2>1, <2>2 DEF Ownership, HasChunks, Owned
<1>4. PartialData
  BY EmptySeq DEF Init, PartialData
<1>5. ConnectionsNeedJob
  <2>1. {p \in Peer : Connected(p)} = {}
    BY <1>2
  <2>2. ConnectionNumber = 0
    BY <2>1, FS_EmptySet DEF ConnectionNumber
  <2> QED
    BY <2>2, DownloadAssumption DEF ConnectionsNeedJob
<1>6. JobsAreAsked
  BY DownloadAssumption DEF Init, JobsAreAsked
<1>7. BlocksSaved
  <2>1. \A j \in JobId : DOMAIN file[j] = {}
    BY DEF Init
  <2>2. \A c \in JobChunk : WholeBlocks(c) = {}
    BY <2>1 DEF WholeBlocks
  <2>3. \A c \in JobChunk : c[1] \in JobId /\ status[c] = "not_found"
    BY DEF Init, JobChunk
  <2> QED
    BY <2>2, <2>3 DEF Init, BlocksSaved, WrittenOnce, SavedInOwnFile,
                      GotIsComplete
<1> QED
  BY <1>1, <1>3, <1>4, <1>5, <1>6, <1>7 DEF IInv

\* Every phase of a turn keeps the invariant.
LEMMA StepKeeps == IInv /\ [Next]_vars => IInv'
<1> SUFFICES ASSUME IInv, [Next]_vars PROVE IInv'
  OBVIOUS
<1>1. CASE \E dt \in {0, 1} : Select(dt)
  BY <1>1, SelectStep
<1>2. CASE \E p \in Peer, hashes \in IHave : ReceiveIHave(p, hashes)
  <2> PICK p \in Peer, hashes \in IHave : ReceiveIHave(p, hashes)
    BY <1>2
  <2>1. CASE ExtendConnection(p, hashes)
    BY <2>1, ExtendConnectionStep
  <2>2. CASE AddReceiverConnection(p, hashes)
    BY <2>2, AddReceiverConnectionStep
  <2>3. CASE IgnoreIHave(p, hashes)
    BY <2>3, QuietStep DEF IgnoreIHave, Phase
  <2> QED
    BY <2>1, <2>2, <2>3 DEF ReceiveIHave
<1>3. CASE \E p \in Peer, n \in 1 .. CHUNK_DATA_NUM, hash \in Hash :
             ReceiveData(p, n, hash)
  <2> PICK p \in Peer, n \in 1 .. CHUNK_DATA_NUM, hash \in Hash :
        ReceiveData(p, n, hash)
    BY <1>3
  <2>1. CASE IgnoreData(p, n)
    BY <2>1, QuietStep DEF IgnoreData, Phase
  <2>2. CASE AcknowledgeAgain(p, n)
    BY <2>2, QuietStep DEF AcknowledgeAgain, Phase
  <2>3. CASE SaveDataPacket(p, n, hash)
    BY <2>3, SaveDataPacketStep
  <2>4. CASE FinishChunk(p, n, hash)
    BY <2>4, FinishChunkStep
  <2> QED
    BY <2>1, <2>2, <2>3, <2>4 DEF ReceiveData
<1>4. CASE NoPacket
  BY <1>4, QuietStep DEF NoPacket, Phase
<1>5. CASE \E j \in JobId : ProcessGet(j)
  BY <1>5, ProcessGetStep
<1>6. CASE NoUserInput
  BY <1>6, QuietStep DEF NoUserInput, Phase
<1>7. CASE ReceiversTimeout
  BY <1>7, ReceiversTimeoutStep
<1>8. CASE FloodAndFinishJob
  BY <1>8, FloodAndFinishJobStep
<1>9. CASE UNCHANGED vars
  BY <1>9, QuietStep DEF vars, IInv, TypeOK
<1> QED
  BY <1>1, <1>2, <1>3, <1>4, <1>5, <1>6, <1>7, <1>8, <1>9 DEF Next

\* The inductive invariant holds however many peers, jobs and chunks there
\* are, whatever the peers send and however the saves fail.
THEOREM Invariance == Spec => []IInv
BY InitHolds, StepKeeps, PTL DEF Spec

\* The variables stay in their types.
THEOREM TypeCorrect == Spec => []TypeOK
<1>1. IInv => TypeOK
  BY DEF IInv
<1> QED
  BY <1>1, Invariance, PTL

\* A chunk under way is in one list, at one place, and its status says which:
\* it is never asked of two peers at once, and never left to none.
THEOREM ChunksHaveOneOwner == Spec => []ChunkOwnership
<1>1. IInv => ChunkOwnership
  <2> SUFFICES ASSUME IInv PROVE ChunkOwnership
    OBVIOUS
  <2>1. \A p \in Peer : /\ List(p) = Lists[p]
                        /\ DOMAIN List(p) = 1 .. Len(Lists[p])
    BY ListsOfChunks, LenProperties DEF IInv
  <2>2. \A p \in Peer : Connected(p) => List(p) # <<>>
    BY ListsOfChunks DEF IInv, Ownership, HasChunks
  <2>3. \A p \in Peer : IsInjective(List(p))
    BY <2>1 DEF IInv, Ownership, Owned, IsInjective
  <2>4. \A p : \A c : c \in Range(List(p)) <=>
          \E i \in DOMAIN List(p) : List(p)[i] = c
    BY DEF Range
  <2>5. \A p, q \in Peer : p # q => Range(List(p)) \cap Range(List(q)) = {}
    BY <2>1, <2>4 DEF IInv, Ownership, Owned
  <2>6. \A c \in JobChunk :
          status[c] \in {"pending", "downloading"} =>
            \E p \in Peer : c \in Range(List(p))
    BY <2>1, <2>4 DEF IInv, Ownership, Owned
  <2>7. \A p \in Peer : \A k \in DOMAIN List(p) :
          status[List(p)[k]] = IF k = 1 THEN "downloading" ELSE "pending"
    BY <2>1 DEF IInv, Ownership, Owned
  <2> QED
    BY <2>2, <2>3, <2>5, <2>6, <2>7 DEF ChunkOwnership
<1> QED
  BY <1>1, Invariance, PTL

\* What is received of a chunk comes from the one peer it is still expected
\* from, and is as long as its sequence number says.
THEOREM DataIsOfOneDownload == Spec => []PartialData
<1>1. IInv => PartialData
  BY DEF IInv
<1> QED
  BY <1>1, Invariance, PTL

\* There is a job as long as there is a connection, and there are not more
\* connections than allowed.
THEOREM ConnectionsHaveTheirJob == Spec => []ConnectionsNeedJob
<1>1. IInv => ConnectionsNeedJob
  BY DEF IInv
<1> QED
  BY <1>1, Invariance, PTL

\* A chunk is finished exactly when one whole block of it is in the files,
\* whatever saves failed before.
THEOREM FinishedChunksAreSavedOnce == Spec => []FinishedIsSaved
<1>1. IInv => FinishedIsSaved
  <2> SUFFICES ASSUME IInv, NEW c \in JobChunk
               PROVE  Cardinality(WholeBlocks(c)) =
                        IF status[c] = "finished" THEN 1 ELSE 0
    BY DEF FinishedIsSaved
  <2>1. CASE status[c] = "finished"
    <3>1. PICK b \in WholeBlocks(c) : WholeBlocks(c) = {b}
      BY <2>1 DEF IInv, BlocksSaved, WrittenOnce
    <3> QED
      BY <2>1, <3>1, FS_Singleton
  <2>2. CASE status[c] # "finished"
    <3>1. WholeBlocks(c) = {}
      BY <2>2 DEF IInv, BlocksSaved, WrittenOnce
    <3> QED
      BY <2>2, <3>1, FS_EmptySet
  <2> QED
    BY <2>1, <2>2
<1> QED
  BY <1>1, Invariance, PTL

\* GOT is printed only for a job all of whose chunks are in its own file.
THEOREM ReportedJobsAreComplete == Spec => []GotIsComplete
<1>1. IInv => GotIsComplete
  BY DEF IInv, BlocksSaved
<1> QED
  BY <1>1, Invariance, PTL

-----------------------------------------------------------------------------
(* What the packets of a step claim.                                       *)

\* SentStep, of one packet for p.
Truthful(p, packet) ==
  /\ packet.type = "ACK" => TrueAck(p, packet.ack_number)
  /\ packet.type = "GET" => TrueGet(p, packet.hash)

\* A flood acknowledges nothing and asks for no chunk in particular.
LEMMA FloodClaimsNothing ==
  ASSUME NEW j, out' = FloodWhoHas(j)
  PROVE  SentStep
<1> SUFFICES ASSUME NEW p \in Peer, NEW k \in DOMAIN out'[p]
             PROVE  out'[p][k].type = "WHOHAS"
  BY DEF SentStep
<1>1. CASE out' = Silence
  <2>1. DOMAIN out'[p] = {}
    BY <1>1 DEF Silence
  <2> QED
    BY <2>1
<1>2. CASE out' = [o \in Peer |-> WhoHasPackets(WhoHasHashes(j, status))]
  <2> DEFINE hashes == WhoHasHashes(j, status)
  <2> HIDE DEF hashes
  <2>1. out'[p] = WhoHasPackets(hashes)
    BY <1>2 DEF hashes
  <2>2. \A i \in DOMAIN WhoHasPackets(hashes) :
          WhoHasPackets(hashes)[i].type = "WHOHAS"
    BY DEF WhoHasPackets, WhoHasPacket
  <2> QED
    BY <2>1, <2>2
<1> QED
  BY <1>1, <1>2 DEF FloodWhoHas

\* A step that sends nothing.
LEMMA SilenceClaimsNothing ==
  ASSUME out' = Silence
  PROVE  SentStep
BY DEF SentStep, Silence

\* One packet for one peer.
LEMMA OneClaim ==
  ASSUME NEW p \in Peer, NEW packet, out' = [Silence EXCEPT ![p] = <<packet>>],
         Truthful(p, packet)
  PROVE  SentStep
<1>1. \A o \in Peer : o # p => out'[o] = <<>>
  BY DEF Silence
<1>2. out'[p] = <<packet>>
  BY DEF Silence
<1> SUFFICES ASSUME NEW o \in Peer, NEW k \in DOMAIN out'[o]
             PROVE  Truthful(o, out'[o][k])
  BY DEF SentStep, Truthful
<1>3. CASE o # p
  <2>1. DOMAIN out'[o] = {}
    BY <1>1, <1>3
  <2> QED
    BY <2>1
<1>4. CASE o = p
  <2>1. k = 1 /\ out'[o][k] = packet
    BY <1>2, <1>4
  <2> QED
    BY <1>4, <2>1
<1> QED
  BY <1>3, <1>4

\* A new connection waits for the chunk its first GET names.
LEMMA AddReceiverConnectionClaims ==
  ASSUME IInv, NEW p \in Peer, NEW hashes \in IHave,
         AddReceiverConnection(p, hashes)
  PROVE  SentStep
<1> DEFINE Opened(q) == [ chunks      |-> q,
                          status      |-> "pending_data",
                          since_start |-> 0,
                          since_get   |-> 0,
                          since_data  |-> 0 ]
<1>1. PICK q \in Selection(hashes) :
        /\ connection' = [connection EXCEPT ![p] = Opened(q)]
        /\ out' = [Silence EXCEPT ![p] = <<GetPacket(q[1])>>]
  BY DEF AddReceiverConnection
<1>2. /\ hashes \in Seq(Hash)
      /\ Wanted(hashes) # {}
  BY DownloadAssumption DEF AddReceiverConnection
<1>3. q \in Seq(JobChunk) /\ Len(q) # 0
  BY <1>2, SelectionIsWanted, LenProperties
<1>4. Opened(q) \in ReceiverConnection
  <2>1. 0 \in Age
    BY DownloadAssumption DEF Age
  <2> QED
    BY <1>3, <2>1 DEF ReceiverConnection, RECEIVER_STATUS
<1>5. connection'[p] = Opened(q) /\ Opened(q).chunks = q
  BY <1>1 DEF IInv, TypeOK
<1> HIDE DEF Opened
<1>6. Connected(p)' /\ Downloading(p)' = q[1]
  <2>1. Head(q) = q[1]
    BY <1>3
  <2> QED
    BY <1>4, <1>5, <2>1, NoConnectionAssumption DEF Connected, Downloading
<1>7. Truthful(p, GetPacket(q[1]))
  BY <1>6 DEF Truthful, GetPacket, TrueGet
<1> QED
  BY <1>1, <1>7, OneClaim

\* A DATA packet that is early changes nothing, and is told so.
LEMMA AcknowledgeAgainClaims ==
  ASSUME IInv, NEW p \in Peer, NEW n \in 1 .. CHUNK_DATA_NUM,
         AcknowledgeAgain(p, n)
  PROVE  SentStep
<1> DEFINE c == Downloading(p)
<1>1. Connected(p) /\ status'[c] = "downloading"
      /\ received_seq_num'[c] = received_seq_num[c]
  BY HeadIsDownloading DEF AcknowledgeAgain, chunk_vars
<1>2. Truthful(p, AckPacket(received_seq_num[c]))
  BY <1>1 DEF Truthful, AckPacket, TrueAck, ReceivedInOrder
<1> QED
  BY <1>2, OneClaim DEF AcknowledgeAgain

\* The packet that was expected is the one acknowledged.
LEMMA SaveDataPacketClaims ==
  ASSUME IInv, NEW p \in Peer, NEW n \in 1 .. CHUNK_DATA_NUM, NEW hash \in Hash,
         SaveDataPacket(p, n, hash)
  PROVE  SentStep
<1> DEFINE c == Downloading(p)
<1>1. /\ Connected(p)
      /\ received_seq_num' = [received_seq_num EXCEPT ![c] = n]
      /\ status' = status
      /\ out' = [Silence EXCEPT ![p] = <<AckPacket(n)>>]
  BY DEF SaveDataPacket, Expected
<1>2. c \in JobChunk /\ status[c] = "downloading"
  BY <1>1, HeadIsDownloading
<1>3. status'[c] = "downloading" /\ received_seq_num'[c] = n
  BY <1>1, <1>2 DEF IInv, TypeOK
<1>4. Truthful(p, AckPacket(n))
  BY <1>1, <1>3 DEF Truthful, AckPacket, TrueAck, ReceivedInOrder
<1> QED
  BY <1>1, <1>4, OneClaim

\* The end of a chunk: all of it is acknowledged, saved or not, and the GET
\* that may follow names the chunk the connection goes on with.
LEMMA FinishChunkClaims ==
  ASSUME IInv, NEW p \in Peer, NEW n \in 1 .. CHUNK_DATA_NUM, NEW hash \in Hash,
         FinishChunk(p, n, hash)
  PROVE  SentStep
<1> DEFINE c == Downloading(p)
           rest == Tail(connection[p].chunks)
           ack == AckPacket(n)
           get == GetPacket(Head(rest))
<1>1. /\ Connected(p)
      /\ n = received_seq_num[c] + 1
      /\ Len(Append(data[c], hash)) = CHUNK_DATA_NUM
      /\ out' = [Silence EXCEPT ![p] =
                   <<ack>> \o (IF rest = <<>> THEN <<>> ELSE <<get>>)]
  BY DEF FinishChunk, Expected
<1>2. /\ c \in JobChunk
      /\ status'[c] \in {"finished", "not_found"}
      /\ Connected(p)' <=> rest # <<>>
      /\ Connected(p)' => connection'[p].chunks = rest
  <2>1. Lists[p] = connection[p].chunks
    BY <1>1, ListsOfChunks DEF IInv
  <2> QED
    BY <2>1, FinishChunkEffect
<1>3. n = CHUNK_DATA_NUM
  <2>1. data[c] \in Seq(Hash) /\ received_seq_num[c] = Len(data[c])
    BY <1>2 DEF IInv, TypeOK, PartialData
  <2> QED
    BY <1>1, <2>1, AppendProperties
<1>4. Truthful(p, ack)
  BY <1>1, <1>2, <1>3 DEF Truthful, AckPacket, TrueAck, ReceivedInOrder
<1>5. rest # <<>> => Truthful(p, get)
  BY <1>2 DEF Truthful, GetPacket, TrueGet, Downloading
<1> HIDE DEF ack, get, rest, c
<1>6. CASE rest = <<>>
  <2>1. out' = [Silence EXCEPT ![p] = <<ack>>]
    BY <1>1, <1>6
  <2> QED
    BY <1>4, <2>1, OneClaim
<1>7. CASE rest # <<>>
  <2> DEFINE both == <<ack>> \o <<get>>
  <2>1. out'[p] = both /\ \A o \in Peer : o # p => out'[o] = <<>>
    BY <1>1, <1>7 DEF Silence
  <2>2. DOMAIN both = 1 .. 2 /\ both[1] = ack /\ both[2] = get
    <3>1. <<ack>> \in Seq({ack, get}) /\ <<get>> \in Seq({ack, get})
      OBVIOUS
    <3> QED
      BY <3>1, ConcatProperties
  <2> HIDE DEF both
  <2> SUFFICES ASSUME NEW o \in Peer, NEW k \in DOMAIN out'[o]
               PROVE  Truthful(o, out'[o][k])
    BY DEF SentStep, Truthful
  <2>3. CASE o # p
    <3>1. DOMAIN out'[o] = {}
      BY <2>1, <2>3
    <3> QED
      BY <3>1
  <2>4. CASE o = p
    <3>1. \/ k = 1 /\ out'[o][k] = ack
          \/ k = 2 /\ out'[o][k] = get
      BY <2>1, <2>2, <2>4
    <3> QED
      BY <1>4, <1>5, <1>7, <2>4, <3>1
  <2> QED
    BY <2>3, <2>4
<1> QED
  BY <1>6, <1>7

\* A GET is sent again for the chunk the connection still waits for.
LEMMA ReceiversTimeoutClaims ==
  ASSUME IInv, ReceiversTimeout
  PROVE  SentStep
<1>1. out' = [p \in Peer |-> IF Connected(p) /\ GetLost(connection[p])
                               THEN <<GetPacket(Downloading(p))>>
                               ELSE <<>>]
  BY DEF ReceiversTimeout
<1> SUFFICES ASSUME NEW p \in Peer, NEW k \in DOMAIN out'[p]
             PROVE  Truthful(p, out'[p][k])
  BY DEF SentStep, Truthful
<1>2. CASE ~(Connected(p) /\ GetLost(connection[p]))
  <2>1. DOMAIN out'[p] = {}
    BY <1>1, <1>2
  <2> QED
    BY <2>1
<1>3. CASE Connected(p) /\ GetLost(connection[p])
  <2>1. out'[p][k] = GetPacket(Downloading(p))
    BY <1>1, <1>3
  <2>2. Connected(p)' /\ Downloading(p)' = Downloading(p)
    BY <1>3, ReceiversTimeoutEffect DEF Gone, GetLost, Downloading
  <2> QED
    BY <2>1, <2>2 DEF Truthful, GetPacket, TrueGet
<1> QED
  BY <1>2, <1>3

\* One of the lemmas above applies to each phase of a turn.
LEMMA EveryStepSendsTheTruth == IInv /\ Next => SentStep
<1> SUFFICES ASSUME IInv, Next PROVE SentStep
  OBVIOUS
<1>1. CASE \E dt \in {0, 1} : Select(dt)
  BY <1>1, SilenceClaimsNothing DEF Select
<1>2. CASE \E p \in Peer, hashes \in IHave : ReceiveIHave(p, hashes)
  BY <1>2, AddReceiverConnectionClaims, SilenceClaimsNothing
  DEF ReceiveIHave, ExtendConnection, IgnoreIHave
<1>3. CASE \E p \in Peer, n \in 1 .. CHUNK_DATA_NUM, hash \in Hash :
             ReceiveData(p, n, hash)
  <2> PICK p \in Peer, n \in 1 .. CHUNK_DATA_NUM, hash \in Hash :
        ReceiveData(p, n, hash)
    BY <1>3
  <2>1. CASE IgnoreData(p, n)
    BY <2>1, SilenceClaimsNothing DEF IgnoreData
  <2>2. CASE AcknowledgeAgain(p, n)
    BY <2>2, AcknowledgeAgainClaims
  <2>3. CASE SaveDataPacket(p, n, hash)
    BY <2>3, SaveDataPacketClaims
  <2>4. CASE FinishChunk(p, n, hash)
    BY <2>4, FinishChunkClaims
  <2> QED
    BY <2>1, <2>2, <2>3, <2>4 DEF ReceiveData
<1>4. CASE \E j \in JobId : ProcessGet(j)
  BY <1>4, FloodClaimsNothing DEF ProcessGet
<1>5. CASE NoPacket \/ NoUserInput
  BY <1>5, SilenceClaimsNothing DEF NoPacket, NoUserInput
<1>6. CASE ReceiversTimeout
  BY <1>6, ReceiversTimeoutClaims
<1>7. CASE FloodAndFinishJob
  BY <1>7, FloodClaimsNothing, SilenceClaimsNothing DEF FloodAndFinishJob
<1> QED
  BY <1>1, <1>2, <1>3, <1>4, <1>5, <1>6, <1>7 DEF Next

\* Every acknowledgement names the last packet received in order, and every
\* GET the chunk the connection waits for, whatever arrived and was lost.
THEOREM PacketsAreTrue == Spec => SentIsTrue
<1>1. IInv /\ [Next]_vars => [SentStep]_vars
  BY EveryStepSendsTheTruth
<1> QED
  BY <1>1, Invariance, PTL DEF Spec, SentIsTrue

-----------------------------------------------------------------------------
(* The refinement.                                                         *)

\* The chunk c is in the list of p.
InList(L, p, c) == \E i \in 1 .. Len(L[p]) : L[p][i] = c

\* The refinement mapping, in the terms of the status and the lists.
HoldersKnown ==
  \A c \in JobChunk :
    /\ status[c] \in CHUNK_STATUS
    /\ status[c] = "not_found" => Holder(c) = Missing
    /\ status[c] = "finished" => Holder(c) = Saved
    /\ status[c] \in {"pending", "downloading"} =>
         \E p \in Peer : InList(Lists, p, c)
    /\ \A p \in Peer : InList(Lists, p, c) =>
         /\ Holder(c) = GivenTo({p})
         /\ status[c] \in {"pending", "downloading"}

\* The values of the refinement mapping are told apart.
LEMMA HoldersDiffer ==
  /\ Missing # Saved
  /\ \A peers : GivenTo(peers) # Missing /\ GivenTo(peers) # Saved
  /\ \A p, q : GivenTo({p}) = GivenTo({q}) => p = q
<1>1. /\ Missing[1] = "missing"
      /\ Saved[1] = "saved"
      /\ \A peers : GivenTo(peers)[1] = "given to"
      /\ \A peers : GivenTo(peers)[2] = peers
  BY DEF Missing, Saved, GivenTo
<1>2. Missing # Saved
  BY <1>1
<1>3. \A peers : GivenTo(peers) # Missing /\ GivenTo(peers) # Saved
  BY <1>1
<1>4. ASSUME NEW p, NEW q, GivenTo({p}) = GivenTo({q})
      PROVE  p = q
  <2>1. GivenTo({p})[2] = {p} /\ GivenTo({q})[2] = {q}
    BY <1>1
  <2>2. {p} = {q}
    BY <1>4, <2>1, Zenon
  <2> QED
    BY <2>2
<1> QED
  BY <1>2, <1>3, <1>4

\* One list has a chunk that is on its way, and so one peer holds it.
LEMMA HoldersAreKnown == IInv => HoldersKnown
<1> SUFFICES ASSUME IInv, NEW c \in JobChunk
             PROVE  /\ status[c] \in CHUNK_STATUS
                    /\ status[c] = "not_found" => Holder(c) = Missing
                    /\ status[c] = "finished" => Holder(c) = Saved
                    /\ status[c] \in {"pending", "downloading"} =>
                         \E p \in Peer : InList(Lists, p, c)
                    /\ \A p \in Peer : InList(Lists, p, c) =>
                         /\ Holder(c) = GivenTo({p})
                         /\ status[c] \in {"pending", "downloading"}
  BY DEF HoldersKnown
<1>1. status[c] \in CHUNK_STATUS
  BY DEF IInv, TypeOK
<1>2. /\ status[c] = "not_found" => Holder(c) = Missing
      /\ status[c] = "finished" => Holder(c) = Saved
  BY DEF Holder
<1>3. status[c] \in {"pending", "downloading"} =>
        \E p \in Peer : InList(Lists, p, c)
  BY DEF IInv, Ownership, Owned, InList
<1>4. ASSUME NEW p \in Peer, InList(Lists, p, c)
      PROVE  Holder(c) = GivenTo({p}) /\ status[c] \in {"pending", "downloading"}
  <2>1. PICK i \in 1 .. Len(Lists[p]) : Lists[p][i] = c
    BY <1>4 DEF InList
  <2>2. status[c] \in {"pending", "downloading"}
    BY <2>1 DEF IInv, Ownership, Owned
  <2>3. \A o \in Peer : c \in Range(List(o)) <=>
          \E k \in 1 .. Len(Lists[o]) : Lists[o][k] = c
    <3>1. \A o \in Peer : /\ List(o) = Lists[o]
                          /\ DOMAIN List(o) = 1 .. Len(Lists[o])
      BY ListsOfChunks, LenProperties DEF IInv
    <3> QED
      BY <3>1 DEF Range
  <2>4. \A o \in Peer : c \in Range(List(o)) <=> o = p
    BY <2>1, <2>3 DEF IInv, Ownership, Owned
  <2>5. {o \in Peer : c \in Range(List(o))} = {p}
    BY <2>4
  <2>6. status[c] # "not_found" /\ status[c] # "finished"
    BY <2>2
  <2> QED
    BY <2>2, <2>5, <2>6 DEF Holder
<1> QED
  BY <1>1, <1>2, <1>3, <1>4

\* The same, after a step.
LEMMA HoldersStayKnown == IInv' => HoldersKnown'
BY HoldersAreKnown, PTL

\* A chunk that does not move, although it may get to the head of its list.
LEMMA SameHolder ==
  ASSUME HoldersKnown, HoldersKnown', NEW c \in JobChunk,
         status'[c] = "not_found" <=> status[c] = "not_found",
         status'[c] = "finished" <=> status[c] = "finished",
         \A p \in Peer : InList(Lists, p, c) => InList(Lists', p, c)
  PROVE  Holder(c)' = Holder(c)
<1>1. /\ status'[c] = "not_found" => Holder(c)' = Missing
      /\ status'[c] = "finished" => Holder(c)' = Saved
      /\ \A p \in Peer : InList(Lists', p, c) => Holder(c)' = GivenTo({p})
  BY DEF HoldersKnown
<1>2. CASE status[c] \in {"not_found", "finished"}
  BY <1>1, <1>2 DEF HoldersKnown
<1>3. CASE status[c] \notin {"not_found", "finished"}
  <2>1. PICK p \in Peer : InList(Lists, p, c)
    BY <1>3 DEF HoldersKnown, CHUNK_STATUS
  <2> QED
    BY <1>1, <2>1 DEF HoldersKnown
<1> QED
  BY <1>2, <1>3

\* A step without a move of a chunk.
LEMMA SameHolders ==
  ASSUME HoldersKnown, HoldersKnown',
         status' = status,
         \A p \in Peer : List(p)' = List(p)
  PROVE  \A c \in JobChunk : Holder(c)' = Holder(c)
<1>1. Lists' = Lists
  BY DEF Lists
<1> QED
  BY <1>1, SameHolder

\* Where the chunks of an extended list are.
LEMMA ExtendedLists ==
  ASSUME NEW L \in [Peer -> Seq(JobChunk)], NEW st,
         NEW p \in Peer, NEW q \in Seq(JobChunk), NEW M, NEW st2,
         Extended(L, st, p, q, M, st2)
  PROVE  /\ \A c : (\E i \in 1 .. Len(q) : q[i] = c) => InList(M, p, c)
         /\ \A c : \A o \in Peer : InList(L, o, c) => InList(M, o, c)
<1>1. L[p] \in Seq(JobChunk) /\ Len(L[p]) \in Nat /\ Len(q) \in Nat
  BY SMT
<1>2. M[p] = L[p] \o q /\ \A o \in Peer : o # p => M[o] = L[o]
  BY DEF Extended
<1>3. /\ Len(L[p] \o q) = Len(L[p]) + Len(q)
      /\ \A i \in 1 .. Len(L[p]) : (L[p] \o q)[i] = L[p][i]
      /\ \A i \in 1 .. Len(q) : (L[p] \o q)[Len(L[p]) + i] = q[i]
  BY <1>1, ConcatProperties, SMT
<1>4. ASSUME NEW c, NEW i \in 1 .. Len(q), q[i] = c
      PROVE  InList(M, p, c)
  <2>1. Len(L[p]) + i \in 1 .. Len(M[p])
    BY <1>1, <1>2, <1>3
  <2> QED
    BY <1>2, <1>3, <1>4, <2>1 DEF InList
<1>5. ASSUME NEW c, NEW o \in Peer, InList(L, o, c)
      PROVE  InList(M, o, c)
  <2>1. CASE o # p
    BY <1>2, <1>5, <2>1 DEF InList
  <2>2. CASE o = p
    <3>1. PICK i \in 1 .. Len(L[p]) : L[p][i] = c
      BY <1>5, <2>2 DEF InList
    <3>2. i \in 1 .. Len(M[p])
      BY <1>1, <1>2, <1>3
    <3> QED
      BY <1>2, <1>3, <2>2, <3>1, <3>2 DEF InList
  <2> QED
    BY <2>1, <2>2
<1> QED
  BY <1>4, <1>5

\* A step of the loop that the assignment does not see.
LEMMA StutterRefined ==
  ASSUME HoldersKnown, HoldersKnown',
         UNCHANGED <<job_vars, status>>,
         \A p \in Peer : List(p)' = List(p)
  PROVE  UNCHANGED Assigned!vars
BY SameHolders DEF job_vars, Assigned!vars

\* An IHAVE: the peer is given the chunks that were missing.
LEMMA GiveRefined ==
  ASSUME IInv, HoldersKnown, HoldersKnown',
         NEW p \in Peer, NEW hashes \in IHave, GivesWanted(p, hashes),
         UNCHANGED job_vars
  PROVE  Assigned!Next
<1> DEFINE chunks == Wanted(hashes)
<1>1. PICK q \in Seq(JobChunk) :
        /\ Extended(Lists, status, p, q, Lists', status')
        /\ \A c \in JobChunk :
             c \in chunks <=> \E i \in 1 .. Len(q) : q[i] = c
  BY DEF GivesWanted
<1>2. \A c \in chunks : /\ c \in JobChunk
                        /\ c[1] = current_job
                        /\ status[c] = "not_found"
  BY WantedIsFinite
<1>3. Lists \in [Peer -> Seq(JobChunk)]
  BY ListsOfChunks DEF IInv
<1>4. /\ \A c : (\E i \in 1 .. Len(q) : q[i] = c) => InList(Lists', p, c)
      /\ \A c : \A o \in Peer : InList(Lists, o, c) => InList(Lists', o, c)
  BY <1>1, <1>3, ExtendedLists
<1> HIDE DEF chunks
<1>5. ASSUME NEW c \in JobChunk
      PROVE  Holder(c)' = IF c \in chunks THEN GivenTo({p}) ELSE Holder(c)
  <2>1. CASE c \in chunks
    <3>1. InList(Lists', p, c)
      BY <1>1, <1>4, <2>1
    <3> QED
      BY <2>1, <3>1 DEF HoldersKnown
  <2>2. CASE c \notin chunks
    <3>1. \A i \in 1 .. Len(q) : q[i] # c
      BY <1>1, <2>2
    <3>2. status'[c] = status[c]
      BY <1>1, <3>1 DEF Extended
    <3>3. Holder(c)' = Holder(c)
      BY <1>4, <3>2, SameHolder
    <3> QED
      BY <2>2, <3>3
  <2> QED
    BY <2>1, <2>2
<1>6. \A c \in chunks : Holder(c) = Missing
  BY <1>2 DEF HoldersKnown
<1>7. Assigned!Give(GivenTo({p}), chunks)
  BY <1>2, <1>5, <1>6 DEF Assigned!Give, job_vars
<1>8. chunks \in SUBSET JobChunk
  BY <1>2
<1> QED
  BY <1>7, <1>8 DEF Assigned!Next

\* The end of a chunk: it is saved, or missing again.
LEMMA FinishChunkRefined ==
  ASSUME IInv, HoldersKnown, HoldersKnown',
         NEW p \in Peer, NEW n \in 1 .. CHUNK_DATA_NUM, NEW hash \in Hash,
         FinishChunk(p, n, hash)
  PROVE  Assigned!Next
<1>1. PICK c \in JobChunk :
      /\ c = Lists[p][1]
      /\ Len(Lists[p]) \in Nat \ {0}
      /\ status[c] = "downloading"
      /\ status'[c] \in {"finished", "not_found"}
      /\ \A d \in JobChunk : d # c =>
           \/ status'[d] = status[d]
           \/ status[d] = "pending" /\ status'[d] = "downloading"
      /\ Advanced(Lists, status, p, Lists', status')
      /\ UNCHANGED job_vars
  <2>1. Connected(p) /\ UNCHANGED job_vars
    BY DEF FinishChunk, Expected
  <2>2. /\ Downloading(p) \in JobChunk
        /\ Downloading(p) = Lists[p][1]
        /\ Len(Lists[p]) \in Nat \ {0}
    BY <2>1, HeadIsDownloading
  <2> QED
    BY <2>1, <2>2, FinishChunkEffect
<1>2. Lists \in [Peer -> Seq(JobChunk)]
  BY ListsOfChunks DEF IInv
<1>3. ASSUME NEW d \in JobChunk, d # c, NEW o \in Peer, InList(Lists, o, d)
      PROVE  InList(Lists', o, d)
  <2>1. PICK i \in 1 .. Len(Lists[o]) : Lists[o][i] = d
    BY <1>3 DEF InList
  <2>2. CASE o # p
    <3>1. Lists'[o] = Lists[o]
      BY <1>1, <1>2, <2>2 DEF Advanced
    <3> QED
      BY <2>1, <3>1 DEF InList
  <2>3. CASE o = p
    <3>1. /\ Lists'[p] = Tail(Lists[p])
          /\ Lists[p] \in Seq(JobChunk)
          /\ Lists[p] # <<>>
      BY <1>1, <1>2 DEF Advanced
    <3>2. /\ Len(Tail(Lists[p])) = Len(Lists[p]) - 1
          /\ \A k \in 1 .. Len(Tail(Lists[p])) :
               Tail(Lists[p])[k] = Lists[p][k + 1]
      BY <3>1, HeadTailProperties
    <3>3. i \in 2 .. Len(Lists[p])
      BY <1>1, <1>3, <2>1, <2>3
    <3>4. /\ i - 1 \in 1 .. Len(Lists'[p])
          /\ Lists'[p][i - 1] = d
      BY <1>1, <2>1, <2>3, <3>1, <3>2, <3>3
    <3> QED
      BY <2>3, <3>4 DEF InList
  <2> QED
    BY <2>2, <2>3
<1>4. \A d \in JobChunk : d # c => Holder(d)' = Holder(d)
  BY <1>1, <1>3, SameHolder
<1>5. Holder(c) = GivenTo({p})
  BY <1>1 DEF HoldersKnown, InList
<1>6. CASE status'[c] = "finished"
  <2>1. Holder(c)' = Saved
    BY <1>1, <1>6 DEF HoldersKnown
  <2>2. Assigned!Save(c)
    BY <1>1, <1>4, <1>5, <2>1 DEF Assigned!Save, Assigned!HeldBy, job_vars
  <2> QED
    BY <1>1, <2>2 DEF Assigned!Next
<1>7. CASE status'[c] = "not_found"
  <2>1. Holder(c)' = Missing
    BY <1>1, <1>7 DEF HoldersKnown
  <2>2. Assigned!Reject(c)
    BY <1>1, <1>4, <1>5, <2>1 DEF Assigned!Reject, Assigned!HeldBy, job_vars
  <2> QED
    BY <1>1, <2>2 DEF Assigned!Next
<1> QED
  BY <1>1, <1>6, <1>7

\* receivers_timeout: peers are given up, with all they hold.
LEMMA ReceiversTimeoutRefined ==
  ASSUME IInv, HoldersKnown, HoldersKnown', ReceiversTimeout
  PROVE  Assigned!Next
<1> DEFINE peers == {GivenTo({p}) : p \in Gone}
<1>1. /\ \A p \in Peer : Connected(p)' <=> Connected(p) /\ p \notin Gone
      /\ \A p \in Peer : Connected(p)' =>
           connection'[p].chunks = connection[p].chunks
      /\ \A c \in JobChunk : c \in Cancelled <=>
           \E p \in Peer \cap Gone : InList(Lists, p, c)
      /\ \A c \in JobChunk :
           status'[c] = IF c \in Cancelled THEN "not_found" ELSE status[c]
      /\ \A c \in JobChunk : c \in Cancelled =>
           status[c] \in {"pending", "downloading"}
      /\ UNCHANGED job_vars
  BY ReceiversTimeoutEffect DEF InList, ReceiversTimeout
<1>2. \A p \in Peer : p \notin Gone => Lists'[p] = Lists[p]
  BY <1>1 DEF Lists, List
<1>3. ASSUME NEW c \in JobChunk
      PROVE  Holder(c)' = IF Holder(c) \in peers THEN Missing ELSE Holder(c)
  <2>1. CASE c \in Cancelled
    <3>1. PICK p \in Peer \cap Gone : InList(Lists, p, c)
      BY <1>1, <2>1
    <3>2. Holder(c) = GivenTo({p})
      BY <3>1 DEF HoldersKnown
    <3>3. Holder(c)' = Missing
      BY <1>1, <2>1 DEF HoldersKnown
    <3> QED
      BY <3>2, <3>3
  <2>2. CASE c \notin Cancelled
    <3>1. status'[c] = status[c]
      BY <1>1, <2>2
    <3>2. \A p \in Peer : InList(Lists, p, c) => p \notin Gone
      BY <1>1, <2>2
    <3>3. \A p \in Peer : InList(Lists, p, c) => InList(Lists', p, c)
      BY <1>2, <3>2 DEF InList
    <3>4. Holder(c)' = Holder(c)
      BY <3>1, <3>3, SameHolder
    <3>5. Holder(c) \notin peers
      <4>1. CASE status[c] \in {"not_found", "finished"}
        <5>1. Holder(c) \in {Missing, Saved}
          BY <4>1 DEF HoldersKnown
        <5> QED
          BY <5>1, HoldersDiffer
      <4>2. CASE status[c] \notin {"not_found", "finished"}
        <5>1. PICK p \in Peer : InList(Lists, p, c)
          BY <4>2 DEF HoldersKnown, CHUNK_STATUS
        <5>2. Holder(c) = GivenTo({p}) /\ p \notin Gone
          BY <3>2, <5>1 DEF HoldersKnown
        <5> QED
          BY <5>2, HoldersDiffer
      <4> QED
        BY <4>1, <4>2
    <3> QED
      BY <3>4, <3>5
  <2> QED
    BY <2>1, <2>2
<1>4. peers \in SUBSET {GivenTo({p}) : p \in Peer}
  BY DEF Gone
<1> HIDE DEF peers
<1>5. Assigned!GiveUp(peers)
  BY <1>1, <1>3 DEF Assigned!GiveUp, Assigned!HeldBy, job_vars
<1> QED
  BY <1>4, <1>5 DEF Assigned!Next

\* finish_job: without connections, what is not missing is saved.
LEMMA FinishJobRefined ==
  ASSUME IInv, HoldersKnown, HoldersKnown', FloodAndFinishJob, JobFinished
  PROVE  Assigned!Next
<1>1. /\ current_job # NoJob
      /\ got' = got \cup {current_job}
      /\ current_job' = NoJob
      /\ asked' = asked
      /\ \A c \in JobChunk : c[1] = current_job => status[c] # "not_found"
  BY DEF FloodAndFinishJob, JobFinished, NotFound
<1>2. \A c \in JobChunk : Holder(c)' = Holder(c)
  <2>1. status' = status /\ \A p \in Peer : List(p)' = List(p)
    BY DEF FloodAndFinishJob, chunk_vars, List, Connected
  <2> QED
    BY <2>1, SameHolders
<1>3. \A c \in JobChunk : \A p \in Peer : ~InList(Lists, p, c)
  <2>1. \A p \in Peer : Lists[p] = <<>>
    BY ConnectionsHaveJob, ListsOfChunks DEF IInv, JobFinished
  <2> QED
    BY <2>1 DEF InList
<1>4. \A c \in JobChunk : Holder(c) \in {Missing, Saved}
  BY <1>3 DEF HoldersKnown, CHUNK_STATUS
<1>5. \A c \in JobChunk : c[1] = current_job => Holder(c) = Saved
  BY <1>1, <1>3 DEF HoldersKnown, CHUNK_STATUS
<1>6. Assigned!HeldBy({GivenTo({p}) : p \in Peer}) = {}
  BY <1>4, HoldersDiffer DEF Assigned!HeldBy
<1>7. Assigned!Report
  BY <1>1, <1>2, <1>5, <1>6 DEF Assigned!Report
<1> QED
  BY <1>7 DEF Assigned!Next

\* Every step of the loop is a step of the assignment, or leaves it alone.
LEMMA StepRefined ==
  ASSUME IInv, HoldersKnown, HoldersKnown', [Next]_vars
  PROVE  [Assigned!Next]_(Assigned!vars)
<1>1. CASE \E dt \in {0, 1} : Select(dt)
  <2> PICK dt \in {0, 1} : Select(dt)
    BY <1>1
  <2>1. \A p \in Peer : List(p)' = List(p)
    <3>1. \A p \in Peer : Connected(p) =>
            /\ connection[p] \in ReceiverConnection
            /\ connection'[p] = Elapse(connection[p], dt)
      BY ListsOfChunks DEF IInv, Select
    <3>2. \A p \in Peer : Connected(p) =>
            /\ connection'[p] \in ReceiverConnection
            /\ connection'[p].chunks = connection[p].chunks
      BY <3>1, ElapseKeeps
    <3>3. \A p \in Peer : ~Connected(p) => connection'[p] = NoConnection
      BY DEF Select
    <3> QED
      BY <3>2, <3>3, NoConnectionAssumption DEF List, Connected
  <2> QED
    BY <2>1, StutterRefined DEF Select, chunk_vars
<1>2. CASE \E p \in Peer, hashes \in IHave : ReceiveIHave(p, hashes)
  <2> PICK p \in Peer, hashes \in IHave : ReceiveIHave(p, hashes)
    BY <1>2
  <2>1. CASE ExtendConnection(p, hashes)
    <3>1. GivesWanted(p, hashes) /\ UNCHANGED job_vars
      BY <2>1, ExtendConnectionStep DEF ExtendConnection
    <3> QED
      BY <3>1, GiveRefined
  <2>2. CASE AddReceiverConnection(p, hashes)
    <3>1. GivesWanted(p, hashes) /\ UNCHANGED job_vars
      BY <2>2, AddReceiverConnectionStep DEF AddReceiverConnection
    <3> QED
      BY <3>1, GiveRefined
  <2>3. CASE IgnoreIHave(p, hashes)
    BY <2>3, StutterRefined DEF IgnoreIHave, chunk_vars, List, Connected
  <2> QED
    BY <2>1, <2>2, <2>3 DEF ReceiveIHave
<1>3. CASE \E p \in Peer, n \in 1 .. CHUNK_DATA_NUM, hash \in Hash :
             ReceiveData(p, n, hash)
  <2> PICK p \in Peer, n \in 1 .. CHUNK_DATA_NUM, hash \in Hash :
        ReceiveData(p, n, hash)
    BY <1>3
  <2>1. CASE IgnoreData(p, n)
    BY <2>1, StutterRefined DEF IgnoreData, chunk_vars, List, Connected
  <2>2. CASE AcknowledgeAgain(p, n)
    BY <2>2, StutterRefined DEF AcknowledgeAgain, chunk_vars, List, Connected
  <2>3. CASE SaveDataPacket(p, n, hash)
    <3>1. /\ Connected(p)
          /\ connection[p] \in ReceiverConnection
          /\ connection' = [connection EXCEPT ![p] = Heard(@)]
          /\ UNCHANGED <<job_vars, status>>
      BY <2>3, ListsOfChunks DEF IInv, SaveDataPacket, Expected, job_vars
    <3>2. /\ Heard(connection[p]) \in ReceiverConnection
          /\ Heard(connection[p]).chunks = connection[p].chunks
      BY <3>1, HeardKeeps
    <3>3. /\ connection'[p] = Heard(connection[p])
          /\ \A o \in Peer : o # p => connection'[o] = connection[o]
      BY <3>1 DEF IInv, TypeOK
    <3>4. \A o \in Peer : List(o)' = List(o)
      BY <3>1, <3>2, <3>3, NoConnectionAssumption DEF List, Connected
    <3> QED
      BY <3>1, <3>4, StutterRefined
  <2>4. CASE FinishChunk(p, n, hash)
    BY <2>4, FinishChunkRefined
  <2> QED
    BY <2>1, <2>2, <2>3, <2>4 DEF ReceiveData
<1>4. CASE NoPacket
  BY <1>4, StutterRefined DEF NoPacket, chunk_vars, List, Connected
<1>5. CASE \E j \in JobId : ProcessGet(j)
  <2> PICK j \in JobId : ProcessGet(j)
    BY <1>5
  <2>1. \A c \in JobChunk : Holder(c)' = Holder(c)
    <3>1. status' = status /\ \A p \in Peer : List(p)' = List(p)
      BY DEF ProcessGet, chunk_vars, List, Connected
    <3> QED
      BY <3>1, SameHolders
  <2>2. Assigned!Start(j)
    BY <2>1 DEF Assigned!Start, ProcessGet
  <2> QED
    BY <2>2 DEF Assigned!Next
<1>6. CASE NoUserInput
  BY <1>6, StutterRefined DEF NoUserInput, chunk_vars, List, Connected
<1>7. CASE ReceiversTimeout
  BY <1>7, ReceiversTimeoutRefined
<1>8. CASE FloodAndFinishJob
  <2>1. CASE JobFinished
    BY <1>8, <2>1, FinishJobRefined
  <2>2. CASE ~JobFinished
    BY <1>8, <2>2, StutterRefined
    DEF FloodAndFinishJob, chunk_vars, job_vars, List, Connected
  <2> QED
    BY <2>1, <2>2
<1>9. CASE UNCHANGED vars
  BY <1>9, StutterRefined DEF vars, chunk_vars, List, Connected
<1> QED
  BY <1>1, <1>2, <1>3, <1>4, <1>5, <1>6, <1>7, <1>8, <1>9 DEF Next

\* The downloader implements the assignment: chunks are moved between peers,
\* saved and reported, and neither lost nor doubled, by every step it takes.
THEOREM ChunksAreAssigned == Spec => ChunksAssigned
<1>1. Init => Assigned!Init
  <2> SUFFICES ASSUME Init PROVE Assigned!Init
    OBVIOUS
  <2>1. \A c \in JobChunk : Holder(c) = Missing
    BY DEF Init, Holder
  <2> QED
    BY <2>1 DEF Init, Assigned!Init
<1>2. IInv /\ IInv' /\ [Next]_vars => [Assigned!Next]_(Assigned!vars)
  BY HoldersAreKnown, HoldersStayKnown, StepRefined
<1> QED
  BY <1>1, <1>2, Invariance, PTL DEF Spec, ChunksAssigned, Assigned!Spec

-----------------------------------------------------------------------------
(* The packets of a flood.                                                 *)

\* The numbers up to n that are in the set, in ascending order.
InOrder(a, set, n) ==
  /\ a \in Seq(set \cap (1 .. n))
  /\ \A i, j \in 1 .. Len(a) : i < j => a[i] < a[j]
  /\ \A m \in set \cap (1 .. n) : \E i \in 1 .. Len(a) : a[i] = m

\* That is what Ascending returns.
LEMMA AscendingInOrder ==
  ASSUME NEW set, NEW n \in Nat
  PROVE  InOrder(Ascending(set, n), set, n)
<1> DEFINE S == Seq(set \cap (1 .. n))
           Longer(x, k) == IF k \in set THEN Append(x, k) ELSE x
           IsListed(f) == f = [k \in 0 .. n |-> IF k = 0 THEN <<>>
                                ELSE IF k \in set THEN Append(f[k - 1], k)
                                                  ELSE f[k - 1]]
           step == [k \in 1 .. n |-> [x \in S |-> Longer(x, k)]]
<1>1. \A k \in 1 .. n : \A x \in S : Longer(x, k) \in S
  BY AppendProperties
<1>2. step \in [1 .. n -> [S -> S]]
  <2> HIDE DEF S, Longer
  <2> QED
    BY <1>1
<1>3. <<>> \in S
  BY EmptySeq
<1>4. PICK f \in [0 .. n -> S] :
        f[0] = <<>> /\ \A k \in 1 .. n : f[k] = step[k][f[k - 1]]
  <2>1. Iterates(n, S, <<>>, step)
    <3> HIDE DEF S, step
    <3> QED
      BY <1>2, <1>3, Recursion
  <2> QED
    BY <2>1 DEF Iterates
<1>5. IsListed(f)
  <2>1. \A k \in 1 .. n : step[k][f[k - 1]] = Longer(f[k - 1], k)
    <3> HIDE DEF S, Longer
    <3> QED
      BY <1>4
  <2>2. \A k \in 0 .. n : f[k] = IF k = 0 THEN <<>> ELSE Longer(f[k - 1], k)
    <3> HIDE DEF step, Longer, S
    <3> QED
      BY <1>4, <2>1
  <2> HIDE DEF S
  <2> QED
    BY <2>2
<1>6. Ascending(set, n) = (CHOOSE g : IsListed(g))[n]
  BY DEF Ascending
<1>7. IsListed(CHOOSE g : IsListed(g))
  BY <1>5
<1> DEFINE h == CHOOSE g : IsListed(g)
<1> HIDE DEF h
<1>8. /\ h[0] = <<>>
      /\ \A k \in 1 .. n : h[k] = Longer(h[k - 1], k)
  <2>1. h = [k \in 0 .. n |-> IF k = 0 THEN <<>> ELSE Longer(h[k - 1], k)]
    BY <1>7 DEF h
  <2> HIDE DEF Longer
  <2> QED
    BY <2>1
<1> DEFINE Good == {k \in Nat : k <= n => InOrder(h[k], set, k)}
<1>9. 0 \in Good
  <2>1. h[0] = <<>>
    BY <1>8, Zenon
  <2>2. InOrder(<<>>, set, 0)
    BY EmptySeq DEF InOrder
  <2> QED
    BY <2>1, <2>2
<1>10. \A k \in Nat : k \in Good => k + 1 \in Good
  <2> SUFFICES ASSUME NEW k \in Nat, InOrder(h[k], set, k), k + 1 <= n
               PROVE  InOrder(h[k + 1], set, k + 1)
    OBVIOUS
  <2> DEFINE a == h[k]
             b == h[k + 1]
  <2>1. b = Longer(a, k + 1)
    <3> HIDE DEF Longer
    <3>1. k + 1 \in 1 .. n /\ (k + 1) - 1 = k
      OBVIOUS
    <3> QED
      BY <1>8, <3>1
  <2> HIDE DEF a, b
  <2>2. /\ a \in Seq(set \cap (1 .. k))
        /\ \A i, j \in 1 .. Len(a) : i < j => a[i] < a[j]
        /\ \A m \in set \cap (1 .. k) : \E i \in 1 .. Len(a) : a[i] = m
    BY DEF InOrder, a
  <2>3. /\ a \in Seq(set \cap (1 .. k + 1))
        /\ Len(a) \in Nat
        /\ \A i \in 1 .. Len(a) : a[i] \in 1 .. k
    BY <2>2, SMT
  <2>4. CASE k + 1 \notin set
    <3>1. b = a
      BY <2>1, <2>4
    <3>2. set \cap (1 .. k + 1) = set \cap (1 .. k)
      <4>1. \A m : m \in 1 .. k + 1 <=> m \in 1 .. k \/ m = k + 1
        OBVIOUS
      <4> QED
        BY <2>4, <4>1, Zenon
    <3> QED
      BY <2>2, <3>1, <3>2 DEF InOrder, a, b
  <2>5. CASE k + 1 \in set
    <3>1. b = Append(a, k + 1)
      BY <2>1, <2>5
    <3>2. /\ b \in Seq(set \cap (1 .. k + 1))
          /\ Len(b) = Len(a) + 1
          /\ \A i \in 1 .. Len(a) : b[i] = a[i]
          /\ b[Len(a) + 1] = k + 1
      BY <2>3, <2>5, <3>1, AppendProperties
    <3>0. \A i \in 1 .. Len(b) : i \in 1 .. Len(a) \/ i = Len(a) + 1
      BY <2>3, <3>2, SMT
    <3>3. \A i, j \in 1 .. Len(b) : i < j => b[i] < b[j]
      <4> SUFFICES ASSUME NEW i \in 1 .. Len(b), NEW j \in 1 .. Len(b), i < j
                   PROVE  b[i] < b[j]
        OBVIOUS
      <4>1. i \in 1 .. Len(a)
        BY <2>3, <3>0, <3>2
      <4>2. CASE j \in 1 .. Len(a)
        BY <2>2, <3>2, <4>1, <4>2
      <4>3. CASE j = Len(a) + 1
        <5>1. b[j] = k + 1
          BY <3>2, <4>3
        <5>2. b[i] = a[i] /\ a[i] \in 1 .. k
          BY <2>3, <3>2, <4>1
        <5> QED
          BY <5>1, <5>2
      <4> QED
        BY <3>0, <4>2, <4>3
    <3>4. \A m \in set \cap (1 .. k + 1) : \E i \in 1 .. Len(b) : b[i] = m
      <4> TAKE m \in set \cap (1 .. k + 1)
      <4>1. CASE m = k + 1
        <5>1. Len(a) + 1 \in 1 .. Len(b)
          BY <2>3, <3>2
        <5> QED
          BY <3>2, <4>1, <5>1
      <4>2. CASE m # k + 1
        <5>1. m \in set \cap (1 .. k)
          BY <4>2
        <5>2. PICK i \in 1 .. Len(a) : a[i] = m
          BY <2>2, <5>1
        <5>3. b[i] = m
          BY <3>2, <5>2
        <5>4. i \in 1 .. Len(b)
          <6>1. Len(b) = Len(a) + 1 /\ Len(a) \in Nat
            BY <2>3, <3>2
          <6> QED
            BY <6>1
        <5> QED
          BY <5>3, <5>4
      <4> QED
        BY <4>1, <4>2
    <3> QED
      BY <3>2, <3>3, <3>4 DEF InOrder, b
  <2> QED
    BY <2>4, <2>5 DEF a, b
<1>11. n \in Good
  <2> HIDE DEF Good
  <2> QED
    BY <1>9, <1>10, SetInduction
<1>12. Ascending(set, n) = h[n]
  BY <1>6 DEF h
<1> QED
  BY <1>11, <1>12

\* Multiplication keeps the order.
LEMMA Product ==
  ASSUME NEW a \in Nat, NEW b \in Nat, NEW m \in Nat, a <= b
  PROVE  a * m <= b * m /\ a * m \in Nat
OBVIOUS

\* What a number is divided into.
LEMMA Division ==
  ASSUME NEW n \in Nat, NEW m \in Nat \ {0}
  PROVE  /\ n \div m \in Nat
         /\ n % m \in 0 .. m - 1
         /\ n = (n \div m) * m + (n % m)
OBVIOUS

\* Where the packets of a flood of n hashes begin and end.
LEMMA Cuts ==
  ASSUME NEW n \in Nat
  PROVE  LET number == PacketNumber(n)
         IN  /\ number \in Nat
             /\ n <= number * MAX_HASH_LIST_NUM
             /\ \A k \in 1 .. number :
                  /\ (k - 1) * MAX_HASH_LIST_NUM \in 0 .. n - 1
                  /\ k < number => k * MAX_HASH_LIST_NUM <= n
<1> DEFINE m == MAX_HASH_LIST_NUM
           number == PacketNumber(n)
           q == n \div m
           r == n % m
<1>1. /\ q \in Nat
      /\ r \in 0 .. m - 1
      /\ n = q * m + r
      /\ m \in Nat \ {0}
  BY DownloadAssumption, Division
<1>2. number = IF r = 0 THEN q ELSE q + 1
  BY DEF PacketNumber
<1> HIDE DEF m, q, r, number
<1>3. /\ number \in Nat
      /\ number * m >= n
      /\ number # 0 => (number - 1) * m < n
  <2>1. CASE r = 0
    <3>1. number = q /\ n = number * m
      BY <1>1, <1>2, <2>1
    <3>2. number # 0 => (number - 1) * m = number * m - m
      BY <1>1, <3>1
    <3> QED
      BY <1>1, <3>1, <3>2
  <2>2. CASE r # 0
    <3>1. number = q + 1 /\ number - 1 = q
      BY <1>1, <1>2, <2>2
    <3>2. number * m = q * m + m
      BY <1>1, <3>1
    <3> QED
      BY <1>1, <2>2, <3>1, <3>2
  <2> QED
    BY <2>1, <2>2
<1>4. ASSUME NEW k \in 1 .. number
      PROVE  /\ (k - 1) * m \in 0 .. n - 1
             /\ k < number => k * m <= n
  <2>1. /\ k \in Nat /\ k - 1 \in Nat /\ number - 1 \in Nat
        /\ k - 1 <= number - 1
        /\ k < number => k <= number - 1
    BY <1>3
  <2>2. (k - 1) * m <= (number - 1) * m /\ (k - 1) * m \in Nat
    BY <1>1, <2>1, Product
  <2>3. k < number => k * m <= (number - 1) * m /\ k * m \in Nat
    BY <1>1, <2>1, Product
  <2>4. (number - 1) * m < n /\ (number - 1) * m \in Int
    BY <1>1, <1>3, <2>1
  <2> HIDE DEF m
  <2>5. k * m \in Int
    BY <1>1, <2>1
  <2> QED
    BY <1>1, <2>2, <2>3, <2>4, <2>5
<1>5. n <= number * m
  <2>1. number * m \in Int
    BY <1>1, <1>3
  <2> QED
    BY <1>3, <2>1
<1> QED
  BY <1>3, <1>4, <1>5 DEF number, m

\* What a flood consists of.
WhoHas == [type : {"WHOHAS"}, hashes : Seq(Hash)]

\* The lines of a job's chunk file that a flood asks for.
FloodLines(j, st) ==
  Ascending({i \in 1 .. Len(HashOf[j]) : <<j, i>> \in NotFound(j, st)},
            Len(HashOf[j]))

\* A flood lists the hash of every chunk that is not found, once.
LEMMA FloodHashes ==
  ASSUME NEW j \in JobId, NEW st
  PROVE  LET lines == FloodLines(j, st)
             hashes == WhoHasHashes(j, st)
         IN  /\ hashes \in Seq(Hash)
             /\ Len(hashes) = Len(lines)
             /\ \A n \in 1 .. Len(lines) :
                  /\ <<j, lines[n]>> \in NotFound(j, st)
                  /\ hashes[n] = HashOf[j][lines[n]]
             /\ \A m, n \in 1 .. Len(lines) : lines[m] = lines[n] => m = n
             /\ \A c \in NotFound(j, st) :
                  \E n \in 1 .. Len(lines) : c = <<j, lines[n]>>
<1> DEFINE set == {i \in 1 .. Len(HashOf[j]) : <<j, i>> \in NotFound(j, st)}
           last == Len(HashOf[j])
           lines == FloodLines(j, st)
           hashes == WhoHasHashes(j, st)
<1>1. /\ HashOf[j] \in Seq(Hash)
      /\ last \in Nat
      /\ \A i \in 1 .. last : HashOf[j][i] \in Hash
  BY DownloadAssumption, LenProperties, ElementOfSeq
<1>2. hashes = [k \in 1 .. Len(lines) |-> HashOf[j][lines[k]]]
  BY DEF WhoHasHashes, FloodLines
<1>3. InOrder(lines, set, last)
  <2> HIDE DEF set, last
  <2>1. InOrder(Ascending(set, last), set, last)
    BY <1>1, AscendingInOrder
  <2> QED
    BY <2>1 DEF FloodLines, set, last
<1>4. \A i \in set : i \in 1 .. last /\ <<j, i>> \in NotFound(j, st)
  OBVIOUS
<1>5. \A c \in NotFound(j, st) : \E i \in set : c = <<j, i>>
  <2> TAKE c \in NotFound(j, st)
  <2>1. c \in JobChunk /\ c[1] = j
    BY DEF NotFound
  <2>2. PICK o \in JobId : c \in {o} \X (1 .. Len(HashOf[o]))
    BY <2>1 DEF JobChunk
  <2>3. PICK i \in 1 .. Len(HashOf[o]) : c = <<o, i>>
    BY <2>2
  <2>4. o = j
    BY <2>1, <2>3
  <2> QED
    BY <2>3, <2>4
<1> HIDE DEF set, last, lines, hashes
<1>6. /\ lines \in Seq(set \cap (1 .. last))
      /\ \A i, k \in 1 .. Len(lines) : i < k => lines[i] < lines[k]
      /\ \A m \in set \cap (1 .. last) : \E i \in 1 .. Len(lines) : lines[i] = m
  BY <1>3 DEF InOrder
<1>7. /\ Len(lines) \in Nat
      /\ \A n \in 1 .. Len(lines) : lines[n] \in set /\ lines[n] \in 1 .. last
  BY <1>6, LenProperties, ElementOfSeq
<1>8. /\ hashes \in Seq(Hash)
      /\ Len(hashes) = Len(lines)
  <2>1. \A k \in 1 .. Len(lines) : HashOf[j][lines[k]] \in Hash
    BY <1>1, <1>7 DEF last
  <2> QED
    BY <1>2, <1>7, <2>1
<1>9. \A n \in 1 .. Len(lines) : /\ <<j, lines[n]>> \in NotFound(j, st)
                                 /\ hashes[n] = HashOf[j][lines[n]]
  BY <1>2, <1>4, <1>7
<1>10. \A m, n \in 1 .. Len(lines) : lines[m] = lines[n] => m = n
  <2> SUFFICES ASSUME NEW m \in 1 .. Len(lines), NEW n \in 1 .. Len(lines),
                      m # n
               PROVE  lines[m] # lines[n]
    OBVIOUS
  <2>1. m < n \/ n < m
    BY <1>7
  <2>2. lines[m] \in Int /\ lines[n] \in Int
    BY <1>7
  <2> QED
    <3>1. CASE m < n
      <4>1. lines[m] < lines[n]
        BY <1>6, <3>1
      <4> QED
        BY <2>2, <4>1
    <3>2. CASE n < m
      <4>1. lines[n] < lines[m]
        BY <1>6, <3>2
      <4> QED
        BY <2>2, <4>1
    <3> QED
      BY <2>1, <3>1, <3>2
<1>11. \A c \in NotFound(j, st) : \E n \in 1 .. Len(lines) : c = <<j, lines[n]>>
  <2> TAKE c \in NotFound(j, st)
  <2>1. PICK i \in set : c = <<j, i>>
    BY <1>5
  <2>2. PICK n \in 1 .. Len(lines) : lines[n] = i
    BY <1>4, <1>6, <2>1
  <2> QED
    BY <2>1, <2>2
<1> QED
  BY <1>8, <1>9, <1>10, <1>11 DEF lines, hashes

\* Where the packets of a flood get their hashes from.
LEMMA FloodPackets ==
  ASSUME NEW hashes \in Seq(Hash)
  PROVE  LET number == PacketNumber(Len(hashes))
             packets == WhoHasPackets(hashes)
             before(k) == (k - 1) * MAX_HASH_LIST_NUM
         IN  /\ number \in Nat
             /\ packets \in Seq(WhoHas)
             /\ Len(packets) = number
             /\ \A k \in 1 .. number :
                  /\ packets[k].hashes \in Seq(Hash)
                  /\ Len(packets[k].hashes) \in 1 .. MAX_HASH_LIST_NUM
                  /\ k < number => Len(packets[k].hashes) = MAX_HASH_LIST_NUM
                  /\ k = number => Len(packets[k].hashes) = Len(hashes) - before(k)
                  /\ before(k) \in Nat
                  /\ before(k) + Len(packets[k].hashes) <= Len(hashes)
                  /\ \A i \in 1 .. Len(packets[k].hashes) :
                       packets[k].hashes[i] = hashes[before(k) + i]
<1> DEFINE n == Len(hashes)
           number == PacketNumber(n)
           m == MAX_HASH_LIST_NUM
           packets == WhoHasPackets(hashes)
           before(k) == (k - 1) * m
           last(k) == IF k < number THEN k * m ELSE n
           cut(k) == SubSeq(hashes, before(k) + 1, last(k))
<1>1. n \in Nat /\ m \in Nat \ {0}
  BY DownloadAssumption, LenProperties
<1>2. number \in Nat
  BY <1>1, Cuts
<1>3. packets = [k \in 1 .. number |-> WhoHasPacket(cut(k))]
  BY DEF WhoHasPackets
<1>4. ASSUME NEW k \in 1 .. number
      PROVE  /\ before(k) \in Nat
             /\ last(k) \in Nat
             /\ last(k) <= n
             /\ last(k) - before(k) \in 1 .. m
             /\ k < number => last(k) - before(k) = m
             /\ k = number => last(k) = n
  <2>1. /\ before(k) \in 0 .. n - 1
        /\ k < number => k * m <= n
        /\ n <= number * m
    BY <1>1, Cuts
  <2>2. k * m = before(k) + m
    BY <1>1, <1>2
  <2>3. k \in Int /\ number \in Int /\ k <= number /\ k * m \in Int
    BY <1>1, <1>2
  <2> HIDE DEF before, m, n, number
  <2> QED
    BY <1>1, <2>1, <2>2, <2>3
<1>5. ASSUME NEW k \in 1 .. number
      PROVE  /\ cut(k) \in Seq(Hash)
             /\ Len(cut(k)) = last(k) - before(k)
             /\ \A i \in 1 .. last(k) - before(k) : cut(k)[i] = hashes[before(k) + i]
  <2> DEFINE b == before(k)
             l == last(k)
  <2>1. b \in Nat /\ l \in Nat /\ l <= n /\ l - b \in 1 .. m
    BY <1>4
  <2> HIDE DEF b, l
  <2>2. \A i \in b + 1 .. l : hashes[i] \in Hash
    <3>1. \A i \in b + 1 .. l : i \in 1 .. n
      BY <1>1, <2>1
    <3> QED
      BY <3>1, ElementOfSeq
  <2>3. /\ SubSeq(hashes, b + 1, l) \in Seq(Hash)
        /\ Len(SubSeq(hashes, b + 1, l)) = IF b + 1 <= l THEN l - (b + 1) + 1 ELSE 0
        /\ \A i \in 1 .. l - (b + 1) + 1 :
             SubSeq(hashes, b + 1, l)[i] = hashes[b + 1 + i - 1]
    BY <2>1, <2>2, SubSeqProperties
  <2>4. b + 1 <= l /\ l - (b + 1) + 1 = l - b
    BY <1>1, <2>1
  <2>5. \A i \in 1 .. l - b : b + 1 + i - 1 = b + i
    BY <2>1
  <2> QED
    BY <2>3, <2>4, <2>5 DEF b, l
<1>6. \A k \in 1 .. number : packets[k].hashes = cut(k)
  <2> HIDE DEF n, number, packets, cut
  <2>1. \A k \in 1 .. number : packets[k] = WhoHasPacket(cut(k))
    BY <1>3
  <2>2. \A s : WhoHasPacket(s).hashes = s
    BY DEF WhoHasPacket
  <2> QED
    BY <2>1, <2>2
<1> HIDE DEF n, number, m, packets, before, last, cut
<1>7. packets \in Seq(WhoHas) /\ Len(packets) = number
  <2>1. \A k \in 1 .. number : WhoHasPacket(cut(k)) \in WhoHas
    BY <1>5 DEF WhoHas, WhoHasPacket
  <2> QED
    BY <1>2, <1>3, <2>1
<1>8. ASSUME NEW k \in 1 .. number
      PROVE  /\ packets[k].hashes \in Seq(Hash)
             /\ Len(packets[k].hashes) \in 1 .. m
             /\ k < number => Len(packets[k].hashes) = m
             /\ k = number => Len(packets[k].hashes) = n - before(k)
             /\ before(k) \in Nat
             /\ before(k) + Len(packets[k].hashes) <= n
             /\ \A i \in 1 .. Len(packets[k].hashes) :
                  packets[k].hashes[i] = hashes[before(k) + i]
  <2>1. packets[k].hashes = cut(k)
    BY <1>6, Zenon
  <2>2. before(k) + (last(k) - before(k)) <= n
    BY <1>1, <1>4
  <2> QED
    BY <1>4, <1>5, <2>1, <2>2
<1> QED
  BY <1>2, <1>7, <1>8 DEF n, number, m, packets, before

\* A number is divided in one way.
LEMMA OneDivision ==
  ASSUME NEW m \in Nat \ {0}, NEW a \in Nat, NEW b \in Nat,
         NEW r \in 0 .. m - 1, NEW s \in 0 .. m - 1,
         a * m + r = b * m + s
  PROVE  a = b /\ r = s
<1>1. ASSUME NEW x \in Nat, NEW y \in Nat,
             NEW u \in 0 .. m - 1, NEW v \in 0 .. m - 1, x < y
      PROVE  x * m + u < y * m + v
  <2>1. (x + 1) * m <= y * m
    BY <1>1, Product
  <2>2. (x + 1) * m = x * m + m /\ x * m \in Nat /\ y * m \in Nat
    OBVIOUS
  <2> DEFINE c == x * m
             d == y * m
  <2>3. c + m <= d /\ c \in Nat /\ d \in Nat
    BY <2>1, <2>2
  <2> HIDE DEF c, d
  <2>4. c + u < d + v
    BY <2>3
  <2> QED
    BY <2>4 DEF c, d
<1>2. /\ a * m + r \in Int /\ b * m + s \in Int
      /\ ~(a * m + r < b * m + s) /\ ~(b * m + s < a * m + r)
  OBVIOUS
<1>3. ~(a < b) /\ ~(b < a)
  BY <1>1, <1>2
<1>4. a = b
  BY <1>3
<1> QED
  BY <1>4

\* Every line a flood asks for has a place in one of its packets.
LEMMA PlaceOfLine ==
  ASSUME NEW length \in Nat, NEW n \in 1 .. length
  PROVE  LET q == (n - 1) \div MAX_HASH_LIST_NUM
             r == (n - 1) % MAX_HASH_LIST_NUM
         IN  /\ q + 1 \in 1 .. PacketNumber(length)
             /\ r \in 0 .. MAX_HASH_LIST_NUM - 1
             /\ q \in Nat
             /\ n = q * MAX_HASH_LIST_NUM + (r + 1)
<1> DEFINE m == MAX_HASH_LIST_NUM
           q == (n - 1) \div m
           r == (n - 1) % m
           number == PacketNumber(length)
<1>1. /\ m \in Nat \ {0}
      /\ n - 1 \in Nat
  BY DownloadAssumption
<1>2. /\ q \in Nat
      /\ r \in 0 .. m - 1
      /\ n - 1 = q * m + r
  BY <1>1, Division
<1>3. /\ number \in Nat
      /\ length <= number * m
  BY Cuts
<1> HIDE DEF m, q, r, number
<1>4. q < number
  <2> SUFFICES ASSUME number <= q
               PROVE  FALSE
    BY <1>2, <1>3
  <2>1. number * m <= q * m
    BY <1>1, <1>2, <1>3, Product
  <2>2. q * m \in Int /\ number * m \in Int
    BY <1>1, <1>2, <1>3
  <2> QED
    BY <1>2, <1>3, <2>1, <2>2
<1>5. n = q * m + (r + 1)
  <2> DEFINE c == q * m
  <2>1. c \in Int /\ r \in Int /\ n \in Int /\ n - 1 = c + r
    BY <1>1, <1>2
  <2> HIDE DEF c
  <2>2. n = c + (r + 1)
    BY <2>1
  <2> QED
    BY <2>2 DEF c
<1> QED
  BY <1>2, <1>3, <1>4, <1>5 DEF m, q, r, number

\* The places of the packets where a hash is listed.
PlacesOf(packets, hash) ==
  {b \in UNION {{k} \X DOMAIN packets[k].hashes : k \in DOMAIN packets} :
     packets[b[1]].hashes[b[2]] = hash}

\* The packets of a flood list every hash at as many places as its list of
\* hashes does.
LEMMA PacketsListAll ==
  ASSUME NEW hashes \in Seq(Hash), NEW hash
  PROVE  ExistsBijection({n \in 1 .. Len(hashes) : hashes[n] = hash},
                         PlacesOf(WhoHasPackets(hashes), hash))
<1> DEFINE m == MAX_HASH_LIST_NUM
           length == Len(hashes)
           number == PacketNumber(length)
           packets == WhoHasPackets(hashes)
           K == {n \in 1 .. length : hashes[n] = hash}
           PL == PlacesOf(packets, hash)
           place(n) == <<(n - 1) \div m + 1, ((n - 1) % m) + 1>>
           f == [n \in K |-> place(n)]
<1>1. /\ length \in Nat
      /\ m \in Nat \ {0}
  BY DownloadAssumption, LenProperties
<1>2. /\ number \in Nat
      /\ packets \in Seq(WhoHas)
      /\ Len(packets) = number
      /\ \A k \in 1 .. number :
           /\ packets[k].hashes \in Seq(Hash)
           /\ Len(packets[k].hashes) \in 1 .. m
           /\ k < number => Len(packets[k].hashes) = m
           /\ k = number => Len(packets[k].hashes) = length - (k - 1) * m
           /\ (k - 1) * m \in Nat
           /\ (k - 1) * m + Len(packets[k].hashes) <= length
           /\ \A i \in 1 .. Len(packets[k].hashes) :
                packets[k].hashes[i] = hashes[(k - 1) * m + i]
  BY FloodPackets
<1>3. \A b : b \in PL <=> /\ \E k \in 1 .. number :
                               \E i \in 1 .. Len(packets[k].hashes) : b = <<k, i>>
                          /\ packets[b[1]].hashes[b[2]] = hash
  <2> HIDE DEF packets, number
  <2>1. DOMAIN packets = 1 .. number
    BY <1>2, LenProperties
  <2>2. \A k \in 1 .. number : DOMAIN packets[k].hashes = 1 .. Len(packets[k].hashes)
    BY <1>2, LenProperties
  <2> QED
    BY <2>1, <2>2 DEF PlacesOf
<1>4. ASSUME NEW n \in 1 .. length
      PROVE  LET q == (n - 1) \div m
                 r == (n - 1) % m
             IN  /\ q + 1 \in 1 .. number
                 /\ r + 1 \in 1 .. Len(packets[q + 1].hashes)
                 /\ n = q * m + (r + 1)
  <2> DEFINE q == (n - 1) \div m
             r == (n - 1) % m
  <2>1. /\ q + 1 \in 1 .. number
        /\ r \in 0 .. m - 1
        /\ q \in Nat
        /\ n = q * m + (r + 1)
    BY <1>1, PlaceOfLine
  <2> HIDE DEF q, r
  <2>2. (q + 1) - 1 = q
    BY <2>1
  <2>3. /\ q + 1 < number => Len(packets[q + 1].hashes) = m
        /\ q + 1 = number => Len(packets[q + 1].hashes) = length - q * m
        /\ q * m \in Nat
    BY <1>2, <2>1, <2>2
  <2> DEFINE l == Len(packets[q + 1].hashes)
             c == q * m
  <2>4. l \in 1 .. m
    BY <1>2, <2>1
  <2> HIDE DEF l, c, m, number, packets, length
  <2>5. q + 1 < number \/ q + 1 = number
    BY <1>2, <2>1
  <2>6. r + 1 \in 1 .. l
    <3>1. CASE q + 1 < number
      BY <1>1, <2>1, <2>3, <3>1 DEF l
    <3>2. CASE q + 1 = number
      <4>1. l = length - c /\ c \in Nat /\ n = c + (r + 1)
        BY <2>1, <2>3, <3>2 DEF l, c
      <4> QED
        BY <1>1, <2>1, <4>1
    <3> QED
      BY <2>5, <3>1, <3>2
  <2> QED
    BY <2>1, <2>6 DEF q, r, l
<1> HIDE DEF m, length, number, packets, PL
<1>5. \A n \in K : n \in 1 .. length /\ hashes[n] = hash
  OBVIOUS
<1>6. ASSUME NEW n \in K
      PROVE  place(n) \in PL
  <2> DEFINE q == (n - 1) \div m
             r == (n - 1) % m
  <2>1. /\ q + 1 \in 1 .. number
        /\ r + 1 \in 1 .. Len(packets[q + 1].hashes)
        /\ n = q * m + (r + 1)
    BY <1>4, <1>5
  <2>2. place(n) = <<q + 1, r + 1>>
    OBVIOUS
  <2> HIDE DEF q, r, place, K
  <2>3. (q + 1) - 1 = q
    <3>1. q + 1 \in Int => q \in Int
      BY <1>1, Division, <1>5 DEF q
    <3> QED
      BY <2>1, <3>1
  <2>4. packets[q + 1].hashes[r + 1] = hashes[q * m + (r + 1)]
    BY <1>2, <2>1, <2>3
  <2>5. packets[q + 1].hashes[r + 1] = hash
    BY <1>5, <2>1, <2>4
  <2> QED
    BY <1>3, <2>1, <2>2, <2>5
<1>7. ASSUME NEW a \in K, NEW b \in K, place(a) = place(b)
      PROVE  a = b
  <2>1. /\ (a - 1) \div m + 1 = (b - 1) \div m + 1
        /\ ((a - 1) % m) + 1 = ((b - 1) % m) + 1
    BY <1>7
  <2>2. /\ (a - 1) \div m \in Nat /\ (b - 1) \div m \in Nat
        /\ (a - 1) % m \in Nat /\ (b - 1) % m \in Nat
    <3>1. a - 1 \in Nat /\ b - 1 \in Nat
      BY <1>1, <1>5
    <3>2. /\ (a - 1) \div m \in Nat /\ (a - 1) % m \in 0 .. m - 1
          /\ (b - 1) \div m \in Nat /\ (b - 1) % m \in 0 .. m - 1
      BY <1>1, <3>1, Division
    <3> QED
      BY <1>1, <3>2
  <2>3. /\ (a - 1) \div m = (b - 1) \div m
        /\ (a - 1) % m = (b - 1) % m
    BY <2>1, <2>2
  <2>4. /\ a = ((a - 1) \div m) * m + (((a - 1) % m) + 1)
        /\ b = ((b - 1) \div m) * m + (((b - 1) % m) + 1)
    BY <1>4, <1>5
  <2> QED
    BY <2>3, <2>4
<1>8. ASSUME NEW b \in PL
      PROVE  \E n \in K : place(n) = b
  <2>1. PICK k \in 1 .. number : \E i \in 1 .. Len(packets[k].hashes) : b = <<k, i>>
    BY <1>3
  <2>2. PICK i \in 1 .. Len(packets[k].hashes) : b = <<k, i>>
    BY <2>1
  <2>3. packets[k].hashes[i] = hash
    BY <1>3, <2>2
  <2> DEFINE n == (k - 1) * m + i
             c == (k - 1) * m
  <2>4. /\ c \in Nat
        /\ c + Len(packets[k].hashes) <= length
        /\ hashes[c + i] = hash
        /\ Len(packets[k].hashes) \in 1 .. m
    BY <1>2, <2>3
  <2>5. n \in 1 .. length /\ hashes[n] = hash
    <3>1. c + i \in 1 .. length
      <4> HIDE DEF c
      <4> QED
        BY <1>1, <2>4
    <3> QED
      BY <2>4, <3>1
  <2>6. /\ (n - 1) \div m \in Nat
        /\ (n - 1) % m \in 0 .. m - 1
        /\ n = ((n - 1) \div m) * m + (((n - 1) % m) + 1)
    <3> HIDE DEF n
    <3>1. n - 1 \in Nat
      BY <1>1, <2>5
    <3>2. (n - 1) \div m \in Nat /\ (n - 1) % m \in 0 .. m - 1
      BY <1>1, <3>1, Division
    <3> QED
      BY <1>4, <2>5, <3>2
  <2>7. /\ k - 1 \in Nat
        /\ i - 1 \in 0 .. m - 1
    BY <1>2, <1>1, <2>4
  <2> DEFINE q == (n - 1) \div m
             r == (n - 1) % m
  <2>8. q * m + r = (k - 1) * m + (i - 1)
    <3>1. n = q * m + (r + 1) /\ n = c + i
      BY <2>6
    <3>2. q * m \in Int /\ r \in Int /\ c \in Int /\ i \in Int
      BY <1>1, <2>4, <2>6
    <3> HIDE DEF n, q, r
    <3>3. q * m + r = c + (i - 1)
      <4> DEFINE x == q * m
      <4> HIDE DEF x, c
      <4>1. n = x + (r + 1) /\ n = c + i /\ x \in Int /\ r \in Int /\ c \in Int /\ i \in Int
        BY <3>1, <3>2 DEF x
      <4>2. x + r = c + (i - 1)
        BY <4>1
      <4> QED
        BY <4>2 DEF x
    <3> QED
      BY <3>3 DEF c
  <2>9. q = k - 1 /\ r = i - 1
    <3> HIDE DEF n, q, r
    <3>1. q \in Nat /\ r \in 0 .. m - 1
      BY <2>6 DEF q, r
    <3> QED
      BY <1>1, <2>7, <2>8, <3>1, OneDivision
  <2>10. q + 1 = k /\ r + 1 = i
    <3> HIDE DEF q, r
    <3> QED
      BY <1>2, <2>4, <2>7, <2>9
  <2>11. place(n) = b
    BY <2>2, <2>10
  <2> QED
    BY <2>5, <2>11
<1>9. f \in Bijection(K, PL)
  <2>1. f \in [K -> PL]
    BY <1>6
  <2>2. \A a, b \in K : f[a] = f[b] => a = b
    BY <1>7
  <2>3. \A b \in PL : \E n \in K : f[n] = b
    BY <1>8
  <2> HIDE DEF f, K
  <2> QED
    BY <2>1, <2>2, <2>3 DEF Bijection, Injection, Surjection, IsInjective
<1> QED
  BY <1>9 DEF ExistsBijection, PL, packets, length

\* A flood lists the hash of every chunk that is not found as often as there
\* are such chunks, and no packet of it is empty or too long.
LEMMA FloodListsAll ==
  ASSUME NEW j \in JobId, NEW st, NEW hash
  PROVE  Cardinality(PlacesOf(WhoHasPackets(WhoHasHashes(j, st)), hash)) =
           Cardinality({c \in NotFound(j, st) : HashOfChunk(c) = hash})
<1> DEFINE hashes == WhoHasHashes(j, st)
           lines == FloodLines(j, st)
           K == {n \in 1 .. Len(hashes) : hashes[n] = hash}
           C == {c \in NotFound(j, st) : HashOfChunk(c) = hash}
           f == [n \in K |-> <<j, lines[n]>>]
<1>1. /\ hashes \in Seq(Hash)
      /\ Len(hashes) = Len(lines)
      /\ \A n \in 1 .. Len(lines) :
           /\ <<j, lines[n]>> \in NotFound(j, st)
           /\ hashes[n] = HashOf[j][lines[n]]
      /\ \A m, n \in 1 .. Len(lines) : lines[m] = lines[n] => m = n
      /\ \A c \in NotFound(j, st) :
           \E n \in 1 .. Len(lines) : c = <<j, lines[n]>>
  BY FloodHashes
<1> HIDE DEF hashes, lines
<1>2. IsFiniteSet(K)
  <2>1. Len(hashes) \in Nat
    BY <1>1, LenProperties
  <2>2. IsFiniteSet(1 .. Len(hashes))
    BY <2>1, FS_Interval
  <2> QED
    BY <2>2, FS_Subset
<1>3. f \in Bijection(K, C)
  <2>1. \A n \in K : <<j, lines[n]>> \in C
    BY <1>1 DEF HashOfChunk
  <2>2. f \in [K -> C]
    <3> HIDE DEF K, C
    <3> QED
      BY <2>1
  <2>3. \A m, n \in K : f[m] = f[n] => m = n
    BY <1>1
  <2>4. \A c \in C : \E n \in K : f[n] = c
    <3> TAKE c \in C
    <3>1. PICK n \in 1 .. Len(lines) : c = <<j, lines[n]>>
      BY <1>1
    <3>2. n \in K
      BY <1>1, <3>1 DEF HashOfChunk
    <3> QED
      BY <3>1, <3>2
  <2> HIDE DEF f, K, C
  <2> QED
    BY <2>2, <2>3, <2>4 DEF Bijection, Injection, Surjection, IsInjective
<1>4. Cardinality(C) = Cardinality(K)
  <2> HIDE DEF K, C
  <2>1. ExistsBijection(K, C)
    BY <1>3 DEF ExistsBijection
  <2> QED
    BY <1>2, <2>1, FS_Bijection
<1>5. Cardinality(PlacesOf(WhoHasPackets(hashes), hash)) = Cardinality(K)
  <2>1. ExistsBijection(K, PlacesOf(WhoHasPackets(hashes), hash))
    BY <1>1, PacketsListAll
  <2> HIDE DEF K
  <2> QED
    BY <1>2, <2>1, FS_Bijection
<1> QED
  BY <1>4, <1>5 DEF hashes

\* What FloodWhoHas returns, sent to all peers while a connection is free.
LEMMA FloodComplete ==
  ASSUME NEW j, j \in JobId \/ j = NoJob,
         ConnectionNumber < max_receiver_connection,
         out' = FloodWhoHas(j), NEW p \in Peer
  PROVE  /\ Packed(p)
         /\ \A hash \in Hash :
              Cardinality(Places(p, hash)) =
                Cardinality({c \in NotFound(j, status) : HashOfChunk(c) = hash})
<1>0. \A hash : Places(p, hash) = PlacesOf(out'[p], hash)
  BY DEF Places, PlacesOf
<1>1. j = NoJob => NotFound(j, status) = {}
  <2>1. \A c \in JobChunk : c[1] \in JobId
    BY DEF JobChunk
  <2> QED
    BY <2>1, DownloadAssumption DEF NotFound
<1>2. ~(ConnectionNumber >= max_receiver_connection)
  <2>1. ConnectionNumber \in Nat
    BY PeersCounted DEF ConnectionNumber
  <2> QED
    BY <2>1, DownloadAssumption
<1>3. CASE NotFound(j, status) = {}
  <2>1. out'[p] = <<>>
    BY <1>3 DEF FloodWhoHas, Silence
  <2>2. DOMAIN out'[p] = {} /\ Packed(p)
    BY <2>1 DEF Packed
  <2>3. \A hash : PlacesOf(out'[p], hash) = {}
    BY <2>2 DEF PlacesOf
  <2>4. \A hash : {c \in NotFound(j, status) : HashOfChunk(c) = hash} = {}
    BY <1>3
  <2> QED
    BY <1>0, <2>2, <2>3, <2>4
<1>4. CASE NotFound(j, status) # {}
  <2>1. j \in JobId /\ j # NoJob
    BY <1>1, <1>4, DownloadAssumption
  <2> DEFINE hashes == WhoHasHashes(j, status)
  <2>2. out'[p] = WhoHasPackets(hashes)
    BY <1>2, <1>4, <2>1 DEF FloodWhoHas
  <2>3. hashes \in Seq(Hash)
    BY <2>1, FloodHashes
  <2>4. Packed(p)
    <3> HIDE DEF hashes
    <3>1. PICK packets : packets = WhoHasPackets(hashes)
      OBVIOUS
    <3>2. /\ packets \in Seq(WhoHas)
          /\ \A k \in 1 .. Len(packets) :
               /\ Len(packets[k].hashes) \in 1 .. MAX_HASH_LIST_NUM
               /\ k < Len(packets) => Len(packets[k].hashes) = MAX_HASH_LIST_NUM
      BY <2>3, <3>1, FloodPackets
    <3>3. DOMAIN packets = 1 .. Len(packets)
      BY <3>2, LenProperties
    <3> QED
      BY <2>2, <3>1, <3>2, <3>3 DEF Packed
  <2>5. \A hash : Cardinality(PlacesOf(out'[p], hash)) =
                    Cardinality({c \in NotFound(j, status) : HashOfChunk(c) = hash})
    BY <2>1, <2>2, FloodListsAll
  <2> QED
    BY <1>0, <2>4, <2>5
<1> QED
  BY <1>3, <1>4

\* A flood asks every peer for every chunk that is not found, each once, in
\* packets that are full but for the last, which is not empty, at every length
\* of the list.
THEOREM FloodsAskForAll == Spec => FloodAsksForAll
<1>1. IInv /\ [Next]_vars => [FloodStep]_vars
  <2> SUFFICES ASSUME IInv, Next, FloodDue,
                      ConnectionNumber < max_receiver_connection,
                      NEW p \in Peer
               PROVE  LET job == IF pc = "input" THEN current_job' ELSE current_job
                      IN  /\ Packed(p)
                          /\ \A hash \in Hash :
                               Cardinality(Places(p, hash)) =
                                 Cardinality({c \in NotFound(job, status) :
                                                HashOfChunk(c) = hash})
    BY DEF FloodStep
  <2>1. CASE pc = "input" /\ asked' # asked
    <3>1. \E j \in JobId : ProcessGet(j)
      BY <2>1 DEF Next, Select, ReceiveIHave, ExtendConnection,
                  AddReceiverConnection, IgnoreIHave, ReceiveData, IgnoreData,
                  AcknowledgeAgain, SaveDataPacket, FinishChunk, NoPacket,
                  NoUserInput, ReceiversTimeout, FloodAndFinishJob, Phase,
                  job_vars
    <3>2. PICK j \in JobId : ProcessGet(j)
      BY <3>1
    <3>3. out' = FloodWhoHas(j) /\ current_job' = j
      BY <3>2 DEF ProcessGet
    <3> QED
      BY <2>1, <3>3, FloodComplete
  <2>2. CASE pc = "finish" /\ since_flood > WHOHAS_FLOOD_INTERVAL_MS
    <3>1. FloodAndFinishJob
      BY <2>2 DEF Next, Select, ReceiveIHave, ExtendConnection,
                  AddReceiverConnection, IgnoreIHave, ReceiveData, IgnoreData,
                  AcknowledgeAgain, SaveDataPacket, FinishChunk, NoPacket,
                  ProcessGet, NoUserInput, ReceiversTimeout, Phase
    <3>2. out' = FloodWhoHas(current_job)
      BY <2>2, <3>1 DEF FloodAndFinishJob
    <3>3. current_job \in JobId \/ current_job = NoJob
      BY DEF IInv, TypeOK
    <3> QED
      BY <2>2, <3>2, <3>3, FloodComplete
  <2> QED
    BY <2>1, <2>2 DEF FloodDue
<1> QED
  BY <1>1, Invariance, PTL DEF Spec, FloodAsksForAll

-----------------------------------------------------------------------------
(* What a step changes of the transfer from one peer: whether there is a   *)
(* connection, the chunk it waits for, how much of it was received, and    *)
(* how long ago the peer was heard of.                                     *)

\* The chunk p was asked for.
Awaited(p) == HashOfChunk(Downloading(p))

\* How many of its packets were received.
InOrderSoFar(p) == received_seq_num[Downloading(p)]

\* The age receivers_timeout judges a peer by.
Unheard(rc) == IF rc.status = "pending_data" THEN rc.since_start ELSE rc.since_data

\* Every chunk of p's list has one of the hashes.
ListedIn(p, hashes) ==
  Connected(p) => \A k \in 1 .. Len(connection[p].chunks) :
                    HashOfChunk(connection[p].chunks[k]) \in hashes

\* The step leaves the transfer as it was, but for its age.
SameDownload(p) ==
  /\ Connected(p)' <=> Connected(p)
  /\ Connected(p) => Awaited(p)' = Awaited(p) /\ InOrderSoFar(p)' = InOrderSoFar(p)
  /\ \A hashes : ListedIn(p, hashes) => ListedIn(p, hashes)'

\* The age of the connection is what it was.
SameAge(p) == Connected(p) => Unheard(connection'[p]) = Unheard(connection[p])

\* A peer is given up when it was not heard of for too long.
LEMMA CrashedIsUnheard ==
  ASSUME NEW rc \in ReceiverConnection
  PROVE  /\ ProviderCrashed(rc) <=> Unheard(rc) > PEER_CRASH_TIMEOUT
         /\ Unheard(rc) \in Age
         /\ Unheard(Heard(rc)) = 0
<1> DEFINE r1 == [rc EXCEPT !.status = "received_data"]
           r2 == [r1 EXCEPT !.since_data = 0]
<1>1. r1 \in ReceiverConnection /\ r1.status = "received_data"
  BY DEF ReceiverConnection, RECEIVER_STATUS
<1>2. Heard(rc) = r2
  BY DEF Heard
<1> HIDE DEF r1
<1>3. r2.since_data = 0 /\ r2.status = "received_data"
  BY <1>1 DEF ReceiverConnection
<1>4. Unheard(Heard(rc)) = 0
  BY <1>2, <1>3 DEF Unheard
<1>5. rc.status \in RECEIVER_STATUS /\ rc.since_start \in Age /\ rc.since_data \in Age
  BY DEF ReceiverConnection
<1> QED
  BY <1>4, <1>5 DEF ProviderCrashed, Unheard, RECEIVER_STATUS

\* Connections that are left alone, or only get older.
LEMMA KeptConnection ==
  ASSUME NEW p \in Peer,
         Connected(p)' <=> Connected(p),
         Connected(p) => connection'[p].chunks = connection[p].chunks,
         Connected(p) => received_seq_num'[Downloading(p)] = InOrderSoFar(p)
  PROVE  SameDownload(p)
<1>1. Connected(p) => Downloading(p)' = Downloading(p)
  BY DEF Downloading
<1>2. \A hashes : ListedIn(p, hashes) => ListedIn(p, hashes)'
  BY DEF ListedIn
<1> QED
  BY <1>1, <1>2 DEF SameDownload, Awaited, InOrderSoFar

\* A step that does not touch the connections.
LEMMA QuietDownload ==
  ASSUME UNCHANGED <<connection, received_seq_num>>, NEW p \in Peer
  PROVE  SameDownload(p) /\ SameAge(p)
<1>1. Connected(p)' <=> Connected(p)
  BY DEF Connected
<1> QED
  BY <1>1, KeptConnection DEF InOrderSoFar, SameAge

\* Two peers are never asked for the same chunk.
LEMMA HeadsDiffer ==
  ASSUME IInv, NEW p \in Peer, NEW o \in Peer, o # p, Connected(p), Connected(o)
  PROVE  Downloading(o) # Downloading(p)
<1>1. /\ Len(Lists[p]) \in Nat \ {0} /\ Downloading(p) = Lists[p][1]
      /\ Len(Lists[o]) \in Nat \ {0} /\ Downloading(o) = Lists[o][1]
  BY HeadIsDownloading
<1>2. 1 \in 1 .. Len(Lists[p]) /\ 1 \in 1 .. Len(Lists[o])
  BY <1>1
<1> QED
  BY <1>1, <1>2 DEF IInv, Ownership, Owned

\* Nothing was received of a chunk that no peer was asked for.
LEMMA NothingReceived ==
  ASSUME IInv, NEW c \in JobChunk, status[c] # "downloading"
  PROVE  received_seq_num[c] = 0
<1>1. data[c] = <<>>
  <2>1. \A p \in Peer : Connected(p) => Downloading(p) # c
    BY HeadIsDownloading
  <2> QED
    BY <2>1 DEF IInv, PartialData
<1> QED
  BY <1>1, EmptySeq DEF IInv, PartialData

\* select returns: a tick makes the ages grow by one at most.
LEMMA SelectKeepsDownloads ==
  ASSUME IInv, NEW dt \in {0, 1},
         connection' = [p \in Peer |-> IF Connected(p) THEN Elapse(connection[p], dt)
                                                       ELSE NoConnection],
         received_seq_num' = received_seq_num,
         NEW p \in Peer
  PROVE  /\ SameDownload(p)
         /\ Connected(p) => Unheard(connection'[p]) <= Unheard(connection[p]) + dt
<1>1. Connected(p) =>
        /\ connection[p] \in ReceiverConnection
        /\ connection'[p] = Elapse(connection[p], dt)
        /\ connection'[p] \in ReceiverConnection
        /\ connection'[p].chunks = connection[p].chunks
        /\ connection'[p].status = connection[p].status
  BY ElapseKeeps, ListsOfChunks DEF IInv
<1>2. Connected(p)' <=> Connected(p)
  BY <1>1, NoConnectionAssumption DEF Connected
<1>3. SameDownload(p)
  BY <1>1, <1>2, KeptConnection DEF InOrderSoFar
<1>4. \A age \in Age : Older(age, dt) <= age + dt
  BY DownloadAssumption, SMT DEF Older, Age
<1>5. ASSUME NEW rc \in ReceiverConnection
      PROVE  /\ Elapse(rc, dt).since_start = Older(rc.since_start, dt)
             /\ Elapse(rc, dt).since_data = Older(rc.since_data, dt)
  <2> DEFINE r1 == [rc EXCEPT !.since_start = Older(@, dt)]
             r2 == [r1 EXCEPT !.since_get   = Older(@, dt)]
             r3 == [r2 EXCEPT !.since_data  = Older(@, dt)]
  <2>1. \A age \in Age : Older(age, dt) \in Age
    BY DownloadAssumption, SMT DEF Older, Age
  <2> HIDE DEF r1, r2, r3
  <2>2. /\ r1 \in ReceiverConnection
        /\ r1.since_start = Older(rc.since_start, dt)
        /\ r1.since_data = rc.since_data
    BY <2>1 DEF r1, ReceiverConnection
  <2>3. /\ r2 \in ReceiverConnection
        /\ r2.since_start = Older(rc.since_start, dt)
        /\ r2.since_data = rc.since_data
    BY <2>1, <2>2 DEF r2, ReceiverConnection
  <2>4. /\ r3.since_start = Older(rc.since_start, dt)
        /\ r3.since_data = Older(rc.since_data, dt)
    BY <2>1, <2>3 DEF r3, ReceiverConnection
  <2>5. Elapse(rc, dt) = r3
    BY DEF Elapse, r1, r2, r3
  <2> QED
    BY <2>4, <2>5
<1>6. ASSUME Connected(p)
      PROVE  Unheard(connection'[p]) <= Unheard(connection[p]) + dt
  <2>1. connection[p].since_start \in Age /\ connection[p].since_data \in Age
    BY <1>1, <1>6 DEF ReceiverConnection
  <2> QED
    BY <1>1, <1>4, <1>5, <1>6, <2>1 DEF Unheard
<1> QED
  BY <1>3, <1>6

\* What the chunks that an IHAVE offers are called in it.
LEMMA WantedAreNamed ==
  ASSUME NEW hashes, NEW S, hashes \in Seq(S), NEW c \in Wanted(hashes)
  PROVE  HashOfChunk(c) \in S
<1>1. PICK k \in Named(hashes, c) : TRUE
  BY DEF Wanted
<1>2. k \in DOMAIN hashes /\ HashOfChunk(c) = hashes[k]
  BY DEF Named, Listed, IsGetChunk
<1> QED
  BY <1>2

\* An IHAVE from a connected peer: its list grows, its head stays.
LEMMA ExtendConnectionEffect ==
  ASSUME IInv, NEW p \in Peer, NEW hashes \in IHave,
         NEW S, hashes \in Seq(S),
         ExtendConnection(p, hashes)
  PROVE  /\ Connected(p)
         /\ Connected(p)'
         /\ Awaited(p)' = Awaited(p)
         /\ InOrderSoFar(p)' = InOrderSoFar(p)
         /\ ListedIn(p, S) => ListedIn(p, S)'
         /\ SameAge(p)
         /\ \A o \in Peer : o # p => SameDownload(o) /\ SameAge(o)
         /\ out' = Silence
         /\ data' = data
<1>1. hashes \in Seq(Hash)
  BY DownloadAssumption
<1>2. PICK q \in Selection(hashes) :
        connection' = [connection EXCEPT ![p].chunks = @ \o q]
  BY DEF ExtendConnection
<1>3. /\ Connected(p)
      /\ received_seq_num' = received_seq_num
      /\ data' = data
      /\ out' = Silence
  BY DEF ExtendConnection
<1>4. /\ q \in Seq(JobChunk)
      /\ \A i \in 1 .. Len(q) : q[i] \in Wanted(hashes)
  BY <1>1, SelectionIsWanted
<1> DEFINE L == connection[p].chunks
           rc == connection[p]
           longer == [rc EXCEPT !.chunks = @ \o q]
<1>5. /\ rc \in ReceiverConnection
      /\ L \in Seq(JobChunk)
      /\ L # <<>>
      /\ Len(L) \in Nat \ {0}
  BY <1>3, ListsOfChunks, HeadIsDownloading DEF IInv, Ownership, HasChunks
<1>6. /\ L \o q \in Seq(JobChunk)
      /\ Len(L \o q) = Len(L) + Len(q)
      /\ \A i \in 1 .. Len(L) + Len(q) :
           (L \o q)[i] = IF i <= Len(L) THEN L[i] ELSE q[i - Len(L)]
  BY <1>4, <1>5, ConcatProperties
<1>7. /\ longer \in ReceiverConnection
      /\ longer.chunks = L \o q
      /\ longer.status = rc.status
      /\ longer.since_start = rc.since_start
      /\ longer.since_data = rc.since_data
  <2> DEFINE M == L \o q
  <2>1. M \in Seq(JobChunk)
    BY <1>6
  <2>2. longer = [rc EXCEPT !.chunks = M]
    OBVIOUS
  <2> HIDE DEF M, longer
  <2>3. /\ longer \in ReceiverConnection
        /\ longer.chunks = M
        /\ longer.status = rc.status
        /\ longer.since_start = rc.since_start
        /\ longer.since_data = rc.since_data
    BY <1>5, <2>1, <2>2 DEF ReceiverConnection
  <2> QED
    BY <2>3 DEF M
<1>8. /\ connection'[p] = longer
      /\ \A o \in Peer : o # p => connection'[o] = connection[o]
  BY <1>2 DEF IInv, TypeOK
<1> HIDE DEF longer, L
<1>9. Connected(p)'
  BY <1>7, <1>8, NoConnectionAssumption DEF Connected
<1>10. Downloading(p)' = Downloading(p)
  <2> DEFINE M == L \o q
  <2>1. M \in Seq(JobChunk) /\ Len(M) \in Nat \ {0} /\ M[1] = L[1]
    <3>1. Len(q) \in Nat
      BY <1>4
    <3> QED
      BY <1>5, <1>6, <3>1
  <2> HIDE DEF M
  <2>2. Head(M) = M[1] /\ Head(L) = L[1]
    BY <1>5, <2>1
  <2>3. Downloading(p)' = Head(M)
    BY <1>7, <1>8 DEF Downloading, M
  <2> QED
    BY <2>1, <2>2, <2>3 DEF Downloading, L
<1>11. ASSUME ListedIn(p, S)
       PROVE  ListedIn(p, S)'
  <2>1. \A i \in 1 .. Len(L) : HashOfChunk(L[i]) \in S
    BY <1>3, <1>11 DEF ListedIn, L
  <2>2. \A i \in 1 .. Len(q) : HashOfChunk(q[i]) \in S
    BY <1>4, WantedAreNamed
  <2> DEFINE M == L \o q
  <2>3. Len(q) \in Nat /\ Len(L) \in Nat
    BY <1>4, <1>5
  <2>4. \A i \in 1 .. Len(M) : HashOfChunk(M[i]) \in S
    <3> SUFFICES ASSUME NEW i \in 1 .. Len(M) PROVE HashOfChunk(M[i]) \in S
      OBVIOUS
    <3>1. i \in 1 .. Len(L) + Len(q)
      BY <1>6
    <3>2. CASE i <= Len(L)
      <4>1. i \in 1 .. Len(L) /\ M[i] = L[i]
        BY <1>6, <2>3, <3>1, <3>2
      <4> QED
        BY <2>1, <4>1
    <3>3. CASE ~(i <= Len(L))
      <4>1. i - Len(L) \in 1 .. Len(q) /\ M[i] = q[i - Len(L)]
        BY <1>6, <2>3, <3>1, <3>3
      <4> QED
        BY <2>2, <4>1
    <3> QED
      BY <3>2, <3>3
  <2> QED
    BY <1>7, <1>8, <2>4 DEF ListedIn, L
<1>12. SameAge(p)
  BY <1>7, <1>8 DEF SameAge, Unheard
<1>13. \A o \in Peer : o # p => SameDownload(o) /\ SameAge(o)
  <2> SUFFICES ASSUME NEW o \in Peer, o # p PROVE SameDownload(o) /\ SameAge(o)
    OBVIOUS
  <2>1. Connected(o)' <=> Connected(o)
    BY <1>8 DEF Connected
  <2> QED
    BY <1>3, <1>8, <2>1, KeptConnection DEF InOrderSoFar, SameAge
<1> QED
  BY <1>3, <1>9, <1>10, <1>11, <1>12, <1>13 DEF Awaited, InOrderSoFar

\* A new connection: nothing of its chunk was received, and its GET is all
\* that is sent.
LEMMA AddReceiverConnectionEffect ==
  ASSUME IInv, NEW p \in Peer, NEW hashes \in IHave,
         NEW S, hashes \in Seq(S),
         AddReceiverConnection(p, hashes)
  PROVE  /\ ~Connected(p)
         /\ Connected(p)'
         /\ InOrderSoFar(p)' = 0
         /\ ListedIn(p, S)'
         /\ Unheard(connection'[p]) = 0
         /\ out'[p] = <<[type |-> "GET", hash |-> Awaited(p)']>>
         /\ \A o \in Peer : o # p =>
              SameDownload(o) /\ SameAge(o) /\ out'[o] = <<>>
         /\ data' = data
<1> DEFINE Opened(q) == [ chunks      |-> q,
                          status      |-> "pending_data",
                          since_start |-> 0,
                          since_get   |-> 0,
                          since_data  |-> 0 ]
<1>1. PICK q \in Selection(hashes) :
        /\ connection' = [connection EXCEPT ![p] = Opened(q)]
        /\ out' = [Silence EXCEPT ![p] = <<GetPacket(q[1])>>]
  BY DEF AddReceiverConnection
<1>2. /\ hashes \in Seq(Hash)
      /\ Wanted(hashes) # {}
      /\ ~Connected(p)
      /\ UNCHANGED <<received_seq_num, data>>
  BY DownloadAssumption DEF AddReceiverConnection
<1>3. /\ q \in Seq(JobChunk) /\ Len(q) # 0 /\ Len(q) \in Nat
      /\ \A i \in 1 .. Len(q) : q[i] \in Wanted(hashes)
  BY <1>2, SelectionIsWanted, LenProperties
<1>4. /\ Opened(q) \in ReceiverConnection
      /\ Opened(q).chunks = q
      /\ Unheard(Opened(q)) = 0
  <2>1. 0 \in Age
    BY DownloadAssumption DEF Age
  <2> QED
    BY <1>3, <2>1 DEF ReceiverConnection, RECEIVER_STATUS, Unheard
<1> HIDE DEF Opened
<1>5. /\ connection'[p] = Opened(q)
      /\ \A o \in Peer : o # p => connection'[o] = connection[o]
  BY <1>1 DEF IInv, TypeOK
<1>6. Connected(p)' /\ Downloading(p)' = q[1]
  <2>1. Head(q) = q[1]
    BY <1>3
  <2> QED
    BY <1>4, <1>5, <2>1, NoConnectionAssumption DEF Connected, Downloading
<1>7. q[1] \in JobChunk /\ status[q[1]] = "not_found"
  <2>1. 1 \in 1 .. Len(q)
    BY <1>3
  <2> QED
    BY <1>3, <2>1 DEF Wanted
<1>8. InOrderSoFar(p)' = 0
  BY <1>2, <1>6, <1>7, NothingReceived DEF InOrderSoFar
<1>9. ListedIn(p, S)'
  BY <1>3, <1>4, <1>5, WantedAreNamed DEF ListedIn
<1>10. /\ out'[p] = <<[type |-> "GET", hash |-> Awaited(p)']>>
       /\ \A o \in Peer : o # p => out'[o] = <<>>
  BY <1>1, <1>6 DEF Silence, GetPacket, Awaited
<1>11. \A o \in Peer : o # p => SameDownload(o) /\ SameAge(o)
  <2> SUFFICES ASSUME NEW o \in Peer, o # p PROVE SameDownload(o) /\ SameAge(o)
    OBVIOUS
  <2>1. Connected(o)' <=> Connected(o)
    BY <1>5 DEF Connected
  <2> QED
    BY <1>2, <1>5, <2>1, KeptConnection DEF InOrderSoFar, SameAge
<1> QED
  BY <1>2, <1>4, <1>5, <1>6, <1>8, <1>9, <1>10, <1>11

\* The packet that was expected: one more is received of the same chunk.
LEMMA SaveDataPacketEffect ==
  ASSUME IInv, NEW p \in Peer, NEW n \in 1 .. CHUNK_DATA_NUM, NEW hash \in Hash,
         SaveDataPacket(p, n, hash)
  PROVE  LET c == Downloading(p)
         IN  /\ Connected(p)
             /\ Connected(p)'
             /\ n = InOrderSoFar(p) + 1
             /\ n < CHUNK_DATA_NUM
             /\ Awaited(p)' = Awaited(p)
             /\ InOrderSoFar(p)' = n
             /\ \A S : ListedIn(p, S) => ListedIn(p, S)'
             /\ Unheard(connection'[p]) = 0
             /\ out'[p] = <<[type |-> "ACK", ack_number |-> n]>>
             /\ \A o \in Peer : o # p =>
                  SameDownload(o) /\ SameAge(o) /\ out'[o] = <<>>
             /\ c \in JobChunk
             /\ data' = [data EXCEPT ![c] = Append(@, hash)]
<1> DEFINE c == Downloading(p)
<1>1. /\ c \in JobChunk
      /\ connection[p] \in ReceiverConnection
      /\ Connected(p)
  BY HeadIsDownloading, ListsOfChunks DEF IInv, SaveDataPacket, Expected
<1>2. /\ n = InOrderSoFar(p) + 1
      /\ Len(data[c]) + 1 < CHUNK_DATA_NUM
      /\ data' = [data EXCEPT ![c] = Append(@, hash)]
      /\ received_seq_num' = [received_seq_num EXCEPT ![c] = n]
      /\ connection' = [connection EXCEPT ![p] = Heard(@)]
      /\ out' = [Silence EXCEPT ![p] = <<AckPacket(n)>>]
  BY DEF SaveDataPacket, Expected, InOrderSoFar
<1>3. n < CHUNK_DATA_NUM
  BY <1>1, <1>2 DEF IInv, PartialData, InOrderSoFar
<1>4. /\ connection'[p] = Heard(connection[p])
      /\ \A o \in Peer : o # p => connection'[o] = connection[o]
      /\ received_seq_num'[c] = n
      /\ \A d \in JobChunk : d # c => received_seq_num'[d] = received_seq_num[d]
  BY <1>1, <1>2 DEF IInv, TypeOK
<1>5. /\ connection'[p] \in ReceiverConnection
      /\ connection'[p].chunks = connection[p].chunks
      /\ Unheard(connection'[p]) = 0
  BY <1>1, <1>4, HeardKeeps, CrashedIsUnheard
<1>6. Connected(p)' /\ Downloading(p)' = c
  BY <1>5, NoConnectionAssumption DEF Connected, Downloading
<1>7. Awaited(p)' = Awaited(p) /\ InOrderSoFar(p)' = n
  BY <1>4, <1>6 DEF Awaited, InOrderSoFar
<1>8. \A S : ListedIn(p, S) => ListedIn(p, S)'
  BY <1>1, <1>5 DEF ListedIn
<1>9. \A o \in Peer : o # p => SameDownload(o) /\ SameAge(o)
  <2> SUFFICES ASSUME NEW o \in Peer, o # p PROVE SameDownload(o) /\ SameAge(o)
    OBVIOUS
  <2>1. Connected(o)' <=> Connected(o)
    BY <1>4 DEF Connected
  <2>2. Connected(o) => Downloading(o) \in JobChunk /\ Downloading(o) # c
    BY <1>1, HeadIsDownloading, HeadsDiffer
  <2> QED
    BY <1>4, <2>1, <2>2, KeptConnection DEF InOrderSoFar, SameAge
<1>10. /\ out'[p] = <<[type |-> "ACK", ack_number |-> n]>>
       /\ \A o \in Peer : o # p => out'[o] = <<>>
  BY <1>2 DEF Silence, AckPacket
<1> QED
  BY <1>1, <1>2, <1>3, <1>5, <1>6, <1>7, <1>8, <1>9, <1>10

\* Two packets sent in a row.
LEMMA TwoInARow ==
  ASSUME NEW x, NEW y
  PROVE  <<x>> \o <<y>> = <<x, y>>
<1> DEFINE S == {x, y}
           s == <<x>>
           t == <<y>>
           u == <<x, y>>
<1>1. /\ s \in Seq(S) /\ t \in Seq(S) /\ u \in Seq(S)
      /\ Len(s) = 1 /\ Len(t) = 1 /\ Len(u) = 2
      /\ s[1] = x /\ t[1] = y /\ u[1] = x /\ u[2] = y
  OBVIOUS
<1> HIDE DEF S, s, t, u
<1>2. /\ s \o t \in Seq(S) /\ Len(s \o t) = 2
      /\ (s \o t)[1] = x /\ (s \o t)[2] = y
  BY <1>1, ConcatProperties
<1>3. s \o t = u
  <2>1. \A i \in 1 .. 2 : (s \o t)[i] = u[i]
    BY <1>1, <1>2
  <2> QED
    BY <1>1, <1>2, <2>1, SeqEqual
<1> QED
  BY <1>3 DEF s, t, u

\* The last packet of a chunk: the connection ends, or goes on with the next
\* chunk of its list, of which nothing was received.
LEMMA FinishChunkShown ==
  ASSUME IInv, NEW p \in Peer, NEW n \in 1 .. CHUNK_DATA_NUM, NEW hash \in Hash,
         FinishChunk(p, n, hash)
  PROVE  LET c == Downloading(p)
         IN  /\ Connected(p)
             /\ n = InOrderSoFar(p) + 1
             /\ n = CHUNK_DATA_NUM
             /\ Connected(p)' => InOrderSoFar(p)' = 0
                                 /\ Unheard(connection'[p]) = 0
             /\ \A S : ListedIn(p, S) => ListedIn(p, S)'
             /\ out'[p] = IF Connected(p)'
                            THEN <<[type |-> "ACK", ack_number |-> n],
                                   [type |-> "GET", hash |-> Awaited(p)']>>
                            ELSE <<[type |-> "ACK", ack_number |-> n]>>
             /\ \A o \in Peer : o # p =>
                  SameDownload(o) /\ SameAge(o) /\ out'[o] = <<>>
             /\ data' = [data EXCEPT ![c] = <<>>]
<1> DEFINE c == Downloading(p)
           L == connection[p].chunks
           rest == Tail(L)
<1>1. /\ c \in JobChunk
      /\ Len(L) \in Nat \ {0}
      /\ L \in Seq(JobChunk)
      /\ L # <<>>
      /\ L = Lists[p]
      /\ c = L[1]
      /\ connection[p] \in ReceiverConnection
      /\ Connected(p)
  BY HeadIsDownloading, ListsOfChunks
  DEF IInv, Ownership, HasChunks, FinishChunk, Expected
<1>2. /\ rest \in Seq(JobChunk)
      /\ rest # <<>> <=> Len(L) > 1
      /\ rest # <<>> => Head(rest) = L[2]
      /\ Len(rest) = Len(L) - 1
      /\ \A i \in 1 .. Len(rest) : rest[i] = L[i + 1]
  BY <1>1, TailOfList, HeadTailProperties
<1>3. Len(L) > 1 => L[2] \in JobChunk /\ L[2] # c /\ status[L[2]] = "pending"
  BY <1>1, SMT DEF IInv, Ownership, Owned
<1> HIDE DEF c, L
<1>4. /\ n = InOrderSoFar(p) + 1
      /\ Len(Append(data[c], hash)) = CHUNK_DATA_NUM
      /\ data' = [data EXCEPT ![c] = <<>>]
      /\ received_seq_num' = [received_seq_num EXCEPT ![c] = 0]
      /\ connection' = [connection EXCEPT ![p] =
                          IF rest = <<>> THEN NoConnection
                                         ELSE Onward(connection[p], rest)]
      /\ out' = [Silence EXCEPT ![p] =
                   <<AckPacket(n)>> \o
                   (IF rest = <<>> THEN <<>> ELSE <<GetPacket(Head(rest))>>)]
  BY DEF FinishChunk, Onward, Expected, InOrderSoFar, c, L
<1>5. n = CHUNK_DATA_NUM
  <2>1. data[c] \in Seq(Hash) /\ received_seq_num[c] = Len(data[c])
    BY <1>1 DEF IInv, TypeOK, PartialData
  <2>2. Len(Append(data[c], hash)) = Len(data[c]) + 1
    BY <2>1, AppendProperties
  <2> QED
    BY <1>4, <2>1, <2>2 DEF InOrderSoFar, c
<1>6. /\ connection'[p] = IF rest = <<>> THEN NoConnection
                                         ELSE Onward(connection[p], rest)
      /\ \A o \in Peer : o # p => connection'[o] = connection[o]
      /\ \A d \in JobChunk : d # c => received_seq_num'[d] = received_seq_num[d]
  BY <1>1, <1>4 DEF IInv, TypeOK
<1>7. /\ Onward(connection[p], rest) \in ReceiverConnection
      /\ Onward(connection[p], rest).chunks = rest
      /\ Unheard(Onward(connection[p], rest)) = 0
  <2> DEFINE h == Heard(connection[p])
             r1 == [h EXCEPT !.chunks = rest]
             r2 == [r1 EXCEPT !.since_get = 0]
  <2>1. h \in ReceiverConnection /\ h.status = "received_data" /\ Unheard(h) = 0
    BY <1>1, HeardKeeps, CrashedIsUnheard
  <2>2. Onward(connection[p], rest) = r2
    BY DEF Onward
  <2> HIDE DEF h, r1, r2
  <2>3. h.since_data = 0
    BY <2>1 DEF Unheard
  <2>4. /\ r1 \in ReceiverConnection /\ r1.status = "received_data"
        /\ r1.since_data = 0
    BY <1>2, <2>1, <2>3 DEF r1, ReceiverConnection
  <2>5. r2.status = "received_data" /\ r2.since_data = 0
    BY <2>4 DEF r2, ReceiverConnection
  <2> QED
    BY <1>1, <1>2, <2>2, <2>5, OnwardKeeps DEF Unheard
<1>8. Connected(p)' <=> rest # <<>>
  BY <1>6, <1>7, NoConnectionAssumption DEF Connected
<1>9. ASSUME Connected(p)'
      PROVE  /\ Downloading(p)' = Head(rest)
             /\ Downloading(p)' = L[2]
             /\ InOrderSoFar(p)' = 0
             /\ Unheard(connection'[p]) = 0
  <2>1. Downloading(p)' = Head(rest) /\ Downloading(p)' = L[2] /\ Len(L) > 1
    BY <1>2, <1>6, <1>7, <1>8, <1>9 DEF Downloading
  <2>2. received_seq_num'[L[2]] = received_seq_num[L[2]]
    BY <1>3, <1>6, <2>1
  <2>3. received_seq_num[L[2]] = 0
    BY <1>3, <2>1, NothingReceived
  <2> QED
    BY <1>6, <1>7, <1>8, <1>9, <2>1, <2>2, <2>3 DEF InOrderSoFar
<1>10. \A S : ListedIn(p, S) => ListedIn(p, S)'
  <2> SUFFICES ASSUME NEW S, ListedIn(p, S), Connected(p)'
               PROVE  \A i \in 1 .. Len(rest) : HashOfChunk(rest[i]) \in S
    BY <1>6, <1>7, <1>8 DEF ListedIn
  <2>1. \A i \in 1 .. Len(rest) : rest[i] = L[i + 1] /\ i + 1 \in 1 .. Len(L)
    BY <1>1, <1>2
  <2> QED
    BY <1>1, <2>1 DEF ListedIn, L
<1>11. \A o \in Peer : o # p => SameDownload(o) /\ SameAge(o)
  <2> SUFFICES ASSUME NEW o \in Peer, o # p PROVE SameDownload(o) /\ SameAge(o)
    OBVIOUS
  <2>1. Connected(o)' <=> Connected(o)
    BY <1>6 DEF Connected
  <2>2. Connected(o) => Downloading(o) \in JobChunk /\ Downloading(o) # c
    BY <1>1, HeadIsDownloading, HeadsDiffer DEF c
  <2> QED
    BY <1>6, <2>1, <2>2, KeptConnection DEF InOrderSoFar, SameAge
<1>12. /\ out'[p] = <<AckPacket(n)>> \o
                    (IF rest = <<>> THEN <<>> ELSE <<GetPacket(Head(rest))>>)
       /\ \A o \in Peer : o # p => out'[o] = <<>>
  BY <1>4 DEF Silence
<1>13. out'[p] = IF Connected(p)'
                   THEN <<[type |-> "ACK", ack_number |-> n],
                          [type |-> "GET", hash |-> Awaited(p)']>>
                   ELSE <<[type |-> "ACK", ack_number |-> n]>>
  <2>1. CASE Connected(p)'
    <3>1. GetPacket(Head(rest)) = [type |-> "GET", hash |-> Awaited(p)']
      BY <1>9, <2>1 DEF GetPacket, Awaited
    <3>2. out'[p] = <<AckPacket(n)>> \o <<GetPacket(Head(rest))>>
      BY <1>8, <1>12, <2>1
    <3> QED
      BY <2>1, <3>1, <3>2, TwoInARow DEF AckPacket
  <2>2. CASE ~Connected(p)'
    <3>1. \A x : <<x>> \o <<>> = <<x>>
      OBVIOUS
    <3>2. out'[p] = <<AckPacket(n)>>
      BY <1>8, <1>12, <2>2, <3>1
    <3> QED
      BY <2>2, <3>2 DEF AckPacket
  <2> QED
    BY <2>1, <2>2
<1> QED
  BY <1>1, <1>4, <1>5, <1>9, <1>10, <1>11, <1>12, <1>13 DEF c

\* receivers_timeout: a connection is left alone, or its GET is sent again,
\* unless the peer is given up; nothing else is sent.
LEMMA ReceiversTimeoutShown ==
  ASSUME IInv, ReceiversTimeout, NEW p \in Peer
  PROVE  /\ p \notin Gone => SameDownload(p) /\ SameAge(p)
         /\ p \in Gone => ~Connected(p)' /\ Connected(p)
         /\ \/ out'[p] = <<>>
            \/ Connected(p) /\ out'[p] = <<[type |-> "GET", hash |-> Awaited(p)]>>
         /\ \A c \in JobChunk : data'[c] \in {<<>>, data[c]}
<1>1. /\ Connected(p)' <=> Connected(p) /\ p \notin Gone
      /\ Connected(p)' => connection'[p].chunks = connection[p].chunks
      /\ \A c \in JobChunk : c \in Cancelled <=>
           \E o \in Peer \cap Gone : \E i \in 1 .. Len(Lists[o]) :
             Lists[o][i] = c
  BY ReceiversTimeoutEffect
<1>2. /\ connection'[p] =
           IF ~Connected(p) \/ ProviderCrashed(connection[p]) THEN NoConnection
           ELSE IF GetLost(connection[p])
             THEN [connection[p] EXCEPT !.since_get = 0]
             ELSE connection[p]
      /\ \A c \in JobChunk :
           /\ data'[c] = IF c \in Cancelled /\ status[c] # "finished"
                           THEN <<>> ELSE data[c]
           /\ c \notin Cancelled => received_seq_num'[c] = received_seq_num[c]
      /\ out'[p] = IF Connected(p) /\ GetLost(connection[p])
                     THEN <<GetPacket(Downloading(p))>>
                     ELSE <<>>
  BY DEF ReceiversTimeout
<1>3. ASSUME p \notin Gone, Connected(p)
      PROVE  /\ Unheard(connection'[p]) = Unheard(connection[p])
             /\ received_seq_num'[Downloading(p)] = InOrderSoFar(p)
  <2>1. connection[p] \in ReceiverConnection
    BY <1>3, ListsOfChunks DEF IInv
  <2>2. connection'[p] \in {connection[p], [connection[p] EXCEPT !.since_get = 0]}
    BY <1>2, <1>3 DEF Gone
  <2>3. Unheard(connection'[p]) = Unheard(connection[p])
    BY <2>1, <2>2 DEF Unheard, ReceiverConnection
  <2>4. Downloading(p) \in JobChunk /\ Downloading(p) = Lists[p][1]
        /\ 1 \in 1 .. Len(Lists[p])
    BY <1>3, HeadIsDownloading
  <2>5. Downloading(p) \notin Cancelled
    BY <1>1, <1>3, <2>4 DEF IInv, Ownership, Owned
  <2> QED
    BY <1>2, <2>3, <2>4, <2>5 DEF InOrderSoFar
<1>4. p \notin Gone => SameDownload(p) /\ SameAge(p)
  BY <1>1, <1>3, KeptConnection DEF SameAge
<1>5. p \in Gone => ~Connected(p)' /\ Connected(p)
  BY <1>1 DEF Gone
<1> QED
  BY <1>2, <1>4, <1>5 DEF GetPacket, Awaited

\* A flood is made of WHOHAS packets.
LEMMA FloodIsWhoHas ==
  ASSUME IInv, NEW j \in JobId \cup {NoJob}, NEW p \in Peer
  PROVE  FloodWhoHas(j)[p] \in Seq(WhoHas)
<1>1. CASE FloodWhoHas(j) = Silence
  BY <1>1, EmptySeq DEF Silence
<1>2. CASE /\ j # NoJob
           /\ FloodWhoHas(j) =
                [o \in Peer |-> WhoHasPackets(WhoHasHashes(j, status))]
  BY <1>2, FloodHashes, FloodPackets
<1> QED
  BY <1>1, <1>2 DEF FloodWhoHas

\* A step that only floods, or finishes the job, and one that does nothing.
LEMMA FloodsShown ==
  ASSUME IInv,
         \/ \E j \in JobId : ProcessGet(j)
         \/ FloodAndFinishJob,
         NEW p \in Peer
  PROVE  /\ SameDownload(p) /\ SameAge(p)
         /\ out'[p] \in Seq(WhoHas)
         /\ data' = data
<1>1. UNCHANGED <<connection, received_seq_num>> /\ data' = data
  BY DEF ProcessGet, FloodAndFinishJob, chunk_vars
<1>2. out'[p] \in Seq(WhoHas)
  <2>1. CASE \E j \in JobId : ProcessGet(j)
    BY <2>1, FloodIsWhoHas DEF ProcessGet
  <2>2. CASE FloodAndFinishJob
    <3>1. out' = FloodWhoHas(current_job) \/ out' = Silence
      BY <2>2 DEF FloodAndFinishJob
    <3>2. current_job \in JobId \cup {NoJob}
      BY DEF IInv, TypeOK
    <3>3. Silence[p] \in Seq(WhoHas)
      BY EmptySeq DEF Silence
    <3> QED
      BY <3>1, <3>2, <3>3, FloodIsWhoHas
  <2> QED
    BY <2>1, <2>2
<1> QED
  BY <1>1, <1>2, QuietDownload

=============================================================================
