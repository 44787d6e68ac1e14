----------------------------- MODULE MCDownload -----------------------------
(***************************************************************************)
(* Download with two peers and one job, or two jobs with a chunk in        *)
(* common.  The IHAVE packets overlap, so that peers compete for the same  *)
(* chunks; one names a chunk twice, and one has more hashes than a packet. *)
(***************************************************************************)
EXTENDS Download, TLC

CONSTANTS p1, p2, h1, h2, h3, j1, j2

MCPeer == {p1, p2}
MCHash == {h1, h2, h3}

NoSaveFailure == {}
AllSaveFailures == {"cannot_open", "short_write"}

\* One job with three chunks.
OneJob == {j1}
OneJobHashes == [j \in OneJob |-> <<h1, h2, h3>>]
OneJobIHave == {<<h1, h2, h3>>, <<h1, h3>>, <<h2, h2>>}

\* Two jobs that have a hash in common.
TwoJobs == {j1, j2}
TwoJobHashes == (j1 :> <<h1, h2>>) @@ (j2 :> <<h2>>)

=============================================================================
