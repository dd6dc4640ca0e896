---------------------------- MODULE MCVideoPath ----------------------------
(* A small instance of the video path for TLC. *)
EXTENDS VideoPath

CONSTANTS MaxFaultyFrames,   \* bound: how many frames a session with a second run
                             \* seals, one fewer with a damaged datagram
          MaxFaultyId        \* bound: the largest of their ids

\* A session that meets a second run or a damaged datagram streams fewer frames, each
\* of two fragments; one that only loses, repeats and reorders streams all it may.
FaultsInShortSessions ==
  run > 1 \/ damaged > 0 =>
    /\ Cardinality(sealed) + damaged <= MaxFaultyFrames
    /\ \A f \in sealed : f.count = 2 /\ f.id <= MaxFaultyId
=============================================================================
