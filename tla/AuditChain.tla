----------------------------- MODULE AuditChain -----------------------------
(***************************************************************************)
(* The tamper-evident audit chain: AuditChain::append, which links an      *)
(* event to its predecessor, and verify_chain, which checks a list of      *)
(* stored events.  BLAKE3 is ideal: a hash is the term it is computed from. *)
(***************************************************************************)
EXTENDS Naturals, Sequences

GENESIS_HASH == <<>>

ComputeHash(sequence, event, previous_hash) == <<sequence, event, previous_hash>>

\* AuditChain::new(None).  The chain's copy of its events is never read.
NewChain == [sequence |-> 0, last_hash |-> GENESIS_HASH]

\* The ChainedAuditEvent that append returns.
Chained(chain, event) ==
  LET next_seq == chain.sequence + 1 IN
  [sequence |-> next_seq, event |-> event, previous_hash |-> chain.last_hash,
   hash |-> ComputeHash(next_seq, event, chain.last_hash)]

\* The chain after append.
AppendEvent(chain, event) == LET c == Chained(chain, event) IN
  [sequence |-> c.sequence, last_hash |-> c.hash]

VerifyChain(events) ==
  \A i \in 1..Len(events) :
    /\ events[i].sequence = i
    /\ events[i].previous_hash = (IF i = 1 THEN GENESIS_HASH ELSE events[i - 1].hash)
    /\ events[i].hash = ComputeHash(events[i].sequence, events[i].event, events[i].previous_hash)
=============================================================================
