----------------------------- MODULE VideoPath -----------------------------
(***************************************************************************)
(* The video path of a session: the desktop host captures, encodes, seals  *)
(* and packetizes a frame (HostVideoStreamer), the network carries its     *)
(* datagrams, and the client reassembles, authenticates and publishes it   *)
(* (VideoFrameReassembler, NonceReplayWindow, ClientReceiver).             *)
(*                                                                         *)
(* A datagram is a record of the header fields the receiver reads and the  *)
(* run of the streamer whose ciphertext it carries.  A frame's timestamp   *)
(* is a function of its id and is left out.  The network is a set: a       *)
(* datagram in it may be delivered late, out of order, more than once or   *)
(* never.  A damaged datagram carries ciphertext of no run.                *)
(***************************************************************************)
EXTENDS Integers, FiniteSets, Sequences, FiniteSetsExt, Functions

CONSTANTS
  MaxFrameId,           \* u32::MAX, the last frame id of the wire header
  MaxNonce,             \* u64::MAX, the last nonce of a sequence
  KeyInterval,          \* DEFAULT_KEYFRAME_INTERVAL
  PacketCounts,         \* how many chunks a sealed frame may take
  MaxPackets,           \* MAX_PACKETS_PER_FRAME
  MaxInFlight,          \* MAX_IN_FLIGHT_FRAMES
  Window,               \* NONCE_REPLAY_WINDOW
  MaxCapture,           \* bound: the last id the capture source produces
  MaxRuns,              \* bound: how often run_streamer is called with one key
  MaxDamage,            \* bound: how many datagrams the network damages
  NoFrame               \* an empty slot

ASSUME BoundsAssumption ==
  /\ MaxFrameId \in Nat /\ MaxNonce \in Nat /\ KeyInterval \in Nat
  /\ MaxPackets \in Nat /\ Window \in Nat \ {0}
  /\ MaxInFlight \in Nat \ {0}
  /\ MaxCapture \in Nat /\ MaxRuns \in Nat \ {0} /\ MaxDamage \in Nat
  /\ PacketCounts \subseteq Nat \ {0}

VARIABLES
  running,              \* DesktopHostWorker.running
  run,                  \* how many times run_streamer was called
  captured,             \* the id of the last frame of the capture source
  frame_count,          \* SoftwareFallbackEncoder.frame_count
  force_keyframe,       \* SoftwareFallbackEncoder.force_keyframe
  next,                 \* NonceSequence.next
  exhausted,            \* NonceSequence.exhausted
  sealed,               \* the frames sealed so far
  net,                  \* the datagrams on the network
  damaged,              \* how many of them the network damaged
  frames,               \* VideoFrameReassembler.frames
  last_authenticated,   \* last_authenticated_frame_id, 0 for None
  highest,              \* NonceReplayWindow.highest_sequence, -1 for None
  accepted,             \* NonceReplayWindow.accepted_sequences
  latest,               \* ClientReceiver.latest_frame
  closed,               \* the runtime has failed closed
  arrived,              \* the fragments delivered of each frame id
  published             \* the frames published so far

hostVars == <<running, run, captured, frame_count, force_keyframe, next, exhausted, sealed>>
netVars == <<net, damaged>>
windowVars == <<highest, accepted>>
clientVars == <<frames, last_authenticated, windowVars, latest, closed, arrived, published>>
vars == <<hostVars, netVars, clientVars>>

FrameIds == 1..MaxFrameId

\* What is sealed under one nonce: the authenticated header and the ciphertext.
Frames == [id : FrameIds, nonce : 0..MaxNonce, keyframe : BOOLEAN,
           count : PacketCounts, run : 1..MaxRuns]

\* The fields of VideoPacketHeader that are the same in every fragment.
Headers == [id : FrameIds, nonce : 0..MaxNonce, keyframe : BOOLEAN, count : PacketCounts]
Header(p) == [id |-> p.id, nonce |-> p.nonce, keyframe |-> p.keyframe, count |-> p.count]

DAMAGED == 0            \* the payload of a damaged datagram
Payloads == 0..MaxRuns
Datagrams == [id : FrameIds, nonce : 0..MaxNonce, keyframe : BOOLEAN,
              count : PacketCounts, packet_id : Nat, payload : Payloads]

----------------------------------------------------------------------------
(* The host. *)

InitHost == /\ captured = 0
            /\ frame_count = 0
            /\ force_keyframe = TRUE
            /\ next = 0
            /\ exhausted = FALSE

Init == /\ running = TRUE /\ run = 1 /\ InitHost
        /\ sealed = {}
        /\ net = {} /\ damaged = 0
        /\ frames = <<>>
        /\ last_authenticated = 0
        /\ highest = -1 /\ accepted = {}
        /\ latest = NoFrame
        /\ closed = FALSE
        /\ arrived = [i \in FrameIds |-> {}]
        /\ published = {}

IsKeyframe == \/ force_keyframe
              \/ KeyInterval > 0 /\ frame_count % KeyInterval = 0

\* Capture and encode: the source may have dropped frames, so ids can skip.
CaptureAndEncode(id) ==
  /\ running
  /\ id > captured
  /\ captured' = id
  /\ frame_count' = frame_count + 1
  /\ force_keyframe' = FALSE

NextNonce == IF next = MaxNonce THEN exhausted' = TRUE /\ UNCHANGED next
                                ELSE next' = next + 1 /\ UNCHANGED exhausted

Packetize(f) == {[id |-> f.id, nonce |-> f.nonce, keyframe |-> f.keyframe, count |-> f.count,
                  packet_id |-> i, payload |-> f.run] : i \in 0..(f.count - 1)}

\* process_next_frame succeeds: one nonce is consumed and every chunk is sent.
StreamFrame(id, count) ==
  LET f == [id |-> id, nonce |-> next, keyframe |-> IsKeyframe, count |-> count, run |-> run] IN
  /\ CaptureAndEncode(id)
  /\ id <= MaxFrameId /\ ~exhausted /\ count <= MaxPackets
  /\ NextNonce
  /\ sealed' = sealed \union {f}
  /\ net' = net \union Packetize(f)
  /\ UNCHANGED <<running, run, damaged, clientVars>>

\* process_next_frame fails before the seal: run_streamer returns the error.
FrameIdOutOfRange(id) ==
  /\ CaptureAndEncode(id)
  /\ id > MaxFrameId
  /\ running' = FALSE
  /\ UNCHANGED <<run, next, exhausted, sealed, netVars, clientVars>>

SealFails(id) ==
  /\ CaptureAndEncode(id)
  /\ id <= MaxFrameId /\ exhausted
  /\ running' = FALSE
  /\ UNCHANGED <<run, next, exhausted, sealed, netVars, clientVars>>

\* It fails after the seal: the nonce is spent and nothing is sent.
TooManyPackets(id, count) ==
  /\ CaptureAndEncode(id)
  /\ id <= MaxFrameId /\ ~exhausted /\ count > MaxPackets
  /\ NextNonce
  /\ running' = FALSE
  /\ UNCHANGED <<run, sealed, netVars, clientVars>>

RequestKeyframe ==
  /\ running /\ ~force_keyframe
  /\ force_keyframe' = TRUE
  /\ UNCHANGED <<running, run, captured, frame_count, next, exhausted, sealed, netVars, clientVars>>

\* stop(), or the datagram channel was dropped.
Stop == /\ running
        /\ running' = FALSE
        /\ UNCHANGED <<run, captured, frame_count, force_keyframe, next, exhausted, sealed,
                       netVars, clientVars>>

\* run_streamer again with the same key: every counter starts from scratch.
RunStreamer == /\ ~running /\ run < MaxRuns
               /\ running' = TRUE
               /\ run' = run + 1
               /\ captured' = 0
               /\ frame_count' = 0
               /\ force_keyframe' = TRUE
               /\ next' = 0
               /\ exhausted' = FALSE
               /\ UNCHANGED <<sealed, netVars, clientVars>>

----------------------------------------------------------------------------
(* The network damages the payload of a datagram, and perhaps its frame id. *)

Damage(p, id) == /\ damaged < MaxDamage
                 /\ damaged' = damaged + 1
                 /\ net' = net \union {[p EXCEPT !.payload = DAMAGED, !.id = id]}
                 /\ UNCHANGED <<hostVars, clientVars>>

----------------------------------------------------------------------------
(* VideoFrameReassembler::process_packet. *)

\* Faulty variant: nothing is too old.
NeverStale(p) == FALSE

Stale(p) == p.id <= last_authenticated

\* Faulty variant: the newest frame makes room instead of the oldest.
EvictNewest(id) ==
  IF Cardinality(DOMAIN frames) >= MaxInFlight /\ id \notin DOMAIN frames
  THEN Restrict(frames, DOMAIN frames \ {Max(DOMAIN frames)}) ELSE frames

MakeRoom(id) ==
  IF Cardinality(DOMAIN frames) >= MaxInFlight /\ id \notin DOMAIN frames
  THEN Restrict(frames, DOMAIN frames \ {Min(DOMAIN frames)}) ELSE frames

InFlight(p) == IF p.id \in DOMAIN frames THEN frames[p.id]
               ELSE [base_header |-> Header(p), packets |-> <<>>]

Consistent(p) == InFlight(p).base_header = Header(p)

\* A fragment that was received before is ignored.
Packets(p) == LET got == InFlight(p).packets IN
  [i \in DOMAIN got \union {p.packet_id} |-> IF i \in DOMAIN got THEN got[i] ELSE p.payload]

\* The fragments of p's frame once p is processed.
Completes(p) == DOMAIN Packets(p) = 0..(p.count - 1)

Stored(p) == LET fs == MakeRoom(p.id) IN
  [i \in DOMAIN fs \union {p.id} |->
     IF i = p.id THEN [base_header |-> InFlight(p).base_header, packets |-> Packets(p)] ELSE fs[i]]

\* The reassembler's frames when p completes its frame.
Removed(p) == LET fs == MakeRoom(p.id) IN
  IF p.count = 1 THEN frames ELSE Restrict(fs, DOMAIN fs \ {p.id})

----------------------------------------------------------------------------
(* ClientReceiver::accept_datagram and the runtime around it: every error   *)
(* of the receiver ends the session (fail_closed).                          *)

\* open_encoded_frame: only a frame sealed with this header and made of exactly
\* this ciphertext opens (the authenticated encryption is ideal).
IsSealed(f, h, packets) == Header(f) = h /\ packets = [i \in 0..(f.count - 1) |-> f.run]

Opens(h, packets) == \E f \in sealed : IsSealed(f, h, packets)

Opened(h, packets) == CHOOSE f \in sealed : IsSealed(f, h, packets)

\* Faulty variant: the sequence at the very edge of the window passes.
FreshAtEdge(n) == n \notin accepted /\ ~(n <= highest /\ highest - n > Window)

FreshNonce(n) == n \notin accepted /\ ~(n <= highest /\ highest - n >= Window)

CommitNonce(n) ==
  LET top == IF n > highest THEN n ELSE highest IN
  /\ highest' = top
  /\ accepted' = {m \in accepted \union {n} : top - m < Window}

Arrive(p) == arrived' = [arrived EXCEPT ![p.id] = @ \union {p.packet_id}]

Receives(p) == p \in net /\ ~closed

\* A damaged datagram may not even decode.
Malformed(p) ==
  /\ Receives(p) /\ p.payload = DAMAGED
  /\ closed' = TRUE
  /\ UNCHANGED <<hostVars, netVars, frames, last_authenticated, windowVars, latest, arrived,
                 published>>

DropStale(p) == Receives(p) /\ Stale(p) /\ UNCHANGED vars

StoreFragment(p) ==
  /\ Receives(p) /\ ~Stale(p) /\ p.count > 1 /\ Consistent(p) /\ ~Completes(p)
  /\ frames' = Stored(p)
  /\ Arrive(p)
  /\ UNCHANGED <<hostVars, netVars, last_authenticated, windowVars, latest, closed, published>>

Inconsistent(p) ==
  /\ Receives(p) /\ ~Stale(p) /\ p.count > 1 /\ ~Consistent(p)
  /\ closed' = TRUE
  /\ UNCHANGED <<hostVars, netVars, frames, last_authenticated, windowVars, latest, arrived,
                 published>>

\* The fragments of the frame p completes; a single packet passes in-flight frames by.
Whole(p) == IF p.count = 1 THEN [i \in {p.packet_id} |-> p.payload] ELSE Packets(p)

Assembles(p) == /\ Receives(p) /\ ~Stale(p)
                /\ p.count = 1 \/ (Consistent(p) /\ Completes(p))
                /\ Arrive(p)

AuthenticationFails(p) ==
  /\ Assembles(p) /\ ~Opens(Header(p), Whole(p))
  /\ frames' = Removed(p)
  /\ closed' = TRUE
  /\ UNCHANGED <<hostVars, netVars, last_authenticated, windowVars, latest, published>>

NonceReplay(p) ==
  /\ Assembles(p) /\ Opens(Header(p), Whole(p)) /\ ~FreshNonce(p.nonce)
  /\ frames' = Removed(p)
  /\ closed' = TRUE
  /\ UNCHANGED <<hostVars, netVars, last_authenticated, windowVars, latest, published>>

\* Faulty variant: a frame still in the slot is not replaced.
PublishIfEmpty(p) ==
  /\ Assembles(p) /\ Opens(Header(p), Whole(p)) /\ FreshNonce(p.nonce)
  /\ CommitNonce(p.nonce)
  /\ last_authenticated' = p.id
  /\ frames' = Restrict(Removed(p), {i \in DOMAIN Removed(p) : i >= p.id})
  /\ latest' = (IF latest = NoFrame THEN Opened(Header(p), Whole(p)) ELSE latest)
  /\ published' = published \union {latest'}
  /\ UNCHANGED <<hostVars, netVars, closed>>

\* commit_authenticated_frame tests the watermark once more before it is raised.
Publish(p) ==
  /\ Assembles(p) /\ Opens(Header(p), Whole(p)) /\ FreshNonce(p.nonce)
  /\ CommitNonce(p.nonce)
  /\ IF p.id <= last_authenticated
     THEN frames' = Removed(p) /\ UNCHANGED <<last_authenticated, latest, published>>
     ELSE /\ last_authenticated' = p.id
          /\ frames' = Restrict(Removed(p), {i \in DOMAIN Removed(p) : i >= p.id})
          /\ latest' = Opened(Header(p), Whole(p))
          /\ published' = published \union {latest'}
  /\ UNCHANGED <<hostVars, netVars, closed>>

DrainLatestFrame == /\ latest # NoFrame /\ ~closed
                    /\ latest' = NoFrame
                    /\ UNCHANGED <<hostVars, netVars, frames, last_authenticated, windowVars,
                                   closed, arrived, published>>

----------------------------------------------------------------------------
Host == \/ \E id \in 1..MaxCapture : \/ FrameIdOutOfRange(id) \/ SealFails(id)
                                     \/ \E c \in PacketCounts : \/ StreamFrame(id, c)
                                                                \/ TooManyPackets(id, c)
        \/ RequestKeyframe \/ Stop \/ RunStreamer

Network == \E p \in net : \E id \in FrameIds : Damage(p, id)

Client == \/ \E p \in net : \/ Malformed(p) \/ DropStale(p) \/ StoreFragment(p)
                            \/ Inconsistent(p) \/ AuthenticationFails(p)
                            \/ NonceReplay(p) \/ Publish(p)
          \/ DrainLatestFrame

Next == Host \/ Network \/ Client

Spec == Init /\ [][Next]_vars

----------------------------------------------------------------------------
(* Properties. *)

\* Every counter, window and in-flight table has the shape its code declares.
TypeOK ==
  /\ running \in BOOLEAN /\ run \in 1..MaxRuns /\ captured \in Nat /\ frame_count \in Nat
  /\ force_keyframe \in BOOLEAN /\ next \in 0..MaxNonce /\ exhausted \in BOOLEAN
  /\ sealed \subseteq Frames
  /\ net \subseteq Datagrams /\ (\A p \in net : p.packet_id < p.count) /\ damaged \in 0..MaxDamage
  /\ DOMAIN frames \subseteq FrameIds
  /\ \A i \in DOMAIN frames :
       /\ frames[i].base_header \in Headers
       /\ DOMAIN frames[i].packets \subseteq 0..(frames[i].base_header.count - 1)
       /\ \A k \in DOMAIN frames[i].packets : frames[i].packets[k] \in Payloads
  /\ last_authenticated \in 0..MaxFrameId
  /\ highest \in -1..MaxNonce /\ accepted \subseteq 0..MaxNonce
  /\ latest \in Frames \union {NoFrame}
  /\ closed \in BOOLEAN
  /\ arrived \in [FrameIds -> SUBSET Nat]
  /\ published \subseteq Frames

\* A run of the streamer never seals two frames under one nonce, not even when the
\* 64-bit sequence runs out (NonceSequence::next_nonce fails closed).
NonceUniquePerRun == \A f, g \in sealed : f.run = g.run /\ f.nonce = g.nonce => f = g

\* However the network reorders, repeats and loses the datagrams of one run of the
\* streamer, the receiver never takes them for a replay or a forgery: accept_datagram
\* returns no error, so the session is torn down only after a second run under the
\* session's key or a damaged datagram.
LossNeverCloses == closed => run > 1 \/ damaged > 0

\* Once every fragment of the newest frame seen so far has arrived, the frame has been
\* published: older fragments, stale or duplicated, never push it out of the bounded
\* reassembler.
NewestIsPublished ==
  run = 1 /\ damaged = 0 =>
  \A f \in sealed :
    /\ arrived[f.id] = 0..(f.count - 1)
    /\ \A i \in FrameIds : arrived[i] # {} => i <= f.id
    => last_authenticated >= f.id

\* The reassembler holds at most max_in_flight partial frames, and none older than
\* the newest authenticated frame (commit_authenticated_frame prunes them).
InFlightBounded == /\ Cardinality(DOMAIN frames) <= MaxInFlight
                   /\ \A i \in DOMAIN frames : i >= last_authenticated

\* The reassembler makes room without ever giving up the newest frame: bounded, and still
\* every newest frame that arrives whole is published (VideoFrameReassembler::process_packet).
BoundedKeepsNewest == InFlightBounded /\ NewestIsPublished

\* Two different frames sealed under one nonce are never both published, not even when
\* the first has left the bounded replay window: what the window forgets it refuses.
NoNonceTwice == \A f, g \in published : f.nonce = g.nonce => f = g

\* A nonce is used once at both ends: the host seals one frame under it in a run, up to the
\* last nonce, and the client publishes one frame under it in a session.
NonceOnce == NonceUniquePerRun /\ NoNonceTwice

\* The path implements the abstract frame stream: what is published was sealed by the
\* host, whole and unaltered, and ids only grow.
Stream == INSTANCE FrameStream WITH produced <- sealed, shown <- last_authenticated, slot <- latest
ImplementsFrameStream == Stream!Spec
=============================================================================
