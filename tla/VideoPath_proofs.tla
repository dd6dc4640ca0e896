-------------------------- MODULE VideoPath_proofs --------------------------
(***************************************************************************)
(* Proofs about the video path, for every id range, window, number of      *)
(* fragments and length of the run.                                        *)
(***************************************************************************)
EXTENDS VideoPath, FiniteSetTheorems, WellFoundedInduction, TLAPS

----------------------------------------------------------------------------
(* The path implements the abstract frame stream. *)

\* A step that opens an assembled frame publishes a sealed frame with the datagram's id.
LEMMA OpenedIsSealed ==
  ASSUME NEW h, NEW ps, Opens(h, ps)
  PROVE  Opened(h, ps) \in sealed /\ Header(Opened(h, ps)) = h
BY Zenon DEF Opens, Opened, IsSealed

\* The host's steps touch nothing the client has published and only add sealed frames.
LEMMA HostStreams == Host => Stream!Produce
BY Zenon DEF Host, FrameIdOutOfRange, SealFails, StreamFrame, TooManyPackets, RequestKeyframe, Stop,
       RunStreamer, CaptureAndEncode, clientVars, netVars, Stream!Produce

\* Every datagram the client accepts either leaves the slot alone or publishes a newer frame.
LEMMA ClientStreams == TypeOK /\ Client => Stream!Next \/ UNCHANGED Stream!vars
<1> SUFFICES ASSUME TypeOK, Client PROVE Stream!Next \/ UNCHANGED Stream!vars
    BY Zenon
<1>1. ASSUME NEW p \in net, Malformed(p) \/ DropStale(p) \/ StoreFragment(p) \/ Inconsistent(p)
                              \/ AuthenticationFails(p) \/ NonceReplay(p)
      PROVE  UNCHANGED Stream!vars
  BY <1>1, Zenon
     DEF Malformed, DropStale, StoreFragment, Inconsistent, AuthenticationFails, NonceReplay,
         hostVars, clientVars, vars, Stream!vars
<1>2. ASSUME NEW p \in net, Publish(p) PROVE Stream!Publish \/ UNCHANGED Stream!vars
  <2>1. CASE p.id <= last_authenticated
    BY <1>2, <2>1, Zenon DEF Publish, hostVars, Stream!vars
  <2>2. CASE ~(p.id <= last_authenticated)
    <3> DEFINE f == Opened(Header(p), Whole(p))
    <3>1. f \in sealed /\ Header(f) = Header(p)
      BY <1>2, OpenedIsSealed, Zenon DEF Publish
    <3>2. f.id = p.id
      BY <3>1, Zenon DEF Header
    <3>3. /\ last_authenticated' = p.id /\ latest' = f /\ UNCHANGED sealed
      BY <1>2, <2>2, Zenon DEF Publish, hostVars
    <3>4. p.id \in Nat /\ last_authenticated \in Nat
      BY DEF TypeOK, Datagrams, FrameIds
    <3>5. f.id > last_authenticated
      BY <2>2, <3>2, <3>4
    <3> HIDE DEF f
    <3> QED BY <3>1, <3>2, <3>3, <3>5, Zenon DEF Stream!Publish
  <2> QED BY <2>1, <2>2, Zenon
<1>3. ASSUME DrainLatestFrame PROVE Stream!Take
  BY <1>3, Zenon DEF DrainLatestFrame, hostVars, Stream!Take
<1> QED BY <1>1, <1>2, <1>3, Zenon DEF Client, Stream!Next

----------------------------------------------------------------------------
(* Type correctness. *)

\* A path before its first frame is well typed.
LEMMA InitTypeOK == Init => TypeOK
<1> SUFFICES ASSUME Init PROVE TypeOK
    BY Zenon
<1>1. DOMAIN frames = {}
  BY DEF Init
<1>2. /\ run \in 1..MaxRuns /\ captured \in Nat /\ frame_count \in Nat
      /\ next \in 0..MaxNonce /\ damaged \in 0..MaxDamage
      /\ last_authenticated \in 0..MaxFrameId /\ highest \in -1..MaxNonce
  BY BoundsAssumption DEF Init, InitHost
<1>4. running \in BOOLEAN /\ force_keyframe \in BOOLEAN /\ exhausted \in BOOLEAN /\ closed \in BOOLEAN
  BY Zenon DEF Init, InitHost
<1>3. /\ sealed = {} /\ net = {} /\ accepted = {} /\ published = {} /\ latest = NoFrame
      /\ arrived \in [FrameIds -> SUBSET Nat]
  BY Zenon DEF Init
<1> QED BY <1>1, <1>2, <1>3, <1>4, Zenon DEF TypeOK

\* The fields of a datagram on the network.
LEMMA DatagramType ==
  ASSUME TypeOK, NEW p \in net
  PROVE  /\ p.id \in FrameIds /\ p.nonce \in 0..MaxNonce /\ p.keyframe \in BOOLEAN
         /\ p.count \in PacketCounts /\ p.count \in Nat \ {0}
         /\ p.payload \in Payloads /\ p.packet_id \in 0..(p.count - 1)
<1>1. p \in Datagrams /\ p.packet_id < p.count
  BY Zenon DEF TypeOK
<1>2. p.packet_id \in Nat /\ p.count \in PacketCounts /\ p.count \in Nat \ {0}
  BY <1>1, BoundsAssumption, Zenon DEF Datagrams
<1> QED BY <1>1, <1>2 DEF Datagrams

\* The fragments of an in-flight frame stay within its packet count.
LEMMA InFlightType ==
  ASSUME TypeOK, NEW p \in net, Consistent(p)
  PROVE  /\ InFlight(p).base_header \in Headers
         /\ InFlight(p).base_header.count = p.count
         /\ DOMAIN InFlight(p).packets \subseteq 0..(p.count - 1)
         /\ \A k \in DOMAIN InFlight(p).packets : InFlight(p).packets[k] \in Payloads
<1>1. p \in Datagrams
  BY Zenon DEF TypeOK
<1>2. Header(p) \in Headers
  BY <1>1, Zenon DEF Header, Headers, Datagrams
<1>3. CASE p.id \in DOMAIN frames
  BY <1>2, <1>3 DEF Consistent, InFlight, TypeOK, Header
<1>4. CASE p.id \notin DOMAIN frames
  BY <1>2, <1>4 DEF InFlight, Header
<1> QED BY <1>3, <1>4, Zenon

\* The frames kept when room is made, or when a frame is removed, were there before.
LEMMA RemovedFrames ==
  ASSUME NEW p
  PROVE  /\ DOMAIN MakeRoom(p.id) \subseteq DOMAIN frames
         /\ \A i \in DOMAIN MakeRoom(p.id) : MakeRoom(p.id)[i] = frames[i]
         /\ DOMAIN Removed(p) \subseteq DOMAIN frames
         /\ \A i \in DOMAIN Removed(p) : Removed(p)[i] = frames[i]
BY Zenon DEF MakeRoom, Removed, Restrict

\* What the type invariant says of the in-flight frames.
FramesType(fs) ==
  /\ DOMAIN fs \subseteq FrameIds
  /\ \A i \in DOMAIN fs :
       /\ fs[i].base_header \in Headers
       /\ DOMAIN fs[i].packets \subseteq 0..(fs[i].base_header.count - 1)
       /\ \A k \in DOMAIN fs[i].packets : fs[i].packets[k] \in Payloads

\* Storing an accepted packet leaves a well-formed table of frames in flight.
LEMMA StoredType ==
  ASSUME TypeOK, NEW p \in net, Consistent(p)
  PROVE  FramesType(Stored(p))
<1> DEFINE e == [base_header |-> InFlight(p).base_header, packets |-> Packets(p)]
<1>1. p.id \in FrameIds /\ p.payload \in Payloads /\ p.packet_id \in 0..(p.count - 1)
  BY DatagramType, Zenon
<1>2. /\ e.base_header \in Headers /\ e.base_header.count = p.count
      /\ DOMAIN e.packets \subseteq 0..(p.count - 1)
      /\ \A k \in DOMAIN e.packets : e.packets[k] \in Payloads
  BY <1>1, InFlightType, Zenon DEF Packets
<1> HIDE DEF e
<1>3. Stored(p) = [i \in DOMAIN MakeRoom(p.id) \union {p.id} |->
                     IF i = p.id THEN e ELSE MakeRoom(p.id)[i]]
  BY Zenon DEF Stored, e
<1>4. FramesType(frames)
  BY Zenon DEF TypeOK, FramesType
<1>5. DOMAIN MakeRoom(p.id) \subseteq DOMAIN frames /\ \A i \in DOMAIN MakeRoom(p.id) : MakeRoom(p.id)[i] = frames[i]
  BY RemovedFrames, Zenon
<1> QED BY <1>1, <1>2, <1>3, <1>4, <1>5 DEF FramesType

\* The type invariant of the host's half of the state, and of the client's half.
HostType ==
  /\ running \in BOOLEAN /\ run \in 1..MaxRuns /\ captured \in Nat /\ frame_count \in Nat
  /\ force_keyframe \in BOOLEAN /\ next \in 0..MaxNonce /\ exhausted \in BOOLEAN
  /\ sealed \subseteq Frames
NetType == /\ net \subseteq Datagrams /\ (\A p \in net : p.packet_id < p.count)
           /\ damaged \in 0..MaxDamage
ClientType ==
  /\ FramesType(frames)
  /\ last_authenticated \in 0..MaxFrameId
  /\ highest \in -1..MaxNonce /\ accepted \subseteq 0..MaxNonce
  /\ latest \in Frames \union {NoFrame}
  /\ closed \in BOOLEAN
  /\ arrived \in [FrameIds -> SUBSET Nat]
  /\ published \subseteq Frames

\* The type invariant is what it says of host, network and client.
LEMMA TypeParts == TypeOK <=> HostType /\ NetType /\ ClientType
BY Zenon DEF TypeOK, HostType, NetType, ClientType, FramesType

\* The steps of the streamer keep the types of host and network, and touch no client state.
LEMMA HostTypeStep == TypeOK /\ Host => HostType' /\ NetType' /\ UNCHANGED clientVars
<1> SUFFICES ASSUME TypeOK, Host PROVE HostType' /\ NetType' /\ UNCHANGED clientVars
    BY Zenon
<1> USE BoundsAssumption
<1>0. HostType /\ NetType
  BY TypeParts, Zenon
<1>1. ASSUME NEW id \in 1..MaxCapture, CaptureAndEncode(id)
      PROVE  captured' \in Nat /\ frame_count' \in Nat /\ force_keyframe' \in BOOLEAN
  <2>1. captured' \in Nat /\ frame_count' \in Nat
    BY <1>0, <1>1 DEF CaptureAndEncode, HostType
  <2>2. force_keyframe' \in BOOLEAN
    BY <1>1, Zenon DEF CaptureAndEncode
  <2> QED BY <2>1, <2>2, Zenon
<1>2. ASSUME NextNonce PROVE next' \in 0..MaxNonce /\ exhausted' \in BOOLEAN
  <2>1. next' \in 0..MaxNonce
    BY <1>0, <1>2 DEF NextNonce, HostType
  <2>2. exhausted' \in BOOLEAN
    BY <1>0, <1>2, Zenon DEF NextNonce, HostType
  <2> QED BY <2>1, <2>2, Zenon
<1>3. ASSUME NEW id \in 1..MaxCapture, FrameIdOutOfRange(id) \/ SealFails(id)
      PROVE  HostType' /\ NetType' /\ UNCHANGED clientVars
  BY <1>0, <1>1, <1>3, Zenon DEF FrameIdOutOfRange, SealFails, HostType, NetType, netVars
<1>4. ASSUME NEW id \in 1..MaxCapture, NEW c \in PacketCounts, TooManyPackets(id, c)
      PROVE  HostType' /\ NetType' /\ UNCHANGED clientVars
  BY <1>0, <1>1, <1>2, <1>4, Zenon DEF TooManyPackets, HostType, NetType, netVars
<1>5. ASSUME NEW id \in 1..MaxCapture, NEW c \in PacketCounts, StreamFrame(id, c)
      PROVE  HostType' /\ NetType' /\ UNCHANGED clientVars
  <2> DEFINE f == [id |-> id, nonce |-> next, keyframe |-> IsKeyframe, count |-> c, run |-> run]
  <2>1. IsKeyframe \in BOOLEAN
    BY <1>0, Zenon DEF IsKeyframe, HostType
  <2>2. id \in FrameIds /\ next \in 0..MaxNonce /\ run \in 1..MaxRuns
    BY <1>0, <1>5 DEF StreamFrame, FrameIds, HostType
  <2>3. f \in Frames
    BY <2>1, <2>2, Zenon DEF Frames
  <2>4. Packetize(f) \subseteq Datagrams /\ \A p \in Packetize(f) : p.packet_id < p.count
    <3>1. f.count \in Nat \ {0} /\ f.run \in Payloads
      BY <2>2 DEF Payloads
    <3> QED BY <2>3, <3>1 DEF Packetize, Datagrams, Frames
  <2>5. sealed' = sealed \union {f} /\ net' = net \union Packetize(f)
    BY <1>5, Zenon DEF StreamFrame
  <2> HIDE DEF f
  <2>6. HostType'
    BY <1>0, <1>1, <1>2, <1>5, <2>3, <2>5, Zenon DEF StreamFrame, HostType
  <2>7. NetType'
    BY <1>0, <1>5, <2>4, <2>5, Zenon DEF StreamFrame, NetType
  <2> QED BY <1>5, <2>6, <2>7, Zenon DEF StreamFrame
<1>6. ASSUME RequestKeyframe \/ Stop PROVE HostType' /\ NetType' /\ UNCHANGED clientVars
  BY <1>0, <1>6, Zenon DEF RequestKeyframe, Stop, HostType, NetType, netVars
<1>7. ASSUME RunStreamer PROVE HostType' /\ NetType' /\ UNCHANGED clientVars
  <2>1. run' \in 1..MaxRuns /\ captured' \in Nat /\ frame_count' \in Nat /\ next' \in 0..MaxNonce
    BY <1>0, <1>7 DEF RunStreamer, HostType
  <2>2. running' \in BOOLEAN /\ force_keyframe' \in BOOLEAN /\ exhausted' \in BOOLEAN
    BY <1>7, Zenon DEF RunStreamer
  <2> QED BY <1>0, <1>7, <2>1, <2>2, Zenon DEF RunStreamer, HostType, NetType, netVars
<1> QED BY <1>3, <1>4, <1>5, <1>6, <1>7, Host, Zenon DEF Host

\* The steps of the receiver keep its types, and touch neither host nor network.
LEMMA ClientTypeStep == TypeOK /\ Client => ClientType' /\ UNCHANGED <<hostVars, netVars>>
<1> SUFFICES ASSUME TypeOK, Client PROVE ClientType' /\ UNCHANGED <<hostVars, netVars>>
    BY Zenon
<1> USE BoundsAssumption
<1>0. HostType /\ ClientType
  BY TypeParts, Zenon
<1>1. ASSUME NEW p \in net, Arrive(p) PROVE arrived' \in [FrameIds -> SUBSET Nat]
  <2>1. p.id \in FrameIds /\ p.packet_id \in Nat
    BY DatagramType
  <2> QED BY <1>0, <1>1, <2>1, Zenon DEF Arrive, ClientType
<1>2. ASSUME NEW p PROVE FramesType(Removed(p))
  BY <1>0, RemovedFrames DEF FramesType, ClientType
<1>3. ASSUME NEW p \in net, Malformed(p) \/ Inconsistent(p)
      PROVE  ClientType' /\ UNCHANGED <<hostVars, netVars>>
  <2>1. FramesType(frames)'
    BY <1>0, <1>3, Zenon DEF Malformed, Inconsistent, ClientType, FramesType
  <2>2. closed' \in BOOLEAN
    BY <1>3, Zenon DEF Malformed, Inconsistent
  <2> QED BY <1>0, <1>3, <2>1, <2>2, Zenon DEF Malformed, Inconsistent, ClientType, windowVars
<1>4. ASSUME NEW p \in net, DropStale(p) PROVE ClientType' /\ UNCHANGED <<hostVars, netVars>>
  BY <1>0, <1>4, Zenon DEF DropStale, ClientType, FramesType, vars, clientVars, windowVars
<1>5. ASSUME NEW p \in net, StoreFragment(p) PROVE ClientType' /\ UNCHANGED <<hostVars, netVars>>
  <2>1. FramesType(frames')
    BY <1>5, StoredType, Zenon DEF StoreFragment
  <2>2. arrived' \in [FrameIds -> SUBSET Nat]
    BY <1>1, <1>5, Zenon DEF StoreFragment
  <2> QED BY <1>0, <1>5, <2>1, <2>2, Zenon DEF StoreFragment, ClientType, windowVars, FramesType
<1>6. ASSUME NEW p \in net, AuthenticationFails(p) \/ NonceReplay(p)
      PROVE  ClientType' /\ UNCHANGED <<hostVars, netVars>>
  <2>1. FramesType(frames')
    BY <1>2, <1>6, Zenon DEF AuthenticationFails, NonceReplay
  <2>2. closed' \in BOOLEAN
    BY <1>6, Zenon DEF AuthenticationFails, NonceReplay
  <2>3. arrived' \in [FrameIds -> SUBSET Nat]
    BY <1>1, <1>6, Zenon DEF AuthenticationFails, NonceReplay, Assembles
  <2> QED BY <1>0, <1>6, <2>1, <2>2, <2>3, Zenon
             DEF AuthenticationFails, NonceReplay, ClientType, windowVars, FramesType
<1>7. ASSUME NEW p \in net, Publish(p) PROVE ClientType' /\ UNCHANGED <<hostVars, netVars>>
  <2>1. FramesType(frames')
    BY <1>2, <1>7 DEF Publish, FramesType, Restrict
  <2>2. arrived' \in [FrameIds -> SUBSET Nat]
    BY <1>1, <1>7, Zenon DEF Publish, Assembles
  <2>3. highest' \in -1..MaxNonce /\ accepted' \subseteq 0..MaxNonce
    <3>1. p.nonce \in 0..MaxNonce /\ highest \in -1..MaxNonce /\ accepted \subseteq 0..MaxNonce
      BY <1>0, DatagramType, Zenon DEF ClientType
    <3>2. CommitNonce(p.nonce)
      BY <1>7, Zenon DEF Publish
    <3>3. highest' \in -1..MaxNonce
      BY <3>1, <3>2 DEF CommitNonce
    <3>4. accepted' \subseteq accepted \union {p.nonce}
      BY <3>2, Zenon DEF CommitNonce
    <3> QED BY <3>1, <3>3, <3>4, Zenon
  <2>4. /\ last_authenticated' \in 0..MaxFrameId
        /\ latest' \in Frames \union {NoFrame} /\ published' \subseteq Frames
    <3>1. CASE p.id <= last_authenticated
      BY <1>0, <1>7, <3>1, Zenon DEF Publish, ClientType
    <3>2. CASE ~(p.id <= last_authenticated)
      <4>1. Opened(Header(p), Whole(p)) \in Frames
        BY <1>0, <1>7, OpenedIsSealed, Zenon DEF Publish, HostType
      <4>2. p.id \in 0..MaxFrameId
        BY DatagramType DEF FrameIds
      <4> QED BY <1>0, <1>7, <3>2, <4>1, <4>2, Zenon DEF Publish, ClientType
    <3> QED BY <3>1, <3>2, Zenon
  <2>5. closed' \in BOOLEAN /\ UNCHANGED <<hostVars, netVars>>
    BY <1>0, <1>7, Zenon DEF Publish, ClientType
  <2> QED BY <2>1, <2>2, <2>3, <2>4, <2>5, Zenon DEF ClientType, FramesType
<1>8. ASSUME DrainLatestFrame PROVE ClientType' /\ UNCHANGED <<hostVars, netVars>>
  BY <1>0, <1>8, Zenon DEF DrainLatestFrame, ClientType, FramesType, windowVars
<1> QED BY <1>3, <1>4, <1>5, <1>6, <1>7, <1>8, Client, Zenon DEF Client

\* Every step keeps the types.
LEMMA NextTypeOK == TypeOK /\ [Next]_vars => TypeOK'
<1> SUFFICES ASSUME TypeOK, [Next]_vars PROVE TypeOK'
    BY Zenon
<1>0. HostType /\ NetType /\ ClientType
  BY TypeParts, Zenon
<1>1. CASE Host
  <2>1. HostType' /\ NetType' /\ UNCHANGED clientVars
    BY <1>1, HostTypeStep, Zenon
  <2>2. ClientType'
    BY <1>0, <2>1, Zenon DEF ClientType, FramesType, clientVars, windowVars
  <2> QED BY <2>1, <2>2, TypeParts, Zenon DEF TypeOK, HostType, NetType, ClientType, FramesType
<1>2. CASE Network
  <2>1. PICK p \in net, id \in FrameIds : Damage(p, id)
    BY <1>2, Zenon DEF Network
  <2> DEFINE q == [p EXCEPT !.payload = DAMAGED, !.id = id]
  <2>2. q \in Datagrams /\ q.packet_id < q.count
    <3>1. p \in Datagrams /\ p.packet_id < p.count
      BY <1>0, Zenon DEF NetType
    <3>2. DAMAGED \in Payloads
      BY BoundsAssumption DEF DAMAGED, Payloads
    <3> QED BY <3>1, <3>2, Zenon DEF Datagrams
  <2>3. net' = net \union {q} /\ damaged' = damaged + 1 /\ damaged < MaxDamage
    BY <2>1, Zenon DEF Damage
  <2> HIDE DEF q
  <2>4. NetType'
    BY <1>0, <2>2, <2>3, BoundsAssumption DEF NetType
  <2> QED BY <1>0, <2>1, <2>4
             DEF Damage, hostVars, clientVars, windowVars, TypeOK, HostType, NetType,
                 ClientType, FramesType
<1>3. CASE Client
  <2>1. ClientType' /\ UNCHANGED <<hostVars, netVars>>
    BY <1>3, ClientTypeStep, Zenon
  <2> QED BY <1>0, <2>1, Zenon
             DEF hostVars, netVars, TypeOK, HostType, NetType, ClientType, FramesType
<1>4. CASE UNCHANGED vars
  BY <1>0, <1>4, Zenon
     DEF vars, hostVars, netVars, clientVars, windowVars, TypeOK, HostType, NetType, ClientType,
         FramesType
<1> QED BY <1>1, <1>2, <1>3, <1>4, Zenon DEF Next

\* Every counter, window and in-flight table of the video path keeps the shape its code
\* declares, in particular the nonce counter never passes u64::MAX.
THEOREM TypeCorrect == Spec => []TypeOK
<1>1. Init => TypeOK
  BY InitTypeOK, Zenon
<1>2. TypeOK /\ [Next]_vars => TypeOK'
  BY NextTypeOK, Zenon
<1> QED BY <1>1, <1>2, PTL DEF Spec

\* accept_datagram implements the abstract stream: only sealed frames are published,
\* whole and with growing ids, into a slot of depth one.
THEOREM PathImplementsStream == Spec => ImplementsFrameStream
<1>1. Init => Stream!Init
  BY Zenon DEF Init, Stream!Init
<1>2. TypeOK /\ [Next]_vars => [Stream!Next]_(Stream!vars)
  <2> SUFFICES ASSUME TypeOK, [Next]_vars PROVE Stream!Next \/ UNCHANGED Stream!vars
      BY Zenon
  <2>1. CASE Host
    BY <2>1, HostStreams, Zenon DEF Stream!Next
  <2>2. CASE Network
    BY <2>2, Zenon DEF Network, Damage, hostVars, clientVars, Stream!vars
  <2>3. CASE Client
    BY <2>3, ClientStreams, Zenon
  <2>4. CASE UNCHANGED vars
    BY <2>4, Zenon DEF vars, hostVars, clientVars, Stream!vars
  <2> QED BY <2>1, <2>2, <2>3, <2>4, Zenon DEF Next
<1> QED BY <1>1, <1>2, TypeCorrect, PTL DEF Spec, ImplementsFrameStream, Stream!Spec

----------------------------------------------------------------------------
(* Nonces.  Within one run, frame ids and nonces grow together, and every   *)
(* nonce below the counter (or every nonce, once exhausted) may be taken.   *)

SealedInv ==
  /\ \A f \in sealed : /\ f.run <= run
                       /\ f.run = run => f.id <= captured /\ (f.nonce < next \/ exhausted)
  /\ \A f, g \in sealed : f.run = g.run => /\ f.nonce = g.nonce => f = g
                                           /\ f.id = g.id => f = g
                                           /\ f.id < g.id => f.nonce < g.nonce

\* Sealing keeps ids and nonces of a run growing together, below the counter.
LEMMA SealedStep == TypeOK /\ SealedInv /\ [Next]_vars => SealedInv'
<1> SUFFICES ASSUME TypeOK, SealedInv, [Next]_vars PROVE SealedInv'
    BY Zenon
<1> USE BoundsAssumption
<1>0. /\ sealed \subseteq Frames /\ run \in Nat /\ captured \in Nat /\ next \in 0..MaxNonce
  BY DEF TypeOK
<1>t. \A f \in Frames : f.run \in Nat /\ f.id \in Nat /\ f.nonce \in 0..MaxNonce
  BY DEF Frames, FrameIds
<1>1. ASSUME NEW id \in 1..MaxCapture, FrameIdOutOfRange(id) \/ SealFails(id) PROVE SealedInv'
  BY <1>0, <1>t, <1>1 DEF FrameIdOutOfRange, SealFails, CaptureAndEncode, SealedInv
<1>2. ASSUME NEW id \in 1..MaxCapture, NEW c \in PacketCounts, TooManyPackets(id, c) PROVE SealedInv'
  BY <1>0, <1>t, <1>2 DEF TooManyPackets, CaptureAndEncode, NextNonce, SealedInv
<1>3. ASSUME NEW id \in 1..MaxCapture, NEW c \in PacketCounts, StreamFrame(id, c) PROVE SealedInv'
  <2> DEFINE f == [id |-> id, nonce |-> next, keyframe |-> IsKeyframe, count |-> c, run |-> run]
  <2>1. sealed' = sealed \union {f} /\ run' = run /\ captured' = id /\ id > captured /\ ~exhausted
    BY <1>3, Zenon DEF StreamFrame, CaptureAndEncode
  <2>2. f.run = run /\ f.id = id /\ f.nonce = next
    BY Zenon
  <2>3. next' = next + 1 \/ exhausted'
    BY <1>3, Zenon DEF StreamFrame, NextNonce
  <2>3a. next' \in Nat /\ (next' = next \/ next' = next + 1)
    BY <1>0, <1>3 DEF StreamFrame, NextNonce
  <2> HIDE DEF f
  <2>4. \A g \in sealed : g.run = run => g.id < id /\ g.nonce < next
    BY <1>0, <1>t, <2>1 DEF SealedInv
  <2>5. \A g \in sealed' : /\ g.run <= run'
                           /\ g.run = run' => g.id <= captured' /\ (g.nonce < next' \/ exhausted')
    <3> TAKE g \in sealed'
    <3>1. CASE g = f
      BY <1>0, <2>1, <2>2, <2>3, <3>1
    <3>2. CASE g \in sealed
      <4>1. g.run <= run /\ g.nonce \in Nat /\ g.id \in Nat
        BY <1>0, <1>t, <3>2 DEF SealedInv
      <4> QED BY <1>0, <2>1, <2>3, <2>3a, <2>4, <3>2, <4>1
    <3> QED BY <2>1, <3>1, <3>2, Zenon
  <2>6. ASSUME NEW g \in sealed', NEW h \in sealed', g.run = h.run
        PROVE  /\ g.nonce = h.nonce => g = h
               /\ g.id = h.id => g = h
               /\ g.id < h.id => g.nonce < h.nonce
    <3>1. CASE g \in sealed /\ h \in sealed
      BY <2>6, <3>1, Zenon DEF SealedInv
    <3>2. CASE g = f /\ h \in sealed
      BY <1>0, <1>t, <2>2, <2>4, <2>6, <3>2
    <3>3. CASE g \in sealed /\ h = f
      BY <1>0, <1>t, <2>2, <2>4, <2>6, <3>3
    <3>4. CASE g = f /\ h = f
      BY <1>0, <2>2, <3>4
    <3> QED BY <2>1, <3>1, <3>2, <3>3, <3>4, Zenon
  <2> QED BY <2>5, <2>6, Zenon DEF SealedInv
<1>4. ASSUME RequestKeyframe \/ Stop \/ Client \/ Network \/ UNCHANGED vars PROVE SealedInv'
  <2>1. UNCHANGED <<sealed, run, captured, next, exhausted>>
    <3>1. CASE RequestKeyframe \/ Stop \/ UNCHANGED vars
      BY <3>1, Zenon DEF RequestKeyframe, Stop, vars, hostVars
    <3>2. CASE Client
      BY <3>2, ClientTypeStep, Zenon DEF hostVars
    <3>3. CASE Network
      BY <3>3, Zenon DEF Network, Damage, hostVars
    <3> QED BY <1>4, <3>1, <3>2, <3>3, Zenon
  <2> QED BY <2>1, Zenon DEF SealedInv
<1>5. ASSUME RunStreamer PROVE SealedInv'
  BY <1>0, <1>t, <1>5 DEF RunStreamer, SealedInv
<1> QED BY <1>1, <1>2, <1>3, <1>4, <1>5, Zenon DEF Next, Host

\* The invariant of the sealed frames holds in every reachable state.
LEMMA SealedAlways == Spec => [](TypeOK /\ SealedInv)
<1>1. Init => SealedInv
  BY Zenon DEF Init, SealedInv
<1> QED BY <1>1, SealedStep, TypeCorrect, PTL DEF Spec

\* A run of the streamer never seals two frames under one nonce, however long it lasts:
\* next_nonce hands the last value out once and then fails.
THEOREM NoncesAreUnique == Spec => []NonceUniquePerRun
<1>1. SealedInv => NonceUniquePerRun
  BY Zenon DEF SealedInv, NonceUniquePerRun
<1> QED BY <1>1, SealedAlways, PTL

----------------------------------------------------------------------------
(* The replay window.  A published nonce is in accepted or has left the     *)
(* window, and FreshNonce refuses both.                                     *)

WindowInv ==
  /\ \A m \in accepted : m <= highest
  /\ \A f \in published : /\ f.nonce <= highest
                          /\ f.nonce \in accepted \/ highest - f.nonce >= Window

\* Only Publish touches the window and what was published.
LEMMA WindowQuiet ==
  [Next]_vars => (\E p \in net : Publish(p)) \/ UNCHANGED <<highest, accepted, published>>
<1> SUFFICES ASSUME [Next]_vars, ~\E p \in net : Publish(p)
             PROVE  UNCHANGED <<highest, accepted, published>>
    BY Zenon
<1>1. CASE Host
  BY <1>1, Zenon
     DEF Host, FrameIdOutOfRange, SealFails, StreamFrame, TooManyPackets, RequestKeyframe, Stop,
         RunStreamer, clientVars, windowVars
<1>2. CASE Network \/ UNCHANGED vars
  BY <1>2, Zenon DEF Network, Damage, vars, clientVars, windowVars
<1>3. CASE Client
  BY <1>3, Zenon DEF Client, Malformed, DropStale, StoreFragment, Inconsistent, AuthenticationFails,
              NonceReplay, DrainLatestFrame, vars, clientVars, windowVars
<1> QED BY <1>1, <1>2, <1>3, Zenon DEF Next

\* A published nonce is in the window or below it, so that no nonce is published twice.
LEMMA WindowStep ==
  TypeOK /\ WindowInv /\ NoNonceTwice /\ [Next]_vars => WindowInv' /\ NoNonceTwice'
<1> SUFFICES ASSUME TypeOK, WindowInv, NoNonceTwice, [Next]_vars
             PROVE  WindowInv' /\ NoNonceTwice'
    BY Zenon
<1>1. CASE UNCHANGED <<highest, accepted, published>>
  BY <1>1, Zenon DEF WindowInv, NoNonceTwice
<1>2. ASSUME NEW p \in net, Publish(p) PROVE WindowInv' /\ NoNonceTwice'
  <2> DEFINE n == p.nonce
             top == IF n > highest THEN n ELSE highest
             f == Opened(Header(p), Whole(p))
  <2>1. /\ n \in Int /\ highest \in Int /\ Window \in Nat \ {0} /\ accepted \subseteq Int
        /\ \A g \in published : g.nonce \in Int
    BY DatagramType, BoundsAssumption DEF TypeOK, Frames
  <2>2. f.nonce = n
    <3>1. Header(f) = Header(p)
      BY <1>2, OpenedIsSealed, Zenon DEF Publish
    <3> QED BY <3>1, Zenon DEF Header
  <2>3. /\ FreshNonce(n) /\ highest' = top
        /\ accepted' = {m \in accepted \union {n} : top - m < Window}
        /\ published' \subseteq published \union {f}
    BY <1>2, Zenon DEF Publish, CommitNonce
  <2> HIDE DEF f, n
  <2>4. \A g \in published : g.nonce # n
    BY <2>1, <2>3, Zenon DEF WindowInv, FreshNonce
  <2>5. top \in Int /\ top >= highest /\ top >= n
    BY <2>1
  <2> HIDE DEF top
  <2>6. \A m \in accepted' : m <= highest'
    BY <2>1, <2>3, <2>5 DEF WindowInv
  <2>7. ASSUME NEW g \in published'
        PROVE  g.nonce <= highest' /\ (g.nonce \in accepted' \/ highest' - g.nonce >= Window)
    <3>1. g.nonce \in Int /\ g.nonce <= top
      BY <2>1, <2>2, <2>3, <2>5 DEF WindowInv
    <3>2. CASE g.nonce \in accepted \union {n}
      BY <2>1, <2>3, <2>5, <3>1, <3>2
    <3>3. CASE g.nonce \notin accepted \union {n}
      BY <2>1, <2>2, <2>3, <2>5, <3>1, <3>3 DEF WindowInv
    <3> QED BY <3>2, <3>3, Zenon
  <2>8. NoNonceTwice'
    BY <2>2, <2>3, <2>4, Zenon DEF NoNonceTwice
  <2> QED BY <2>6, <2>7, <2>8, Zenon DEF WindowInv
<1> QED BY <1>1, <1>2, WindowQuiet, Zenon

\* A nonce is used once at both ends, for sequences and replay windows of any length: what
\* has left the window is refused, so forgetting a nonce never lets it in again.
THEOREM NonceOnceHolds == Spec => []NonceOnce
<1>1. Init => WindowInv /\ NoNonceTwice
  BY Zenon DEF Init, WindowInv, NoNonceTwice
<1>2. NonceUniquePerRun /\ NoNonceTwice => NonceOnce
  BY Zenon DEF NonceOnce
<1> QED BY <1>1, <1>2, WindowStep, TypeCorrect, NoncesAreUnique, PTL DEF Spec

----------------------------------------------------------------------------
(* Loss.  As long as one run streams under the key and nothing is damaged,  *)
(* what is on the network and in flight are fragments of sealed frames, and *)
(* the replay window's top is the nonce of the newest authenticated frame.  *)

CleanRun == run = 1 /\ damaged = 0

CleanInv ==
  /\ \A p \in net : p.payload = 1 /\ \E f \in sealed : Header(f) = Header(p)
  /\ \A i \in DOMAIN frames :
       /\ \E f \in sealed : f.id = i /\ Header(f) = frames[i].base_header
       /\ \A k \in DOMAIN frames[i].packets : frames[i].packets[k] = 1
  /\ \/ last_authenticated = 0 /\ highest = -1
     \/ \E f \in sealed : f.id = last_authenticated /\ f.nonce = highest
  /\ ~closed

\* A session that is clean after a step was clean before it.
LEMMA CleanBefore ==
  ASSUME TypeOK, [Next]_vars, CleanRun'
  PROVE  CleanRun /\ ~RunStreamer /\ ~Network
<1>1. run \in 1..MaxRuns /\ damaged \in 0..MaxDamage
  BY Zenon DEF TypeOK
<1>2. ~RunStreamer
  BY <1>1 DEF RunStreamer, CleanRun
<1>3. ~Network
  <2>1. Network => damaged' = damaged + 1
    BY Zenon DEF Network, Damage
  <2> QED BY <1>1, <2>1 DEF CleanRun
<1>4. UNCHANGED <<run, damaged>>
  <2>1. CASE Host
    BY <1>2, <2>1, Zenon DEF Host, FrameIdOutOfRange, SealFails, StreamFrame, TooManyPackets,
                      RequestKeyframe, Stop, netVars
  <2>2. CASE Client
    BY <2>2, ClientTypeStep, Zenon DEF hostVars, netVars
  <2>3. CASE UNCHANGED vars
    BY <2>3, Zenon DEF vars, hostVars, netVars
  <2> QED BY <1>3, <2>1, <2>2, <2>3 DEF Next
<1> QED BY <1>2, <1>3, <1>4, Zenon DEF CleanRun

\* In a clean session the frame a fragment belongs to is determined by its id.
LEMMA CleanFrame ==
  ASSUME TypeOK, SealedInv, CleanRun, NEW f \in sealed
  PROVE  /\ f.run = 1 /\ f.id \in Nat /\ f.nonce \in Nat /\ f.count \in Nat \ {0}
         /\ \A g \in sealed : f.id = g.id => f = g
         /\ \A g \in sealed : f.id < g.id => f.nonce < g.nonce
<1>1. \A g \in sealed : g.run = 1
  BY BoundsAssumption DEF TypeOK, Frames, SealedInv, CleanRun
<1>2. f.id \in Nat /\ f.nonce \in Nat /\ f.count \in Nat \ {0}
  <2>1. f \in Frames
    BY Zenon DEF TypeOK
  <2>2. f.id \in FrameIds /\ f.nonce \in 0..MaxNonce /\ f.count \in PacketCounts
    BY <2>1, Zenon DEF Frames
  <2>3. f.id \in Nat
    BY <2>2 DEF FrameIds
  <2>4. f.nonce \in Nat
    BY <2>2
  <2>5. f.count \in Nat \ {0}
    BY <2>2, BoundsAssumption, Zenon
  <2> QED BY <2>3, <2>4, <2>5, Zenon
<1> QED BY <1>1, <1>2 DEF SealedInv

\* Whatever fragment arrives, process_packet, open_encoded_frame and the replay window
\* have nothing to object to.
LEMMA CleanDelivery ==
  ASSUME TypeOK, SealedInv, WindowInv, CleanRun, CleanInv, NEW p \in net, ~Stale(p)
  PROVE  /\ p.payload # DAMAGED
         /\ Consistent(p)
         /\ p.nonce > highest /\ FreshNonce(p.nonce)
         /\ p.count = 1 \/ Completes(p) => Opens(Header(p), Whole(p))
         /\ \A k \in DOMAIN Packets(p) : Packets(p)[k] = 1
<1>1. /\ p.id \in Nat /\ p.nonce \in Nat /\ p.count \in Nat \ {0} /\ p.packet_id \in 0..(p.count - 1)
      /\ last_authenticated \in Nat /\ highest \in Int /\ p.id > last_authenticated
  <2>1. /\ p.id \in FrameIds /\ p.nonce \in 0..MaxNonce /\ p.count \in Nat \ {0}
        /\ p.packet_id \in 0..(p.count - 1)
    BY DatagramType, Zenon
  <2>2. last_authenticated \in 0..MaxFrameId /\ highest \in -1..MaxNonce
    BY Zenon DEF TypeOK
  <2>3. ~(p.id <= last_authenticated)
    BY Zenon DEF Stale
  <2> QED BY <2>1, <2>2, <2>3 DEF FrameIds
<1>2. PICK f \in sealed : Header(f) = Header(p)
  BY Zenon DEF CleanInv
<1>3. f.id = p.id /\ f.nonce = p.nonce /\ f.count = p.count /\ f.run = 1
  BY <1>2, CleanFrame, Zenon DEF Header
<1>4. p.payload = 1 /\ p.payload # DAMAGED
  BY DEF CleanInv, DAMAGED
<1>5. Consistent(p)
  <2>1. CASE p.id \in DOMAIN frames
    <3>1. PICK g \in sealed : g.id = p.id /\ Header(g) = frames[p.id].base_header
      BY <2>1, Zenon DEF CleanInv
    <3>2. g = f
      BY <1>3, <3>1, CleanFrame, Zenon
    <3> QED BY <1>2, <2>1, <3>1, <3>2, Zenon DEF Consistent, InFlight
  <2>2. CASE p.id \notin DOMAIN frames
    BY <2>2, Zenon DEF Consistent, InFlight
  <2> QED BY <2>1, <2>2, Zenon
<1>6. p.nonce > highest
  <2>1. CASE highest = -1
    BY <1>1, <2>1
  <2>2. CASE highest # -1
    <3>1. PICK g \in sealed : g.id = last_authenticated /\ g.nonce = highest
      BY <2>2, Zenon DEF CleanInv
    <3> QED BY <1>1, <1>3, <3>1, CleanFrame, Zenon
  <2> QED BY <2>1, <2>2, Zenon
<1>7. FreshNonce(p.nonce)
  BY <1>1, <1>6 DEF FreshNonce, WindowInv, TypeOK
<1>8. \A k \in DOMAIN Packets(p) : Packets(p)[k] = 1
  <2>1. \A k \in DOMAIN InFlight(p).packets : InFlight(p).packets[k] = 1
    BY DEF InFlight, CleanInv
  <2> QED BY <1>4, <2>1, Zenon DEF Packets
<1>9. ASSUME p.count = 1 \/ Completes(p) PROVE Opens(Header(p), Whole(p))
  <2>1. CASE p.count = 1
    <3>1. 0..(f.count - 1) = {0} /\ p.packet_id = 0
      BY <1>1, <1>3, <2>1
    <3> QED BY <1>2, <1>3, <1>4, <2>1, <3>1, Zenon DEF Opens, IsSealed, Whole
  <2>2. CASE p.count # 1
    <3>1. Whole(p) = Packets(p) /\ DOMAIN Packets(p) = 0..(f.count - 1)
      BY <1>3, <1>9, <2>2, Zenon DEF Whole, Completes
    <3>2. Packets(p) = [i \in 0..(f.count - 1) |-> f.run]
      <4>1. Packets(p) = [i \in DOMAIN Packets(p) |-> Packets(p)[i]]
        BY Zenon DEF Packets
      <4> HIDE DEF Packets
      <4> QED BY <1>3, <1>8, <3>1, <4>1, Zenon
    <3> QED BY <1>2, <3>1, <3>2, Zenon DEF Opens, IsSealed
  <2> QED BY <2>1, <2>2, Zenon
<1> QED BY <1>4, <1>5, <1>6, <1>7, <1>8, <1>9

\* Every step keeps a clean session clean.
LEMMA CleanStep ==
  ASSUME TypeOK, SealedInv, WindowInv, CleanRun => CleanInv, [Next]_vars, CleanRun'
  PROVE  CleanInv'
<1>0. CleanRun /\ CleanInv /\ ~RunStreamer /\ ~Network
  BY CleanBefore, Zenon
<1>1. ASSUME NEW id \in 1..MaxCapture, NEW c \in PacketCounts, StreamFrame(id, c) PROVE CleanInv'
  <2> DEFINE f == [id |-> id, nonce |-> next, keyframe |-> IsKeyframe, count |-> c, run |-> run]
  <2>1. /\ sealed' = sealed \union {f} /\ net' = net \union Packetize(f)
        /\ UNCHANGED <<frames, last_authenticated, highest, closed>>
    BY <1>1, Zenon DEF StreamFrame, clientVars, windowVars
  <2>2. \A p \in Packetize(f) : p.payload = 1 /\ Header(p) = Header(f)
    BY <1>0 DEF Packetize, Header, CleanRun
  <2> HIDE DEF f
  <2>3. \A p \in net' : p.payload = 1 /\ \E g \in sealed' : Header(g) = Header(p)
    BY <1>0, <2>1, <2>2, Zenon DEF CleanInv
  <2> QED BY <1>0, <2>1, <2>3, Zenon DEF CleanInv
<1>2. CASE UNCHANGED <<net, sealed, frames, last_authenticated, highest, closed>>
  BY <1>0, <1>2, Zenon DEF CleanInv
<1>3. ASSUME NEW p \in net, StoreFragment(p) PROVE CleanInv'
  <2>1. /\ ~Stale(p) /\ frames' = Stored(p)
        /\ UNCHANGED <<net, sealed, last_authenticated, highest, closed>>
    BY <1>3, Zenon DEF StoreFragment, hostVars, netVars, windowVars
  <2>2. Consistent(p) /\ \A k \in DOMAIN Packets(p) : Packets(p)[k] = 1
    BY <1>0, <2>1, CleanDelivery, Zenon
  <2>3. \E f \in sealed : f.id = p.id /\ Header(f) = InFlight(p).base_header
    <3>1. PICK f \in sealed : Header(f) = Header(p)
      BY <1>0, Zenon DEF CleanInv
    <3>2. f.id = p.id
      BY <3>1, Zenon DEF Header
    <3> QED BY <2>2, <3>1, <3>2, Zenon DEF Consistent
  <2>4. /\ DOMAIN frames' = DOMAIN MakeRoom(p.id) \union {p.id}
        /\ frames'[p.id].base_header = InFlight(p).base_header /\ frames'[p.id].packets = Packets(p)
        /\ \A i \in DOMAIN frames' : i # p.id => i \in DOMAIN frames /\ frames'[i] = frames[i]
    BY <2>1, RemovedFrames DEF Stored
  <2>5. ASSUME NEW i \in DOMAIN frames'
        PROVE  /\ \E f \in sealed : f.id = i /\ Header(f) = frames'[i].base_header
               /\ \A k \in DOMAIN frames'[i].packets : frames'[i].packets[k] = 1
    <3>1. CASE i = p.id
      BY <2>2, <2>3, <2>4, <3>1
    <3>2. CASE i # p.id
      BY <1>0, <2>4, <3>2 DEF CleanInv
    <3> QED BY <3>1, <3>2, Zenon
  <2> QED BY <1>0, <2>1, <2>5, Zenon DEF CleanInv
<1>4. ASSUME NEW p \in net, Publish(p) PROVE CleanInv'
  <2>1. ~Stale(p) /\ ~(p.id <= last_authenticated) /\ UNCHANGED <<net, sealed, closed>>
    BY <1>4, Zenon DEF Publish, Assembles, Stale, hostVars, netVars
  <2>2. /\ last_authenticated' = p.id /\ CommitNonce(p.nonce)
        /\ frames' = Restrict(Removed(p), {i \in DOMAIN Removed(p) : i >= p.id})
    BY <1>4, <2>1, Zenon DEF Publish
  <2>3. \A i \in DOMAIN frames' : i \in DOMAIN frames /\ frames'[i] = frames[i]
    BY <2>2, RemovedFrames, Zenon DEF Restrict
  <2>4. p.nonce > highest
    BY <1>0, <2>1, CleanDelivery, Zenon
  <2>5. highest' = p.nonce
    BY <2>2, <2>4, Zenon DEF CommitNonce
  <2>6. \E f \in sealed : f.id = p.id /\ f.nonce = p.nonce
    BY <1>0, Zenon DEF CleanInv, Header
  <2>7. \A q \in net' : q.payload = 1 /\ \E f \in sealed' : Header(f) = Header(q)
    BY <1>0, <2>1, Zenon DEF CleanInv
  <2>8. \A i \in DOMAIN frames' :
          /\ \E f \in sealed' : f.id = i /\ Header(f) = frames'[i].base_header
          /\ \A k \in DOMAIN frames'[i].packets : frames'[i].packets[k] = 1
    BY <1>0, <2>1, <2>3 DEF CleanInv
  <2>9. \E f \in sealed' : f.id = last_authenticated' /\ f.nonce = highest'
    BY <2>1, <2>2, <2>5, <2>6, Zenon
  <2> QED BY <1>0, <2>1, <2>7, <2>8, <2>9, Zenon DEF CleanInv
<1>5. ASSUME NEW p \in net, \/ Malformed(p) \/ Inconsistent(p) \/ AuthenticationFails(p)
                            \/ NonceReplay(p)
      PROVE  FALSE
  <2>1. p.payload # DAMAGED
    BY <1>0 DEF CleanInv, DAMAGED
  <2>2. ~Stale(p)
    BY <1>5, <2>1 DEF Malformed, Inconsistent, AuthenticationFails, NonceReplay, Assembles
  <2>3. /\ Consistent(p) /\ FreshNonce(p.nonce)
        /\ p.count = 1 \/ Completes(p) => Opens(Header(p), Whole(p))
    BY <1>0, <2>2, CleanDelivery
  <2> QED BY <1>5, <2>1, <2>3, Zenon
             DEF Malformed, Inconsistent, AuthenticationFails, NonceReplay, Assembles
<1>6. CASE Client
  <2>1. ASSUME NEW p \in net, DropStale(p) PROVE CleanInv'
    BY <1>2, <2>1, Zenon DEF DropStale, vars, hostVars, netVars, clientVars, windowVars
  <2>2. ASSUME DrainLatestFrame PROVE CleanInv'
    BY <1>2, <2>2, Zenon DEF DrainLatestFrame, hostVars, netVars, windowVars
  <2> QED BY <1>3, <1>4, <1>5, <1>6, <2>1, <2>2 DEF Client
<1>7. CASE Host
  <2>1. CASE \E id \in 1..MaxCapture, c \in PacketCounts : StreamFrame(id, c)
    BY <1>1, <2>1, Zenon
  <2>2. CASE ~\E id \in 1..MaxCapture, c \in PacketCounts : StreamFrame(id, c)
    BY <1>0, <1>2, <1>7, <2>2 DEF Host, FrameIdOutOfRange, SealFails, TooManyPackets,
                                  RequestKeyframe, Stop, netVars, clientVars, windowVars
  <2> QED BY <2>1, <2>2, Zenon
<1>8. CASE UNCHANGED vars
  BY <1>2, <1>8, Zenon DEF vars, hostVars, netVars, clientVars, windowVars
<1> QED BY <1>0, <1>6, <1>7, <1>8, Zenon DEF Next

\* What holds in every reachable state, clean or not.
PathInv == TypeOK /\ SealedInv /\ WindowInv /\ (CleanRun => CleanInv)

\* The invariant of the whole path holds in every reachable state.
LEMMA PathInvAlways == Spec => []PathInv
<1>1. Init => WindowInv /\ NoNonceTwice /\ (CleanRun => CleanInv)
  BY DEF Init, WindowInv, NoNonceTwice, CleanInv
<1>2. TypeOK /\ SealedInv /\ WindowInv /\ (CleanRun => CleanInv) /\ [Next]_vars
      => (CleanRun => CleanInv)'
  <2> SUFFICES ASSUME TypeOK, SealedInv, WindowInv, CleanRun => CleanInv, [Next]_vars, CleanRun'
               PROVE  CleanInv'
      BY Zenon
  <2> QED BY CleanStep, Zenon
<1>3. TypeOK /\ SealedInv /\ WindowInv /\ (CleanRun => CleanInv) => PathInv
  BY Zenon DEF PathInv
<1> QED BY <1>1, <1>2, <1>3, SealedAlways, WindowStep, PTL DEF Spec

\* However the network loses, repeats and reorders the datagrams of a run, accept_datagram
\* reports no error: a session is torn down only by a second run under its key or by a
\* damaged datagram.
THEOREM LossNeverClosesHolds == Spec => []LossNeverCloses
<1>1. PathInv => LossNeverCloses
  <2> SUFFICES ASSUME PathInv, closed PROVE run > 1 \/ damaged > 0
      BY Zenon DEF LossNeverCloses
  <2>1. run \in 1..MaxRuns /\ damaged \in 0..MaxDamage
    BY Zenon DEF PathInv, TypeOK
  <2>2. ~CleanRun
    BY Zenon DEF PathInv, CleanInv
  <2> QED BY <2>1, <2>2, BoundsAssumption DEF CleanRun
<1> QED BY <1>1, PathInvAlways, PTL

----------------------------------------------------------------------------
(* The bounded reassembler.  The newest frame that has arrived is in flight *)
(* with every fragment that has arrived of it, until it is published.       *)

\* The less-than relation on the naturals, as a set of pairs, is well founded.
NatLess == {ss \in Nat \X Nat : ss[1] < ss[2]}

\* There is no infinitely descending sequence of ids.
LEMMA NatLessWellFounded == IsWellFoundedOn(NatLess, Nat)
BY NatLessThanWellFounded, Zenon DEF NatLess, OpToRel

\* The least element of a set of ids, which frames.keys().next() of the BTreeMap yields.
LEMMA MinOf ==
  ASSUME NEW S \in SUBSET Nat, S # {}
  PROVE  Min(S) \in S /\ \A y \in S : Min(S) <= y
<1>1. PICK x \in S : \A y \in S : ~(<<y, x>> \in NatLess)
  BY NatLessWellFounded, WFMin, Zenon
<1>2. \A y \in S : x <= y
  <2> TAKE y \in S
  <2>1. x \in Nat /\ y \in Nat
    BY Zenon
  <2>2. y < x => <<y, x>> \in NatLess
    BY <2>1, Zenon DEF NatLess
  <2> QED BY <1>1, <2>1, <2>2
<1> QED BY <1>2, Zenon DEF Min

BoundedInv == IsFiniteSet(DOMAIN frames) /\ InFlightBounded

\* Making room leaves a slot for the frame it is made for.
LEMMA RoomForOne ==
  ASSUME TypeOK, BoundedInv, NEW id \in FrameIds
  PROVE  /\ IsFiniteSet(DOMAIN MakeRoom(id) \union {id})
         /\ Cardinality(DOMAIN MakeRoom(id) \union {id}) <= MaxInFlight
<1> DEFINE S == DOMAIN frames
<1>0. /\ S \subseteq Nat /\ IsFiniteSet(S) /\ Cardinality(S) \in Nat /\ Cardinality(S) <= MaxInFlight
      /\ MaxInFlight \in Nat \ {0}
  <2>1. S \subseteq FrameIds /\ IsFiniteSet(S) /\ Cardinality(S) <= MaxInFlight
    BY Zenon DEF TypeOK, BoundedInv, InFlightBounded
  <2>2. FrameIds \subseteq Nat /\ MaxInFlight \in Nat \ {0}
    BY BoundsAssumption DEF FrameIds
  <2> QED BY <2>1, <2>2, FS_CardinalityType, Zenon
<1>1. CASE id \in S
  <2>1. MakeRoom(id) = frames /\ S \union {id} = S
    BY <1>1, Zenon DEF MakeRoom
  <2> QED BY <1>0, <2>1, Zenon
<1>2. CASE id \notin S /\ Cardinality(S) < MaxInFlight
  <2>1. MakeRoom(id) = frames
    BY <1>0, <1>2 DEF MakeRoom
  <2>2. IsFiniteSet(S \union {id}) /\ Cardinality(S \union {id}) = Cardinality(S) + 1
    BY <1>0, <1>2, FS_AddElement, Zenon
  <2>3. Cardinality(S) + 1 <= MaxInFlight
    BY <1>0, <1>2
  <2> QED BY <2>1, <2>2, <2>3, Zenon
<1>3. CASE id \notin S /\ Cardinality(S) >= MaxInFlight
  <2>1. S # {}
    BY <1>0, <1>3, FS_EmptySet
  <2>2. Min(S) \in S
    BY <1>0, <2>1, MinOf, Zenon
  <2>3. DOMAIN MakeRoom(id) = S \ {Min(S)}
    BY <1>3, Zenon DEF MakeRoom, Restrict
  <2>4. IsFiniteSet(S \ {Min(S)}) /\ Cardinality(S \ {Min(S)}) = Cardinality(S) - 1
    BY <1>0, <2>2, FS_RemoveElement, Zenon
  <2>5. /\ IsFiniteSet((S \ {Min(S)}) \union {id})
        /\ Cardinality((S \ {Min(S)}) \union {id}) = Cardinality(S)
    <3> DEFINE T == S \ {Min(S)}
    <3>1. IsFiniteSet(T) /\ Cardinality(T) = Cardinality(S) - 1 /\ id \notin T
      BY <1>3, <2>4, Zenon
    <3> HIDE DEF T
    <3>2. IsFiniteSet(T \union {id}) /\ Cardinality(T \union {id}) = Cardinality(T) + 1
      BY <3>1, FS_AddElement, Zenon
    <3>3. Cardinality(T) + 1 = Cardinality(S)
      BY <1>0, <3>1
    <3> QED BY <3>2, <3>3, Zenon DEF T
  <2> QED BY <1>0, <2>3, <2>5, Zenon
<1> QED BY <1>0, <1>1, <1>2, <1>3

\* Fewer frames in flight are within the bound as well.
LEMMA FewerFrames ==
  ASSUME BoundedInv, DOMAIN frames' \subseteq DOMAIN frames
  PROVE  IsFiniteSet(DOMAIN frames') /\ Cardinality(DOMAIN frames') <= MaxInFlight
<1>1. IsFiniteSet(DOMAIN frames) /\ Cardinality(DOMAIN frames) <= MaxInFlight
  BY Zenon DEF BoundedInv, InFlightBounded
<1>2. /\ IsFiniteSet(DOMAIN frames') /\ Cardinality(DOMAIN frames') \in Nat
      /\ Cardinality(DOMAIN frames) \in Nat
      /\ Cardinality(DOMAIN frames') <= Cardinality(DOMAIN frames)
  BY <1>1, FS_Subset, FS_CardinalityType, Zenon
<1> QED BY <1>1, <1>2, BoundsAssumption

\* Every step keeps the reassembler within its bounds.
LEMMA BoundedStep == TypeOK /\ BoundedInv /\ [Next]_vars => BoundedInv'
<1> SUFFICES ASSUME TypeOK, BoundedInv, [Next]_vars PROVE BoundedInv'
    BY Zenon
<1>0. last_authenticated \in Nat /\ DOMAIN frames \subseteq Nat
  BY DEF TypeOK, FrameIds
<1>1. ASSUME NEW p \in net, StoreFragment(p) PROVE BoundedInv'
  <2>1. p.id \in FrameIds /\ p.id \in Nat
    BY DatagramType DEF FrameIds
  <2>2. ~Stale(p) /\ frames' = Stored(p) /\ last_authenticated' = last_authenticated
    BY <1>1, Zenon DEF StoreFragment
  <2>3. DOMAIN frames' = DOMAIN MakeRoom(p.id) \union {p.id}
    BY <2>2, Zenon DEF Stored
  <2>4. \A i \in DOMAIN MakeRoom(p.id) : i \in DOMAIN frames
    BY RemovedFrames, Zenon
  <2>5. \A i \in DOMAIN frames' : i >= last_authenticated'
    BY <1>0, <2>1, <2>2, <2>3, <2>4 DEF Stale, BoundedInv, InFlightBounded
  <2> QED BY <2>1, <2>3, <2>5, RoomForOne, Zenon DEF BoundedInv, InFlightBounded
<1>2. ASSUME NEW p \in net, AuthenticationFails(p) \/ NonceReplay(p) PROVE BoundedInv'
  <2>1. frames' = Removed(p) /\ last_authenticated' = last_authenticated
    BY <1>2, Zenon DEF AuthenticationFails, NonceReplay
  <2>2. DOMAIN frames' \subseteq DOMAIN frames
    BY <2>1, RemovedFrames, Zenon
  <2> QED BY <2>1, <2>2, FewerFrames, Zenon DEF BoundedInv, InFlightBounded
<1>3. ASSUME NEW p \in net, Publish(p) PROVE BoundedInv'
  <2>1. /\ last_authenticated' = p.id
        /\ frames' = Restrict(Removed(p), {i \in DOMAIN Removed(p) : i >= p.id})
    BY <1>3, Zenon DEF Publish, Assembles, Stale
  <2>2. DOMAIN frames' \subseteq DOMAIN frames /\ \A i \in DOMAIN frames' : i >= last_authenticated'
    BY <2>1, RemovedFrames DEF Restrict
  <2> QED BY <2>2, FewerFrames, Zenon DEF BoundedInv, InFlightBounded
<1>4. CASE UNCHANGED <<frames, last_authenticated>>
  BY <1>4 DEF BoundedInv, InFlightBounded
<1>5. CASE Client
  BY <1>1, <1>2, <1>3, <1>4, <1>5
     DEF Client, Malformed, DropStale, Inconsistent, DrainLatestFrame, vars, clientVars
<1>6. CASE Host \/ Network \/ UNCHANGED vars
  <2>1. UNCHANGED clientVars
    BY <1>6, HostTypeStep, Zenon DEF Network, Damage, vars
  <2> QED BY <1>4, <2>1, Zenon DEF clientVars
<1> QED BY <1>5, <1>6, Zenon DEF Next

IsNewest(n) == arrived[n] # {} /\ \A i \in FrameIds : arrived[i] # {} => i <= n

NewestInv ==
  /\ \A i \in DOMAIN frames : /\ arrived[i] # {}
                              /\ DOMAIN frames[i].packets # 0..(frames[i].base_header.count - 1)
  /\ \A n \in FrameIds : IsNewest(n) /\ n > last_authenticated
       => n \in DOMAIN frames /\ DOMAIN frames[n].packets = arrived[n]

\* With one place a late fragment of an older frame evicts the newest.
RoomForTwo == MaxInFlight > 1

\* Room is never made at the cost of the newest frame.
LEMMA NewestStays ==
  ASSUME RoomForTwo, TypeOK, BoundedInv, NewestInv, NEW n \in FrameIds, IsNewest(n), n \in DOMAIN frames,
         NEW id \in FrameIds
  PROVE  n \in DOMAIN MakeRoom(id) /\ MakeRoom(id)[n] = frames[n]
<1> DEFINE S == DOMAIN frames
<1>0. /\ S \subseteq Nat /\ S \subseteq FrameIds /\ IsFiniteSet(S) /\ Cardinality(S) \in Nat
      /\ n \in Nat /\ MaxInFlight \in Nat /\ MaxInFlight > 1
  BY FS_CardinalityType, BoundsAssumption DEF TypeOK, FrameIds, BoundedInv, RoomForTwo
<1>1. CASE Cardinality(S) >= MaxInFlight /\ id \notin S
  <2>1. Min(S) \in S /\ \A y \in S : Min(S) <= y
    BY <1>0, MinOf, Zenon
  <2>2. PICK m \in S : m # n
    <3>1. Cardinality({n}) = 1 /\ S # {n}
      BY <1>0, <1>1, FS_Singleton
    <3> QED BY <3>1, Zenon
  <2>3. m <= n /\ m \in Nat
    BY <1>0, Zenon DEF NewestInv, IsNewest
  <2>4. Min(S) # n
    BY <1>0, <2>1, <2>2, <2>3
  <2> QED BY <1>1, <2>4, Zenon DEF MakeRoom, Restrict
<1>2. CASE ~(Cardinality(S) >= MaxInFlight /\ id \notin S)
  BY <1>2, Zenon DEF MakeRoom
<1> QED BY <1>1, <1>2, Zenon

\* What has arrived only grows; only p's frame gains a fragment.
LEMMA ArrivedGrows ==
  ASSUME TypeOK, NEW p \in net, Arrive(p)
  PROVE  /\ arrived'[p.id] = arrived[p.id] \union {p.packet_id}
         /\ \A i \in FrameIds : i # p.id => arrived'[i] = arrived[i]
         /\ \A i \in FrameIds : arrived[i] # {} => arrived'[i] # {}
         /\ \A n \in FrameIds : IsNewest(n)' /\ arrived[n] # {} => IsNewest(n)
<1>1. p.id \in FrameIds
  BY DatagramType, Zenon
<1>2. /\ arrived'[p.id] = arrived[p.id] \union {p.packet_id}
      /\ \A i \in FrameIds : i # p.id => arrived'[i] = arrived[i]
  BY <1>1, Zenon DEF Arrive, TypeOK
<1>3. \A i \in FrameIds : arrived[i] # {} => arrived'[i] # {}
  BY <1>2, Zenon
<1> QED BY <1>2, <1>3, Zenon DEF IsNewest

\* Storing a fragment keeps every fragment of the newest frame.
LEMMA NewestStored ==
  ASSUME RoomForTwo, TypeOK, BoundedInv, NewestInv, NEW p \in net, StoreFragment(p)
  PROVE  NewestInv'
<1>1. /\ p.id \in FrameIds /\ p.id \in Nat /\ Consistent(p) /\ ~Completes(p) /\ ~Stale(p)
      /\ frames' = Stored(p) /\ Arrive(p) /\ last_authenticated' = last_authenticated
  BY DatagramType DEF StoreFragment, FrameIds
<1>2. /\ DOMAIN frames' = DOMAIN MakeRoom(p.id) \union {p.id}
      /\ frames'[p.id].base_header = InFlight(p).base_header /\ frames'[p.id].packets = Packets(p)
      /\ \A i \in DOMAIN MakeRoom(p.id) : i # p.id => frames'[i] = MakeRoom(p.id)[i]
      /\ \A i \in DOMAIN frames' : i # p.id => i \in DOMAIN frames /\ frames'[i] = frames[i]
  BY <1>1, RemovedFrames, Zenon DEF Stored
<1>3. DOMAIN frames \subseteq FrameIds
  BY Zenon DEF TypeOK
<1>4. ASSUME NEW i \in DOMAIN frames'
      PROVE  /\ arrived'[i] # {}
             /\ DOMAIN frames'[i].packets # 0..(frames'[i].base_header.count - 1)
  <2>1. CASE i = p.id
    <3>1. InFlight(p).base_header.count = p.count
      BY <1>1 DEF Consistent, Header
    <3> QED BY <1>1, <1>2, <2>1, <3>1, ArrivedGrows, Zenon DEF Completes
  <2>2. CASE i # p.id
    BY <1>1, <1>2, <1>3, <2>2, ArrivedGrows DEF NewestInv
  <2> QED BY <2>1, <2>2, Zenon
<1>5. ASSUME NEW n \in FrameIds, IsNewest(n)', n > last_authenticated
      PROVE  n \in DOMAIN frames' /\ DOMAIN frames'[n].packets = arrived'[n]
  <2>1. CASE n = p.id
    <3>1. DOMAIN InFlight(p).packets = arrived[p.id]
      <4>1. CASE arrived[p.id] # {}
        <5>1. IsNewest(n)
          BY <1>1, <1>5, <2>1, <4>1, ArrivedGrows, Zenon
        <5> QED BY <1>5, <2>1, <5>1, Zenon DEF NewestInv, InFlight
      <4>2. CASE arrived[p.id] = {}
        BY <4>2 DEF NewestInv, InFlight
      <4> QED BY <4>1, <4>2, Zenon
    <3>2. DOMAIN Packets(p) = DOMAIN InFlight(p).packets \union {p.packet_id}
      BY Zenon DEF Packets
    <3> QED BY <1>1, <1>2, <2>1, <3>1, <3>2, ArrivedGrows, Zenon
  <2>2. CASE n # p.id
    <3>1. arrived'[n] = arrived[n] /\ IsNewest(n)
      BY <1>1, <1>5, <2>2, ArrivedGrows, Zenon DEF IsNewest
    <3>2. n \in DOMAIN frames /\ DOMAIN frames[n].packets = arrived[n]
      BY <1>5, <3>1, Zenon DEF NewestInv
    <3>3. n \in DOMAIN MakeRoom(p.id) /\ MakeRoom(p.id)[n] = frames[n]
      BY <1>1, <3>1, <3>2, NewestStays, Zenon
    <3> QED BY <1>2, <2>2, <3>1, <3>2, <3>3, Zenon
  <2> QED BY <2>1, <2>2, Zenon
<1> QED BY <1>1, <1>4, <1>5, Zenon DEF NewestInv

\* Publishing a frame keeps every newer one in flight.
LEMMA NewestPublished ==
  ASSUME RoomForTwo, TypeOK, BoundedInv, NewestInv, NEW p \in net, Publish(p)
  PROVE  NewestInv'
<1>1. p.id \in FrameIds /\ p.id \in Nat /\ last_authenticated \in Nat
  BY DatagramType DEF FrameIds, TypeOK
<1>2. ~(p.id <= last_authenticated) /\ Arrive(p)
  BY Zenon DEF Publish, Assembles, Stale
<1>3. /\ last_authenticated' = p.id
      /\ frames' = Restrict(Removed(p), {i \in DOMAIN Removed(p) : i >= p.id})
  BY <1>2, Zenon DEF Publish
<1>4. /\ \A i \in DOMAIN frames' : i \in DOMAIN frames /\ frames'[i] = frames[i]
      /\ \A i \in DOMAIN Removed(p) : i >= p.id => i \in DOMAIN frames'
  BY <1>3, RemovedFrames, Zenon DEF Restrict
<1>5. DOMAIN frames \subseteq FrameIds
  BY Zenon DEF TypeOK
<1>6. \A i \in DOMAIN frames' : /\ arrived'[i] # {}
                                /\ DOMAIN frames'[i].packets # 0..(frames'[i].base_header.count - 1)
  BY <1>2, <1>4, <1>5, ArrivedGrows, Zenon DEF NewestInv
<1>7. ASSUME NEW n \in FrameIds, IsNewest(n)', n > p.id
      PROVE  n \in DOMAIN frames' /\ DOMAIN frames'[n].packets = arrived'[n]
  <2>1. n \in Nat /\ n # p.id /\ n > last_authenticated
    BY <1>1, <1>2, <1>7 DEF FrameIds
  <2>2. arrived'[n] = arrived[n] /\ IsNewest(n)
    BY <1>2, <1>7, <2>1, ArrivedGrows, Zenon DEF IsNewest
  <2>3. n \in DOMAIN frames /\ DOMAIN frames[n].packets = arrived[n]
    BY <2>1, <2>2, Zenon DEF NewestInv
  <2>4. n \in DOMAIN MakeRoom(p.id)
    BY <1>1, <2>2, <2>3, NewestStays, Zenon
  <2>5. n \in DOMAIN Removed(p)
    BY <2>1, <2>3, <2>4, Zenon DEF Removed, Restrict
  <2>6. n \in DOMAIN frames'
    BY <1>1, <1>4, <1>7, <2>1, <2>5
  <2> QED BY <1>4, <2>2, <2>3, <2>6, Zenon
<1> QED BY <1>3, <1>6, <1>7 DEF NewestInv

\* Every step of a clean session keeps the newest frame.
LEMMA NewestStep ==
  ASSUME RoomForTwo, PathInv, BoundedInv, CleanRun => NewestInv, [Next]_vars, CleanRun'
  PROVE  NewestInv'
<1>0. TypeOK /\ CleanRun /\ CleanInv /\ NewestInv /\ ~closed' /\ ~Network
  BY CleanBefore, CleanStep, Zenon DEF PathInv, CleanInv
<1>1. CASE UNCHANGED <<frames, last_authenticated, arrived>>
  BY <1>0, <1>1, Zenon DEF NewestInv, IsNewest
<1>2. CASE Client
  <2>1. ASSUME NEW p \in net, \/ Malformed(p) \/ Inconsistent(p) \/ AuthenticationFails(p)
                              \/ NonceReplay(p)
        PROVE  FALSE
    BY <1>0, <2>1, Zenon DEF Malformed, Inconsistent, AuthenticationFails, NonceReplay
  <2>2. ASSUME NEW p \in net, DropStale(p) PROVE NewestInv'
    BY <1>1, <2>2, Zenon DEF DropStale, vars, clientVars
  <2>3. ASSUME DrainLatestFrame PROVE NewestInv'
    BY <1>1, <2>3, Zenon DEF DrainLatestFrame
  <2> QED BY <1>0, <1>2, <2>1, <2>2, <2>3, NewestStored, NewestPublished DEF Client
<1>3. CASE Host
  BY <1>0, <1>1, <1>3, HostTypeStep DEF clientVars
<1>4. CASE UNCHANGED vars
  BY <1>1, <1>4, Zenon DEF vars, clientVars
<1> QED BY <1>0, <1>2, <1>3, <1>4, Zenon DEF Next

\* What the newest frame's being in flight says once all of it has arrived.
LEMMA NewestImplies == PathInv /\ (CleanRun => NewestInv) => NewestIsPublished
<1> SUFFICES ASSUME PathInv, CleanRun, NewestInv, NEW f \in sealed,
                    arrived[f.id] = 0..(f.count - 1),
                    \A i \in FrameIds : arrived[i] # {} => i <= f.id,
                    ~(last_authenticated >= f.id)
             PROVE  FALSE
    BY Zenon DEF NewestIsPublished, CleanRun
<1>1. TypeOK /\ SealedInv /\ CleanInv
  BY Zenon DEF PathInv
<1>2. f.id \in FrameIds
  BY <1>1 DEF TypeOK, Frames
<1>3. f.id \in Nat /\ f.count \in Nat \ {0} /\ last_authenticated \in Nat
  BY <1>1, CleanFrame DEF TypeOK
<1>4. 0 \in arrived[f.id]
  BY <1>3
<1>5. IsNewest(f.id) /\ f.id > last_authenticated
  BY <1>3, <1>4 DEF IsNewest
<1>6. f.id \in DOMAIN frames /\ DOMAIN frames[f.id].packets = 0..(f.count - 1)
  BY <1>2, <1>5, Zenon DEF NewestInv
<1>7. PICK g \in sealed : g.id = f.id /\ Header(g) = frames[f.id].base_header
  BY <1>1, <1>6, Zenon DEF CleanInv
<1>8. g = f
  BY <1>1, <1>7, CleanFrame, Zenon
<1>9. frames[f.id].base_header.count = f.count
  BY <1>7, <1>8 DEF Header
<1> QED BY <1>6, <1>9, Zenon DEF NewestInv

\* The receiver starts with an empty reassembler.
LEMMA BoundedInit == Init => BoundedInv
<1> SUFFICES ASSUME Init PROVE BoundedInv
    BY Zenon
<1>1. DOMAIN frames = {}
  BY DEF Init
<1> QED BY <1>1, FS_EmptySet, BoundsAssumption DEF BoundedInv, InFlightBounded

\* For every bound the reassembler never holds more than max_in_flight partial frames, nor one
\* older than the newest authenticated frame.
THEOREM InFlightBoundedHolds == Spec => []InFlightBounded
<1>1. BoundedInv => InFlightBounded
  BY Zenon DEF BoundedInv
<1> QED BY <1>1, BoundedInit, BoundedStep, TypeCorrect, PTL DEF Spec

\* For every bound of two frames or more the reassembler keeps within it, and making room never
\* costs the newest frame: once all of it has arrived it has been published.
THEOREM BoundedKeepsNewestHolds ==
  ASSUME RoomForTwo
  PROVE  Spec => []BoundedKeepsNewest
<1>1. Init => BoundedInv /\ (CleanRun => NewestInv)
  <2> SUFFICES ASSUME Init PROVE NewestInv
      BY BoundedInit, Zenon
  <2>1. DOMAIN frames = {} /\ \A i \in FrameIds : arrived[i] = {}
    BY DEF Init
  <2> QED BY <2>1, Zenon DEF NewestInv, IsNewest
<1>2. PathInv /\ BoundedInv /\ (CleanRun => NewestInv) /\ [Next]_vars
      => BoundedInv' /\ (CleanRun => NewestInv)'
  <2>1. PathInv => TypeOK
    BY Zenon DEF PathInv
  <2> QED BY <2>1, BoundedStep, NewestStep, Zenon
<1>3. PathInv /\ BoundedInv /\ (CleanRun => NewestInv) => BoundedKeepsNewest
  BY NewestImplies, Zenon DEF BoundedKeepsNewest, BoundedInv
<1> QED BY <1>1, <1>2, <1>3, PathInvAlways, PTL DEF Spec
=============================================================================
