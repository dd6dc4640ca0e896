------------------------- MODULE ClientMedia_proofs -------------------------
(***************************************************************************)
(* The calls between the client's pipeline thread and its two native       *)
(* workers, for every number of jobs, faults, blocked calls and resizes,   *)
(* and the surfaces between them, for every size of picture.               *)
(***************************************************************************)
EXTENDS ClientMedia, FiniteSetTheorems, TLAPS

----------------------------------------------------------------------------
(* The inductive invariant *)

StartPlaces == {"starting", "com", "media", "selected"}
Places == StartPlaces \cup {"none", "ready", "busy", "draining", "uploaded", "resized", "closing",
                            "ended"}

\* What the channel of a worker carries.
Requests(w) ==
  {c \in Command : /\ c.kind \in IF w = "decoder" THEN {"reset", "decode", "shutdown"}
                                                  ELSE {"present", "shutdown"}
                   /\ c.kind = "decode" => c.body \in Job
                   /\ c.kind = "present" => c.body \in Surface
                   /\ c.taken < MaxOutputs}

\* A channel of depth one.
Channel(w, q) == Len(q) <= 1 /\ (q # <<>> => q[1] \in Requests(w))

\* What a worker serves is of a kind that its place in the code has.
Served(w, place, c) ==
  /\ place \in {"none", "ready"} => c = None
  /\ place \in StartPlaces => c.kind = "start"
  /\ place \in {"com", "media", "selected", "draining"} => w = "decoder"
  /\ place \in {"uploaded", "resized"} => w = "renderer"
  /\ place \in {"busy", "draining", "uploaded", "resized"} => c \in Requests(w)
  /\ place = "draining" => c.kind = "decode"
  /\ place \in {"uploaded", "resized"} => c.kind = "present"
  /\ place \in {"closing", "ended"} => c = None \/ c.kind \in {"start", "shutdown"}

PlaceInv ==
  /\ thread \in [Workers -> Places]
  /\ queue \in [Workers -> Seq(Command)]
  /\ serving \in [Workers -> {None} \cup Command]
  /\ \A w \in Workers : Channel(w, queue[w]) /\ Served(w, thread[w], serving[w])

\* What is left to release, by the place of the decoder's thread.
NativeInv ==
  LET place == thread["decoder"] IN
  /\ com = IF place \in {"none", "starting", "ended"} THEN 0 ELSE 1
  /\ started \in BOOLEAN
  /\ started => place \in {"ready", "busy", "draining", "closing"}
  /\ place \in {"ready", "busy", "draining"} => started
  /\ mf = IF place \in {"media", "selected"} \/ started THEN 1 ELSE 0

\* The window changes the back buffer only, and is seen when it does so during an upload.
ScreenInv ==
  /\ copied = None \/ copied = [texture |-> "stream", buffer |-> "stream"]
  /\ thread["renderer"] = "resized" => back = "stream" \/ resizedNow

----------------------------------------------------------------------------
(* The one request under way, up to the first that is given up *)

Live == {"spawn", "start", "idle", "reset", "decode", "present"}

Unborn(w) == thread[w] = "none" /\ queue[w] = <<>>
Quiet(w) == thread[w] = "ready" /\ queue[w] = <<>> /\ sender[w]

\* The request is in the channel or with the worker, and not answered yet.
Sent(w, kind) ==
  /\ reply = None /\ sender[w]
  /\ \/ /\ thread[w] = "ready" /\ queue[w] # <<>>
        /\ queue[w][1].kind = kind /\ queue[w][1].req = call
     \/ /\ thread[w] \in {"busy", "draining", "uploaded", "resized"} /\ queue[w] = <<>>
        /\ serving[w].kind = kind /\ serving[w].req = call

Underway(w, kind) == Sent(w, kind) \/ Quiet(w)

\* A decoder that comes up, has come up, or has failed to.
Starting(w) ==
  /\ queue[w] = <<>> /\ sender[w]
  /\ \/ reply = None /\ thread[w] \in StartPlaces /\ serving[w].req = call
     \/ reply = Done /\ thread[w] = "ready"
     \/ reply = Lost /\ thread[w] = "ended"

SpawnInv ==
  /\ pc = "spawn" => /\ reply = None /\ Unborn("renderer")
                     /\ on = "decoder" => Unborn("decoder")
                     /\ on = "renderer" => Quiet("decoder")
  /\ pc = "start" => /\ Starting(on)
                     /\ on = "decoder" => Unborn("renderer")
                     /\ on = "renderer" => Quiet("decoder")
  /\ pc \in {"spawn", "start"} => ~gate /\ ~ready /\ inside = {}

\* An access unit the caller lets through is let through by the decoder as well.
Admitted(j) == ~j.empty /\ Accepts(ready, j)

CallInv ==
  /\ pc = "idle" => reply = None /\ Quiet("decoder") /\ Quiet("renderer") /\ (gate <=> ready)
  /\ pc = "reset" => /\ on = "decoder" /\ Underway("decoder", "reset") /\ Quiet("renderer")
                     /\ ~gate /\ (reply = Done => ~ready)
                     /\ job \in Job /\ job.id = jobs /\ \A f \in inside : f.id < jobs
  /\ pc = "decode" => /\ on = "decoder" /\ Underway("decoder", "decode") /\ Quiet("renderer")
                      /\ gate /\ (reply \notin {None, Lost} => ready)
                      /\ thread["decoder"] = "busy" => Admitted(serving["decoder"].body)
                      /\ thread["decoder"] = "draining" => ready
                      /\ queue["decoder"] # <<>> => Admitted(queue["decoder"][1].body)
  /\ pc = "present" => /\ on = "renderer" /\ Underway("renderer", "present") /\ Quiet("decoder")
                       /\ (gate <=> ready) /\ (reply = Lost => native \/ resizedNow)

----------------------------------------------------------------------------
(* The frames in the transform *)

\* Every frame the transform holds has a place of its own in pending_inputs, with its
\* timestamp; unless two of these had one timestamp it is that frame's place.
Placed(m) ==
  /\ m \in [inside -> 1 .. Len(inputs)]
  /\ \A f, g \in inside : m[f] = m[g] => f = g
  /\ \A f \in inside : inputs[m[f]].ts = f.ts /\ (~twins => inputs[m[f]] = f)

FramesInv ==
  /\ inputs \in Seq(Job) /\ surfaces \in Seq(Surface)
  /\ inside \subseteq Job /\ IsFiniteSet(inside) /\ swallowed \in Nat
  /\ \E m : Placed(m)
  /\ ~twins => \A i, k \in 1 .. Len(inputs) : inputs[i].ts = inputs[k].ts => i = k
  /\ OwnMetadata /\ PendingExplained

\* A decode command is younger than every frame in the transform, and waits in the channel
\* only for a worker that is ready.
FreshInv ==
  /\ \A f \in inside : f.id <= jobs
  /\ queue["decoder"] # <<>> /\ queue["decoder"][1].kind = "decode" =>
       /\ thread["decoder"] = "ready" /\ queue["decoder"][1].body.id <= jobs
       /\ \A f \in inside : f.id < queue["decoder"][1].body.id
  /\ thread["decoder"] = "busy" /\ serving["decoder"].kind = "decode" =>
       /\ serving["decoder"].body.id <= jobs
       /\ \A f \in inside : f.id < serving["decoder"].body.id

PCs == Live \cup {"stop", "join", "gone"}

CallerTypes ==
  /\ pc \in PCs /\ on \in Workers /\ job \in {None} \cup Job /\ call \in Nat /\ jobs \in 0 .. MaxJobs
  /\ gate \in BOOLEAN
  /\ left \in [jobs : 0 .. MaxJobs, hangs : Nat, resizes : Nat, faults : BOOLEAN]

Replies == {None, Lost, Done, Missing} \cup {Frame(s) : s \in Surface}

LifeTypes ==
  /\ handle \in [Workers -> {"none", "slot", "owner", "reaper", "joined", "detached"}]
  /\ reaper \in [Workers -> {"none", "spawned", "joining", "done"}]
  /\ hung \in [Workers -> BOOLEAN] /\ reaping \in [Workers -> BOOLEAN] /\ sender \in [Workers -> BOOLEAN]

DecoderTypes ==
  /\ ready \in BOOLEAN /\ twins \in BOOLEAN /\ swallowed \in Nat
  /\ inputs \in Seq(Job) /\ surfaces \in Seq(Surface)
  /\ Len(inputs) <= MaxPending /\ Len(surfaces) <= MaxPending
  /\ inside \subseteq Job /\ IsFiniteSet(inside)

ScreenTypes ==
  /\ back \in Sizes /\ cached \in Sizes \cup {None} /\ resizedNow \in BOOLEAN /\ native \in BOOLEAN

MediaTypes == CallerTypes /\ reply \in Replies /\ LifeTypes /\ DecoderTypes /\ ScreenTypes

MediaInv == /\ MediaTypes /\ PlaceInv /\ NativeInv /\ ScreenInv /\ SpawnInv /\ CallInv
            /\ FramesInv /\ FreshInv

----------------------------------------------------------------------------
(* What each thread leaves alone *)

DecoderSteps == \/ DecoderNext \/ ComUnavailable \/ MediaUnavailable \/ NoTransform
                \/ ConfigurationRefused \/ InputFails \/ OutputFails \/ FlushFails
                \/ TransformSwallows

RendererSteps == RendererNext \/ RendererStartFails \/ UploadFails

OtherSteps == \/ WindowResizes \/ \E w \in Workers : DriverBlocks(w) \/ DriverReturns(w)
              \/ \E w \in Workers : ReaperNext(w)

\* A step is one of the caller's, of a worker's thread, or of what is around them.
LEMMA StepKinds == Next => CallerNext \/ DecoderSteps \/ RendererSteps \/ OtherSteps
  BY Zenon DEF Next, EnvironmentNext, DecoderSteps, RendererSteps, OtherSteps

\* The pipeline thread touches no state of its workers, but for starting them.
LEMMA CallerLeaves ==
  CallerNext => /\ UNCHANGED <<hung, nativeVars, decoderVars, screenVars, native, left>>
                /\ SpawnWorker \/ UNCHANGED <<thread, serving>>
<1> USE DEF callLeaves
<1>1. SpawnWorker \/ SpawnFails \/ StartAnswered \/ StartFails =>
        /\ UNCHANGED <<hung, nativeVars, decoderVars, screenVars, native, left>>
        /\ SpawnWorker \/ UNCHANGED <<thread, serving>>
  BY Zenon DEF SpawnWorker, SpawnFails, StartAnswered, StartFails
<1>2. TakeJob \/ ResetAnswered \/ DecodeAnswered \/ PresentAnswered \/ CallFails \/ StopRequested =>
        UNCHANGED <<thread, serving, hung, nativeVars, decoderVars, screenVars, native, left>>
  BY Zenon DEF TakeJob, ResetAnswered, DecodeAnswered, PresentAnswered, CallFails, StopRequested
<1>3. StopAnswered \/ StopTimesOut \/ JoinBefore \/ JoinDeadline =>
        UNCHANGED <<thread, serving, hung, nativeVars, decoderVars, screenVars, native, left>>
  BY Zenon DEF StopAnswered, StopTimesOut, StopWaited, JoinBefore, JoinDeadline
<1> QED BY <1>1, <1>2, <1>3, Zenon DEF CallerNext

\* The decoder's thread leaves the caller, the reapers, the screen and the renderer alone.
LEMMA DecoderLeaves ==
  ASSUME PlaceInv, DecoderSteps
  PROVE  /\ UNCHANGED <<callerVars, sender, lifeVars, left, hung, screenVars>>
         /\ thread'["renderer"] = thread["renderer"] /\ queue'["renderer"] = queue["renderer"]
         /\ serving'["renderer"] = serving["renderer"]
         /\ native' = native \/ native' = TRUE
<1> USE DEF workerLeaves, decoderLeaves, Move, Finish
<1>0. /\ thread \in [Workers -> Places] /\ queue \in [Workers -> Seq(Command)]
      /\ serving \in [Workers -> {None} \cup Command] /\ "decoder" # "renderer"
      /\ "renderer" \in Workers
  BY DEF PlaceInv, Workers
<1>1. ASSUME \/ DecoderEntersCom \/ DecoderStartsMedia \/ DecoderSelects \/ DecoderStarts
             \/ DecoderShutsDown \/ DecoderEnds
             \/ WorkerReceives("decoder") \/ WorkerDisconnected("decoder")
      PROVE  /\ UNCHANGED <<callerVars, sender, lifeVars, left, hung, screenVars, native>>
             /\ thread'["renderer"] = thread["renderer"] /\ queue'["renderer"] = queue["renderer"]
             /\ serving'["renderer"] = serving["renderer"]
  BY <1>0, <1>1, Zenon
     DEF DecoderEntersCom, DecoderStartsMedia, DecoderSelects, DecoderStarts, DecoderShutsDown,
         DecoderEnds, WorkerReceives, WorkerDisconnected
<1>2. ASSUME DecoderRejects \/ DecoderSubmits \/ DecoderResets \/ TransformSwallows
      PROVE  /\ UNCHANGED <<callerVars, sender, lifeVars, left, hung, screenVars, native, queue>>
             /\ thread'["renderer"] = thread["renderer"]
             /\ serving'["renderer"] = serving["renderer"]
  BY <1>0, <1>2, Zenon DEF DecoderRejects, DecoderSubmits, DecoderResets, TransformSwallows
<1>3. ASSUME DrainSample \/ DrainNothing
      PROVE  /\ UNCHANGED <<callerVars, sender, lifeVars, left, hung, screenVars, native, queue>>
             /\ thread'["renderer"] = thread["renderer"]
             /\ serving'["renderer"] = serving["renderer"]
  BY <1>0, <1>3, Zenon DEF DrainSample, DrainNothing, Drained, GoOn, ReturnOldest
<1>4. ASSUME \/ ComUnavailable \/ MediaUnavailable \/ NoTransform \/ ConfigurationRefused
             \/ InputFails \/ OutputFails \/ FlushFails
      PROVE  /\ UNCHANGED <<callerVars, sender, lifeVars, left, hung, screenVars, queue>>
             /\ thread'["renderer"] = thread["renderer"]
             /\ serving'["renderer"] = serving["renderer"] /\ native' = TRUE
  BY <1>0, <1>4, Zenon
     DEF ComUnavailable, MediaUnavailable, NoTransform, ConfigurationRefused, DecoderStartFails,
         InputFails, OutputFails, FlushFails, NativeFails
<1> QED BY <1>1, <1>2, <1>3, <1>4, Zenon DEF DecoderSteps, DecoderNext

\* The renderer's thread leaves the caller, the reapers and the decoder alone.
LEMMA RendererLeaves ==
  ASSUME PlaceInv, RendererSteps
  PROVE  /\ UNCHANGED <<callerVars, sender, lifeVars, left, hung, nativeVars, decoderVars>>
         /\ thread'["decoder"] = thread["decoder"] /\ queue'["decoder"] = queue["decoder"]
         /\ serving'["decoder"] = serving["decoder"]
         /\ native' = native \/ native' = TRUE
<1> USE DEF workerLeaves, rendererLeaves, Move, Finish
<1>0. /\ thread \in [Workers -> Places] /\ queue \in [Workers -> Seq(Command)]
      /\ serving \in [Workers -> {None} \cup Command] /\ "decoder" # "renderer"
      /\ "decoder" \in Workers
  BY DEF PlaceInv, Workers
<1>1. ASSUME \/ RendererStarts \/ RendererUploads \/ RendererShutsDown \/ RendererEnds
             \/ WorkerReceives("renderer") \/ WorkerDisconnected("renderer")
      PROVE  /\ UNCHANGED <<callerVars, sender, lifeVars, left, hung, nativeVars, decoderVars, native>>
             /\ thread'["decoder"] = thread["decoder"] /\ queue'["decoder"] = queue["decoder"]
             /\ serving'["decoder"] = serving["decoder"]
  BY <1>0, <1>1, Zenon
     DEF RendererStarts, RendererUploads, RendererShutsDown, RendererEnds, WorkerReceives,
         WorkerDisconnected
<1>2. ASSUME RendererChecks \/ RendererVerifies
      PROVE  /\ UNCHANGED <<callerVars, sender, lifeVars, left, hung, nativeVars, decoderVars, native>>
             /\ thread'["decoder"] = thread["decoder"] /\ queue'["decoder"] = queue["decoder"]
             /\ serving'["decoder"] = serving["decoder"]
  BY <1>0, <1>2, Zenon DEF RendererChecks, RendererVerifies, CopyAndPresent
<1>3. ASSUME RendererStartFails \/ UploadFails
      PROVE  /\ UNCHANGED <<callerVars, sender, lifeVars, left, hung, nativeVars, decoderVars>>
             /\ thread'["decoder"] = thread["decoder"] /\ queue'["decoder"] = queue["decoder"]
             /\ serving'["decoder"] = serving["decoder"] /\ native' = TRUE
  BY <1>0, <1>3, Zenon DEF RendererStartFails, UploadFails, NativeFails
<1> QED BY <1>1, <1>2, <1>3, Zenon DEF RendererSteps, RendererNext

\* The window, the drivers and the reapers take no part in a call.
LEMMA OthersLeave ==
  OtherSteps => /\ UNCHANGED <<callerVars, reply, workVars, sender, nativeVars, decoderVars, native,
                               cached, copied>>
                /\ left' = left \/ left.hangs > 0 \/ left.resizes > 0
                /\ WindowResizes \/ UNCHANGED screenVars
  BY Zenon DEF OtherSteps, WindowResizes, DriverBlocks, DriverReturns, ReaperNext, ReaperTakes,
               ReaperJoins, screenVars

----------------------------------------------------------------------------
(* Requests *)

\* The requests the pipeline thread makes.
Request(w, kind, body) ==
  \/ w = "decoder" /\ kind = "reset" /\ body = None
  \/ w = "decoder" /\ kind = "decode" /\ body \in Job
  \/ w = "renderer" /\ kind = "present" /\ body \in Surface
  \/ kind = "shutdown" /\ body = None

\* A channel with one command.
LEMMA OneCommand ==
  ASSUME NEW c \in Command
  PROVE  /\ <<c>> \in Seq(Command) /\ Len(<<c>>) = 1 /\ <<c>> # <<>> /\ <<c>>[1] = c
         /\ Head(<<c>>) = c
  OBVIOUS

\* The command that try_send carries is one its worker understands.
LEMMA RequestMade ==
  ASSUME NEW n \in Nat, NEW w \in Workers, NEW kind, NEW body, Request(w, kind, body)
  PROVE  [kind |-> kind, body |-> body, req |-> n, taken |-> 0] \in Requests(w)
<1> DEFINE c == [kind |-> kind, body |-> body, req |-> n, taken |-> 0]
<1>1. 0 \in 0 .. MaxOutputs /\ 0 < MaxOutputs
  BY MediaAssumption
<1>2. kind \in {"reset", "decode", "present", "shutdown"} /\ body \in {None} \cup Job \cup Surface
  BY Zenon DEF Request
<1>3. c \in Command
  BY <1>1, <1>2, Zenon DEF Command
<1>4. /\ w = "decoder" => kind \in {"reset", "decode", "shutdown"}
      /\ w # "decoder" => kind \in {"present", "shutdown"}
      /\ kind = "decode" => body \in Job
      /\ kind = "present" => body \in Surface
  BY DEF Request
<1>5. c.kind = kind /\ c.body = body /\ c.taken = 0
  BY Zenon
<1> HIDE DEF c
<1> QED BY <1>1, <1>3, <1>4, <1>5, Zenon DEF Requests, c

\* What try_send does to the channels and the reply.
LEMMA SendEffect ==
  ASSUME PlaceInv, call' \in Nat, NEW w \in Workers, NEW kind, NEW body,
         Request(w, kind, body), Send(w, kind, body)
  PROVE  /\ queue' \in [Workers -> Seq(Command)] /\ reply' \in {None, Lost}
         /\ \A v \in Workers : Channel(v, queue'[v]) /\ (v # w => queue'[v] = queue[v])
         /\ queue[w] = <<>> /\ thread[w] # "ended" =>
              /\ reply' = None /\ queue'[w] # <<>> /\ queue'[w][1].kind = kind
              /\ queue'[w][1].body = body /\ queue'[w][1].req = call'
         /\ ~(queue[w] = <<>> /\ thread[w] # "ended") => queue' = queue
<1> DEFINE c == [kind |-> kind, body |-> body, req |-> call', taken |-> 0]
<1>0. /\ queue \in [Workers -> Seq(Command)]
      /\ \A v \in Workers : Channel(v, queue[v])
  BY Zenon DEF PlaceInv
<1>1. c \in Requests(w)
  BY RequestMade, Zenon
<1>2. c \in Command /\ c.kind = kind /\ c.body = body /\ c.req = call'
  BY <1>1, Zenon DEF Requests
<1>3. /\ queue' = IF queue[w] = <<>> /\ thread[w] # "ended" THEN [queue EXCEPT ![w] = <<c>>] ELSE queue
      /\ reply' = IF queue[w] = <<>> /\ thread[w] # "ended" THEN None ELSE Lost
  BY Zenon DEF Send
<1> HIDE DEF c
<1>4. <<c>> \in Seq(Command) /\ Len(<<c>>) = 1 /\ <<c>> # <<>> /\ <<c>>[1] = c
  BY <1>2, OneCommand, Zenon
<1>5. CASE queue[w] = <<>> /\ thread[w] # "ended"
  <2>1. queue' = [queue EXCEPT ![w] = <<c>>] /\ reply' = None
    BY <1>3, <1>5, Zenon
  <2>2. queue'[w] = <<c>> /\ \A v \in Workers : v # w => queue'[v] = queue[v]
    BY <1>0, <2>1, Zenon
  <2>3. queue' \in [Workers -> Seq(Command)]
    BY <1>0, <1>4, <2>1, Zenon
  <2>4. Len(<<c>>) <= 1
    BY <1>4
  <2>5. ASSUME NEW v \in Workers PROVE Channel(v, queue'[v])
    BY <1>0, <1>1, <1>4, <2>2, <2>4, Zenon DEF Channel
  <2> QED BY <1>2, <1>4, <1>5, <2>1, <2>2, <2>3, <2>5, Zenon
<1>6. CASE ~(queue[w] = <<>> /\ thread[w] # "ended")
  BY <1>0, <1>3, <1>6, Zenon
<1> QED BY <1>5, <1>6, Zenon

\* What the pipeline thread does to the channels: nothing, or one request.
LEMMA CallerSends ==
  ASSUME MediaTypes, CallInv, CallerNext
  PROVE  /\ call' \in Nat
         /\ \/ queue' = queue /\ reply' \in {None, reply}
            \/ \E w \in Workers : \E kind, body : Request(w, kind, body) /\ Send(w, kind, body)
<1> DEFINE Quietly == queue' = queue /\ reply' \in {None, reply}
           Loudly == \E w \in Workers : \E kind, body : Request(w, kind, body) /\ Send(w, kind, body)
<1>0. call \in Nat /\ call + 1 \in Nat /\ job \in {None} \cup Job /\ "decoder" \in Workers
      /\ "renderer" \in Workers
  BY DEF MediaTypes, CallerTypes, Workers
<1>1. ASSUME NEW w \in Workers, BeginStop(w) PROVE Loudly
  <2>1. Request(w, "shutdown", None) /\ Send(w, "shutdown", None)
    BY <1>1, Zenon DEF BeginStop, Request
  <2> QED BY <2>1, Zenon
<1>2. ASSUME NEW j \in Job, NEW g, CallDecode(j, g) PROVE Quietly \/ Loudly
  <2>1. ASSUME Send("decoder", "decode", j) PROVE Loudly
    <3>1. Request("decoder", "decode", j)
      BY Zenon DEF Request
    <3> QED BY <1>0, <2>1, <3>1, Zenon
  <2> QED BY <1>0, <1>1, <1>2, <2>1, Zenon DEF CallDecode, Idle
<1>3. ASSUME SpawnWorker \/ StartAnswered PROVE Quietly /\ call' = call
  BY <1>3, Zenon DEF SpawnWorker, StartAnswered
<1>4. ASSUME SpawnFails \/ StartFails PROVE (Quietly \/ Loudly) /\ call' \in {call, call + 1}
  BY <1>0, <1>1, <1>4, Zenon DEF SpawnFails, StartFails, GiveUpStart, At, NoAnswer
<1>5. ASSUME TakeJob PROVE (Quietly \/ Loudly) /\ call' = call
  <2>1. ASSUME Send("decoder", "reset", None) PROVE Loudly
    <3>1. Request("decoder", "reset", None)
      BY Zenon DEF Request
    <3> QED BY <1>0, <2>1, <3>1, Zenon
  <2> QED BY <1>2, <1>5, <2>1, Zenon DEF TakeJob, At
<1>6. ASSUME ResetAnswered PROVE (Quietly \/ Loudly) /\ call' = call
  <2>1. job \in Job
    BY <1>6, Zenon DEF ResetAnswered, At, CallInv
  <2> QED BY <1>2, <1>6, <2>1, Zenon DEF ResetAnswered, At
<1>7. ASSUME DecodeAnswered PROVE (Quietly \/ Loudly) /\ call' = call
  <2>1. ASSUME reply.kind = "frame", Send("renderer", "present", reply.surface) PROVE Loudly
    <3>1. reply \in {Done, Missing} \cup {Frame(s) : s \in Surface}
      BY <1>7, Zenon DEF DecodeAnswered, MediaTypes, Replies
    <3>2. Done.kind # "frame" /\ Missing.kind # "frame" /\ \A s : Frame(s).surface = s
      BY DEF Done, Missing, Frame
    <3>3. reply.surface \in Surface
      BY <2>1, <3>1, <3>2, Zenon
    <3>4. Request("renderer", "present", reply.surface)
      BY <3>3, Zenon DEF Request
    <3> QED BY <1>0, <2>1, <3>4, Zenon
  <2> QED BY <1>7, <2>1, Zenon DEF DecodeAnswered, At, Idle
<1>8. ASSUME PresentAnswered PROVE Quietly /\ call' = call
  BY <1>8, Zenon DEF PresentAnswered, Idle
<1>9. ASSUME CallFails \/ StopRequested PROVE Loudly /\ call' \in {call, call + 1}
  BY <1>0, <1>1, <1>9, Zenon DEF CallFails, StopRequested, At, NoAnswer
<1>10. ASSUME StopAnswered \/ StopTimesOut PROVE Quietly /\ call' \in {call, call + 1}
  BY <1>10, Zenon DEF StopAnswered, StopTimesOut, StopWaited
<1>11. ASSUME JoinBefore \/ JoinDeadline PROVE (Quietly \/ Loudly) /\ call' = call
  BY <1>0, <1>1, <1>11, Zenon DEF JoinBefore, JoinDeadline, Dropped, At
<1> QED BY <1>0, <1>3, <1>4, <1>5, <1>6, <1>7, <1>8, <1>9, <1>10, <1>11, Zenon DEF CallerNext

----------------------------------------------------------------------------
(* Places and what is served there *)

\* The places are different, as are the workers.
LEMMA Distinct ==
  /\ "decoder" \in Workers /\ "renderer" \in Workers /\ "decoder" # "renderer"
  /\ Workers = {"decoder", "renderer"}
  BY DEF Workers

\* The caller's step keeps what is known of places: it starts a worker, or sends to one.
LEMMA PlaceCaller == ASSUME MediaInv, CallerNext PROVE PlaceInv'
<1>0. MediaTypes /\ CallInv /\ PlaceInv /\ call \in Nat /\ on \in Workers
  BY Zenon DEF MediaInv, MediaTypes, CallerTypes
<1>1. queue' \in [Workers -> Seq(Command)] /\ \A w \in Workers : Channel(w, queue'[w])
  <2>1. CASE queue' = queue
    BY <1>0, <2>1, Zenon DEF PlaceInv
  <2>2. ASSUME NEW w \in Workers, NEW kind, NEW body, Request(w, kind, body), Send(w, kind, body)
        PROVE  queue' \in [Workers -> Seq(Command)] /\ \A v \in Workers : Channel(v, queue'[v])
    BY <1>0, <2>2, SendEffect, CallerSends, Zenon
  <2> QED BY <1>0, <2>1, <2>2, CallerSends, Zenon
<1>2. CASE SpawnWorker
  <2> DEFINE c == [kind |-> "start", body |-> None, req |-> call, taken |-> 0]
  <2>1. c \in Command /\ c.kind = "start"
    BY <1>0, MediaAssumption DEF Command
  <2>2. /\ thread' = [thread EXCEPT ![on] = "starting"] /\ serving' = [serving EXCEPT ![on] = c]
    BY <1>2, Zenon DEF SpawnWorker, Move
  <2> HIDE DEF c
  <2>3. /\ thread' \in [Workers -> Places] /\ serving' \in [Workers -> {None} \cup Command]
        /\ thread'[on] = "starting" /\ serving'[on] = c
        /\ \A w \in Workers : w # on => thread'[w] = thread[w] /\ serving'[w] = serving[w]
    BY <1>0, <2>1, <2>2, Zenon DEF PlaceInv, Places, StartPlaces
  <2>4. Served(on, "starting", c)
    BY <2>1 DEF Served, StartPlaces
  <2> QED BY <1>0, <1>1, <2>3, <2>4, Zenon DEF PlaceInv
<1>3. CASE UNCHANGED <<thread, serving>>
  BY <1>0, <1>1, <1>3, Zenon DEF PlaceInv
<1> QED BY <1>2, <1>3, CallerLeaves, Zenon

\* What a step of one worker's thread has to show for its own place and command.
Moved(w) == /\ thread' \in [Workers -> Places] /\ serving' \in [Workers -> {None} \cup Command]
            /\ queue' \in [Workers -> Seq(Command)]
            /\ Channel(w, queue'[w]) /\ Served(w, thread'[w], serving'[w])

\* A worker that answers and waits again serves nothing.
LEMMA FinishMoves ==
  ASSUME PlaceInv, NEW w \in Workers, NEW r, Finish(w, r), queue' = queue
  PROVE  Moved(w) /\ thread'[w] = "ready" /\ serving'[w] = None
<1>1. thread' = [thread EXCEPT ![w] = "ready"] /\ serving' = [serving EXCEPT ![w] = None]
  BY Zenon DEF Finish, Move
<1>2. /\ thread' \in [Workers -> Places] /\ serving' \in [Workers -> {None} \cup Command]
      /\ thread'[w] = "ready" /\ serving'[w] = None
  BY <1>1, Zenon DEF PlaceInv, Places
<1>3. Served(w, "ready", None)
  BY DEF Served, StartPlaces
<1> QED BY <1>2, <1>3, Zenon DEF Moved, PlaceInv

\* A worker goes on with the command it has.
LEMMA MoveMoves ==
  ASSUME PlaceInv, NEW w \in Workers, NEW place \in Places, Move(w, place), serving' = serving,
         queue' = queue, Served(w, place, serving[w])
  PROVE  Moved(w) /\ thread'[w] = place
  BY Zenon DEF PlaceInv, Move, Moved

\* A worker takes the command in its channel, or finds the channel closed.
LEMMA ReceiveMoves ==
  ASSUME PlaceInv, NEW w \in Workers, WorkerReceives(w) \/ WorkerDisconnected(w)
  PROVE  Moved(w)
<1>1. CASE WorkerReceives(w)
  <2>1. queue[w] \in Seq(Command) /\ queue[w] # <<>> /\ queue[w][1] \in Requests(w)
    BY <1>1, Zenon DEF PlaceInv, WorkerReceives, Channel
  <2>2. Head(queue[w]) = queue[w][1] /\ <<>> \in Seq(Command) /\ Channel(w, <<>>)
    BY <2>1 DEF Channel
  <2>3. queue[w][1] \in Command
    BY <2>1, Zenon DEF Requests
  <2>4. /\ thread' = [thread EXCEPT ![w] = "busy"] /\ queue' = [queue EXCEPT ![w] = <<>>]
        /\ serving' = [serving EXCEPT ![w] = queue[w][1]]
    BY <1>1, <2>2, Zenon DEF WorkerReceives, Move
  <2>5. /\ thread' \in [Workers -> Places] /\ serving' \in [Workers -> {None} \cup Command]
        /\ queue' \in [Workers -> Seq(Command)]
        /\ thread'[w] = "busy" /\ serving'[w] = queue[w][1] /\ queue'[w] = <<>>
    BY <2>2, <2>3, <2>4, Zenon DEF PlaceInv, Places
  <2>6. Served(w, "busy", queue[w][1])
    BY <2>1 DEF Served, StartPlaces
  <2> QED BY <2>2, <2>5, <2>6, Zenon DEF Moved
<1>2. CASE WorkerDisconnected(w)
  <2>1. serving[w] = None
    BY <1>2, Zenon DEF WorkerDisconnected, Runs, PlaceInv, Served
  <2>2. Served(w, "closing", None) /\ "closing" \in Places
    BY DEF Served, StartPlaces, Places
  <2> QED BY <1>2, <2>1, <2>2, MoveMoves, Zenon DEF WorkerDisconnected
<1> QED BY <1>1, <1>2, Zenon

\* While outputs are drained the command at hand counts them.
LEMMA CountMoves ==
  ASSUME PlaceInv, thread["decoder"] = "draining", queue' = queue, thread' = thread,
         serving["decoder"].taken + 1 # MaxOutputs,
         serving' = [serving EXCEPT !["decoder"].taken = @ + 1]
  PROVE  /\ Moved("decoder") /\ serving'["decoder"].kind = "decode"
         /\ serving'["decoder"].req = serving["decoder"].req
         /\ serving'["decoder"].body = serving["decoder"].body
<1> DEFINE c == serving["decoder"]
           d == [c EXCEPT !.taken = @ + 1]
<1>1. c \in Requests("decoder") /\ c.kind = "decode"
  BY Distinct, Zenon DEF PlaceInv, Served
<1>2. c \in Command /\ c.taken < MaxOutputs /\ c.body \in Job
  BY <1>1, Zenon DEF Requests
<1>3. d = [kind |-> c.kind, req |-> c.req, taken |-> c.taken + 1, body |-> c.body]
  BY <1>2 DEF Command
<1>4. c.taken \in Nat /\ c.taken + 1 \in 0 .. MaxOutputs /\ c.taken + 1 < MaxOutputs
  BY <1>2, MediaAssumption DEF Command
<1>5. /\ d \in Command /\ d.taken < MaxOutputs
      /\ d.kind = c.kind /\ d.body = c.body /\ d.req = c.req
  BY <1>2, <1>3, <1>4 DEF Command
<1>6. serving' = [serving EXCEPT !["decoder"] = d]
  BY Zenon
<1> HIDE DEF c, d
<1>7. /\ serving' \in [Workers -> {None} \cup Command] /\ serving'["decoder"] = d
  BY <1>5, <1>6, Distinct, Zenon DEF PlaceInv
<1>8. d \in Requests("decoder")
  BY <1>1, <1>2, <1>5 DEF Requests
<1>9. Served("decoder", "draining", d)
  BY <1>1, <1>5, <1>8 DEF Served, StartPlaces
<1> QED BY <1>1, <1>5, <1>7, <1>9, Distinct, Zenon DEF PlaceInv, Moved, c

\* A step of drain_outputs ends the command or goes on with it.
LEMMA DrainMoves ==
  ASSUME PlaceInv, Serves("decoder", "draining", "decode"), queue' = queue,
         NEW pending, NEW more, Drained(pending, more) \/ Finish("decoder", Lost)
  PROVE  Moved("decoder") /\ thread'["decoder"] \in {"ready", "draining"}
<1>1. thread["decoder"] = "draining"
  BY Zenon DEF Serves, Runs
<1>2. ASSUME NEW r, Finish("decoder", r)
      PROVE  Moved("decoder") /\ thread'["decoder"] = "ready"
  BY <1>2, FinishMoves, Distinct, Zenon
<1>3. CASE Finish("decoder", Lost)
  BY <1>2, <1>3, Zenon
<1>4. CASE Drained(pending, more)
  <2>1. CASE ReturnOldest(pending)
    BY <1>2, <2>1, Zenon DEF ReturnOldest
  <2>2. CASE GoOn(pending)
    <3>1. CASE serving["decoder"].taken + 1 = MaxOutputs
      BY <1>2, <2>2, <3>1, Zenon DEF GoOn
    <3>2. CASE serving["decoder"].taken + 1 # MaxOutputs
      BY <1>1, <2>2, <3>2, CountMoves, Zenon DEF GoOn
    <3> QED BY <3>1, <3>2, Zenon
  <2> QED BY <1>4, <2>1, <2>2, Zenon DEF Drained
<1> QED BY <1>3, <1>4, Zenon

\* Every step of the decoder's thread leaves it in a place that fits its command.
LEMMA DecoderMoves == ASSUME PlaceInv, DecoderSteps PROVE Moved("decoder")
<1>0. "decoder" \in Workers /\ Served("decoder", thread["decoder"], serving["decoder"])
  BY Distinct, Zenon DEF PlaceInv
<1>1. ASSUME NEW r, Finish("decoder", r), queue' = queue PROVE Moved("decoder")
  BY <1>0, <1>1, FinishMoves, Zenon
<1>2. ASSUME \/ DecoderStarts \/ DecoderRejects \/ DecoderResets
             \/ InputFails \/ OutputFails \/ FlushFails
      PROVE  Moved("decoder")
  BY <1>1, <1>2, Zenon
     DEF DecoderStarts, DecoderRejects, DecoderResets, InputFails, OutputFails, FlushFails,
         NativeFails, decoderLeaves
<1>3. ASSUME DecoderEntersCom \/ DecoderStartsMedia \/ DecoderSelects PROVE Moved("decoder")
  <2>1. PICK place \in {"com", "media", "selected"} :
          thread["decoder"] \in StartPlaces /\ Move("decoder", place) /\ serving' = serving /\ queue' = queue
    BY <1>3, Zenon DEF DecoderEntersCom, DecoderStartsMedia, DecoderSelects, Runs, StartPlaces,
                       decoderLeaves
  <2>2. Served("decoder", place, serving["decoder"]) /\ place \in Places
    BY <1>0, <2>1 DEF Served, StartPlaces, Places
  <2> QED BY <1>0, <2>1, <2>2, MoveMoves, Zenon
<1>4. ASSUME ComUnavailable \/ MediaUnavailable \/ NoTransform \/ ConfigurationRefused
      PROVE  Moved("decoder")
  <2>1. thread["decoder"] \in StartPlaces /\ Move("decoder", "ended") /\ serving' = serving /\ queue' = queue
    BY <1>4, Zenon DEF ComUnavailable, MediaUnavailable, NoTransform, ConfigurationRefused,
                       DecoderStartFails, Runs, StartPlaces
  <2>2. Served("decoder", "ended", serving["decoder"]) /\ "ended" \in Places
    BY <1>0, <2>1 DEF Served, StartPlaces, Places
  <2> QED BY <1>0, <2>1, <2>2, MoveMoves, Zenon
<1>5. ASSUME DecoderSubmits PROVE Moved("decoder")
  <2>1. /\ thread["decoder"] = "busy" /\ serving["decoder"].kind = "decode"
        /\ Move("decoder", "draining") /\ serving' = serving /\ queue' = queue
    BY <1>5, Zenon DEF DecoderSubmits, Serves, Runs, decoderLeaves
  <2>2. Served("decoder", "draining", serving["decoder"]) /\ "draining" \in Places
    BY <1>0, <2>1 DEF Served, StartPlaces, Places
  <2> QED BY <1>0, <2>1, <2>2, MoveMoves, Zenon
<1>6. ASSUME DrainSample \/ DrainNothing PROVE Moved("decoder")
  <2>1. /\ Serves("decoder", "draining", "decode") /\ queue' = queue
        /\ \E pending, more : Drained(pending, more) \/ Finish("decoder", Lost)
    BY <1>6, Zenon DEF DrainSample, DrainNothing, decoderLeaves
  <2> QED BY <2>1, DrainMoves, Zenon
<1>7. ASSUME TransformSwallows PROVE Moved("decoder")
  BY <1>0, <1>7, Zenon DEF TransformSwallows, decoderLeaves, PlaceInv, Moved
<1>8. ASSUME DecoderShutsDown \/ DecoderEnds PROVE Moved("decoder")
  <2>1. PICK place \in {"closing", "ended"} :
          /\ \/ thread["decoder"] = "busy" /\ serving["decoder"].kind = "shutdown"
             \/ thread["decoder"] = "closing"
          /\ Move("decoder", place) /\ serving' = serving /\ queue' = queue
    BY <1>8, Zenon DEF DecoderShutsDown, DecoderEnds, Serves, Runs, decoderLeaves
  <2>2. Served("decoder", place, serving["decoder"]) /\ place \in Places
    BY <1>0, <2>1 DEF Served, StartPlaces, Places
  <2> QED BY <1>0, <2>1, <2>2, MoveMoves, Zenon
<1>9. ASSUME WorkerReceives("decoder") \/ WorkerDisconnected("decoder") PROVE Moved("decoder")
  BY <1>0, <1>9, ReceiveMoves, Zenon
<1> QED BY <1>2, <1>3, <1>4, <1>5, <1>6, <1>7, <1>8, <1>9, Zenon DEF DecoderSteps, DecoderNext

\* And so does every step of the renderer's.
LEMMA RendererMoves == ASSUME PlaceInv, RendererSteps PROVE Moved("renderer")
<1>0. "renderer" \in Workers /\ Served("renderer", thread["renderer"], serving["renderer"])
  BY Distinct, Zenon DEF PlaceInv
<1>1. ASSUME NEW r, Finish("renderer", r), queue' = queue PROVE Moved("renderer")
  BY <1>0, <1>1, FinishMoves, Zenon
<1>2. ASSUME RendererStarts \/ UploadFails \/ RendererVerifies PROVE Moved("renderer")
  BY <1>1, <1>2, Zenon DEF RendererStarts, UploadFails, RendererVerifies, CopyAndPresent, NativeFails,
                           rendererLeaves
<1>3. ASSUME NEW place \in {"uploaded", "resized"}, Move("renderer", place), serving' = serving,
             thread["renderer"] \in {"busy", "uploaded"}, serving["renderer"].kind = "present",
             queue' = queue
      PROVE  Moved("renderer")
  <2>1. Served("renderer", place, serving["renderer"]) /\ place \in Places
    BY <1>0, <1>3 DEF Served, StartPlaces, Places
  <2> QED BY <1>0, <1>3, <2>1, MoveMoves, Zenon
<1>4. ASSUME RendererUploads PROVE Moved("renderer")
  BY <1>3, <1>4, Zenon DEF RendererUploads, Serves, Runs, rendererLeaves
<1>5. ASSUME RendererChecks PROVE Moved("renderer")
  BY <1>1, <1>3, <1>5, Zenon DEF RendererChecks, CopyAndPresent, Serves, Runs, rendererLeaves
<1>6. ASSUME RendererStartFails \/ RendererShutsDown \/ RendererEnds PROVE Moved("renderer")
  <2>1. PICK place \in {"closing", "ended"} :
          /\ \/ thread["renderer"] = "busy" /\ serving["renderer"].kind = "shutdown"
             \/ thread["renderer"] \in {"closing", "starting"}
          /\ Move("renderer", place) /\ serving' = serving /\ queue' = queue
    BY <1>6, Zenon DEF RendererStartFails, RendererShutsDown, RendererEnds, Serves, Runs, rendererLeaves
  <2>2. Served("renderer", place, serving["renderer"]) /\ place \in Places
    BY <1>0, <2>1 DEF Served, StartPlaces, Places
  <2> QED BY <1>0, <2>1, <2>2, MoveMoves, Zenon
<1>7. ASSUME WorkerReceives("renderer") \/ WorkerDisconnected("renderer") PROVE Moved("renderer")
  BY <1>0, <1>7, ReceiveMoves, Zenon
<1> QED BY <1>2, <1>4, <1>5, <1>6, <1>7, Zenon DEF RendererSteps, RendererNext

\* Every step keeps what is known of places.
LEMMA PlaceStep == ASSUME MediaInv, [Next]_vars PROVE PlaceInv'
<1>0. PlaceInv
  BY Zenon DEF MediaInv
<1>1. CASE DecoderSteps
  BY <1>0, <1>1, DecoderMoves, DecoderLeaves, Distinct, Zenon DEF Moved, PlaceInv
<1>2. CASE RendererSteps
  BY <1>0, <1>2, RendererMoves, RendererLeaves, Distinct, Zenon DEF Moved, PlaceInv
<1>3. CASE OtherSteps \/ UNCHANGED vars
  <2>1. UNCHANGED workVars
    BY <1>3, OthersLeave, Zenon DEF vars
  <2> QED BY <1>0, <2>1, Zenon DEF PlaceInv, workVars
<1> QED BY <1>1, <1>2, <1>3, PlaceCaller, StepKinds, Zenon

----------------------------------------------------------------------------
(* What is acquired and released; the screen *)

\* A worker is started once, when nothing of it is there yet.
LEMMA SpawnStarts ==
  ASSUME MediaInv, SpawnWorker
  PROVE  /\ thread[on] = "none" /\ thread'[on] = "starting" /\ queue[on] = <<>>
         /\ serving'[on].req = call
         /\ \A w \in Workers : w # on => thread'[w] = thread[w] /\ serving'[w] = serving[w]
         /\ sender'[on] /\ \A w \in Workers : w # on => sender'[w] = sender[w]
<1>1. on \in Workers /\ thread \in [Workers -> Places] /\ sender \in [Workers -> BOOLEAN]
      /\ serving \in [Workers -> {None} \cup Command]
  BY Zenon DEF MediaInv, MediaTypes, CallerTypes, LifeTypes, PlaceInv
<1>2. thread[on] = "none" /\ queue[on] = <<>>
  BY <1>1, Distinct, Zenon DEF MediaInv, SpawnInv, SpawnWorker, Unborn, Workers
<1>3. /\ thread'[on] = "starting" /\ sender'[on] = TRUE
      /\ serving'[on] = [kind |-> "start", body |-> None, req |-> call, taken |-> 0]
      /\ \A w \in Workers : /\ w # on => thread'[w] = thread[w] /\ serving'[w] = serving[w]
                            /\ w # on => sender'[w] = sender[w]
  BY <1>1, Zenon DEF SpawnWorker, Move
<1>4. sender'[on] /\ serving'[on].req = call
  BY <1>3
<1> QED BY <1>2, <1>3, <1>4, Zenon

\* Each step acquires or releases what its place says.
LEMMA NativeStep == ASSUME MediaInv, [Next]_vars PROVE NativeInv'
<1>0. PlaceInv /\ NativeInv /\ thread \in [Workers -> Places]
  BY Zenon DEF MediaInv, PlaceInv
<1>1. CASE UNCHANGED <<nativeVars, thread>>
  BY <1>0, <1>1, Zenon DEF NativeInv, nativeVars
<1>2. CASE SpawnWorker
  <2>1. UNCHANGED nativeVars
    BY <1>2, Zenon DEF SpawnWorker
  <2>2. CASE on = "renderer"
    <3>1. thread'["decoder"] = thread["decoder"]
      BY <1>2, <2>2, SpawnStarts, Distinct, Zenon
    <3> QED BY <1>0, <2>1, <3>1, Zenon DEF NativeInv, nativeVars
  <2>3. CASE on = "decoder"
    <3>1. thread["decoder"] = "none" /\ thread'["decoder"] = "starting"
      BY <1>2, <2>3, SpawnStarts, Zenon
    <3> QED BY <1>0, <2>1, <3>1 DEF NativeInv, nativeVars
  <2> QED BY <1>2, <2>2, <2>3, Zenon DEF MediaInv, MediaTypes, CallerTypes, Workers
<1>3. CASE CallerNext
  BY <1>1, <1>2, <1>3, CallerLeaves, Zenon
<1>4. CASE RendererSteps
  <2>1. UNCHANGED nativeVars /\ thread'["decoder"] = thread["decoder"]
    BY <1>0, <1>4, RendererLeaves, Zenon
  <2> QED BY <1>0, <2>1, Zenon DEF NativeInv, nativeVars
<1>5. CASE OtherSteps \/ UNCHANGED vars
  BY <1>1, <1>5, OthersLeave, Zenon DEF vars, workVars
<1>6. ASSUME \/ DecoderRejects \/ DecoderSubmits \/ DecoderResets \/ TransformSwallows
             \/ InputFails \/ OutputFails \/ FlushFails \/ DrainSample \/ DrainNothing
      PROVE  NativeInv'
  <2>1. /\ UNCHANGED nativeVars /\ thread["decoder"] \in {"busy", "draining"}
    BY <1>6, Zenon DEF DecoderRejects, DecoderSubmits, DecoderResets, TransformSwallows, InputFails,
                       OutputFails, FlushFails, DrainSample, DrainNothing, Serves, Runs
  <2>2. thread'["decoder"] \in {"ready", "draining"}
    <3>1. ASSUME NEW p \in {"ready", "draining"}, thread' = [thread EXCEPT !["decoder"] = p]
          PROVE  thread'["decoder"] \in {"ready", "draining"}
      BY <1>0, <3>1, Distinct, Zenon
    <3>2. CASE DecoderRejects \/ DecoderSubmits \/ DecoderResets \/ InputFails \/ OutputFails \/ FlushFails
      BY <3>1, <3>2, Zenon DEF DecoderRejects, DecoderSubmits, DecoderResets, InputFails, OutputFails,
                               FlushFails, NativeFails, Finish, Move
    <3>3. CASE TransformSwallows
      BY <3>3, Zenon DEF TransformSwallows, Serves, Runs
    <3>4. CASE DrainSample \/ DrainNothing
      <4>1. /\ Serves("decoder", "draining", "decode") /\ queue' = queue
            /\ \E pending, more : Drained(pending, more) \/ Finish("decoder", Lost)
        BY <3>4, Zenon DEF DrainSample, DrainNothing, decoderLeaves
      <4> QED BY <1>0, <4>1, DrainMoves, Zenon
    <3> QED BY <1>6, <3>2, <3>3, <3>4, Zenon
  <2> QED BY <1>0, <2>1, <2>2 DEF NativeInv, nativeVars
<1>7. ASSUME WorkerReceives("decoder") \/ WorkerDisconnected("decoder") PROVE NativeInv'
  <2>1. /\ UNCHANGED nativeVars /\ thread["decoder"] = "ready" /\ thread'["decoder"] \in {"busy", "closing"}
    BY <1>0, <1>7, Distinct, Zenon DEF WorkerReceives, WorkerDisconnected, Runs, Move
  <2> QED BY <1>0, <2>1 DEF NativeInv, nativeVars
<1>8. ASSUME NEW p, Move("decoder", p) PROVE thread'["decoder"] = p
  BY <1>0, <1>8, Distinct, Zenon DEF Move
<1>9. ASSUME DecoderEntersCom \/ DecoderStartsMedia \/ DecoderSelects \/ DecoderStarts PROVE NativeInv'
  <2>1. CASE DecoderEntersCom
    <3>1. /\ thread["decoder"] = "starting" /\ thread'["decoder"] = "com" /\ com' = com + 1
          /\ mf' = mf /\ started' = started
      BY <1>8, <2>1, Zenon DEF DecoderEntersCom, Runs
    <3> QED BY <1>0, <3>1 DEF NativeInv
  <2>2. CASE DecoderStartsMedia
    <3>1. /\ thread["decoder"] = "com" /\ thread'["decoder"] = "media" /\ mf' = mf + 1
          /\ com' = com /\ started' = started
      BY <1>8, <2>2, Zenon DEF DecoderStartsMedia, Runs
    <3> QED BY <1>0, <3>1 DEF NativeInv
  <2>3. CASE DecoderSelects
    <3>1. thread["decoder"] = "media" /\ thread'["decoder"] = "selected" /\ UNCHANGED nativeVars
      BY <1>8, <2>3, Zenon DEF DecoderSelects, Runs
    <3> QED BY <1>0, <3>1 DEF NativeInv, nativeVars
  <2>4. CASE DecoderStarts
    <3>1. /\ thread["decoder"] = "selected" /\ thread'["decoder"] = "ready" /\ started' = TRUE
          /\ com' = com /\ mf' = mf
      BY <1>8, <2>4, Zenon DEF DecoderStarts, Runs, Finish
    <3> QED BY <1>0, <3>1 DEF NativeInv
  <2> QED BY <1>9, <2>1, <2>2, <2>3, <2>4, Zenon
<1>10. ASSUME ComUnavailable \/ MediaUnavailable \/ NoTransform \/ ConfigurationRefused
       PROVE  NativeInv'
  <2>1. /\ started' = started /\ thread'["decoder"] = "ended"
        /\ \/ thread["decoder"] = "starting" /\ com' = com - 0 /\ mf' = mf - 0
           \/ thread["decoder"] = "com" /\ com' = com - 1 /\ mf' = mf - 0
           \/ thread["decoder"] \in {"media", "selected"} /\ com' = com - 1 /\ mf' = mf - 1
    BY <1>8, <1>10, Zenon DEF ComUnavailable, MediaUnavailable, NoTransform, ConfigurationRefused,
                              DecoderStartFails, Runs
  <2> QED BY <1>0, <2>1 DEF NativeInv
<1>11. ASSUME DecoderShutsDown \/ DecoderEnds PROVE NativeInv'
  <2>1. CASE DecoderShutsDown
    <3>1. /\ thread["decoder"] = "busy" /\ thread'["decoder"] = "closing" /\ com' = com
          /\ mf' = (IF started THEN mf - 1 ELSE mf) /\ started' = FALSE
      BY <1>8, <2>1, Zenon DEF DecoderShutsDown, NativeShutdown, Serves, Runs
    <3>2. started /\ mf = 1 /\ com = 1
      BY <1>0, <3>1 DEF NativeInv
    <3>3. mf' = 0
      BY <3>1, <3>2
    <3> QED BY <3>1, <3>2, <3>3 DEF NativeInv
  <2>2. CASE DecoderEnds
    <3>1. /\ thread["decoder"] = "closing" /\ thread'["decoder"] = "ended" /\ com' = com - 1
          /\ mf' = (IF started THEN mf - 1 ELSE mf) /\ started' = FALSE
      BY <1>8, <2>2, Zenon DEF DecoderEnds, NativeShutdown, Runs
    <3>2. com = 1 /\ (started => mf = 1) /\ (~started => mf = 0)
      BY <1>0, <3>1 DEF NativeInv
    <3>3. mf' = 0 /\ com' = 0
      BY <3>1, <3>2
    <3> QED BY <3>1, <3>3 DEF NativeInv
  <2> QED BY <1>11, <2>1, <2>2, Zenon
<1>12. CASE DecoderSteps
  BY <1>6, <1>7, <1>9, <1>10, <1>11, <1>12, Zenon DEF DecoderSteps, DecoderNext
<1> QED BY <1>3, <1>4, <1>5, <1>12, StepKinds, Zenon

\* A copy is made only into a buffer that was seen to have the stream's size.
LEMMA ScreenStep == ASSUME MediaInv, [Next]_vars PROVE ScreenInv'
<1>0. PlaceInv /\ ScreenInv /\ thread \in [Workers -> Places]
  BY Zenon DEF MediaInv, PlaceInv
<1>1. ASSUME UNCHANGED screenVars, thread'["renderer"] # "resized" \/ thread'["renderer"] = thread["renderer"]
      PROVE  ScreenInv'
  BY <1>0, <1>1, Zenon DEF ScreenInv, screenVars
<1>2. CASE CallerNext
  <2>1. UNCHANGED screenVars /\ (SpawnWorker \/ thread' = thread)
    BY <1>2, CallerLeaves, Zenon
  <2>2. CASE SpawnWorker
    <3>1. thread'["renderer"] = "starting" \/ thread'["renderer"] = thread["renderer"]
      BY <2>2, SpawnStarts, Distinct, Zenon
    <3> QED BY <1>1, <2>1, <3>1, Zenon
  <2> QED BY <1>1, <2>1, <2>2, Zenon
<1>3. CASE DecoderSteps
  BY <1>0, <1>1, <1>3, DecoderLeaves, Zenon
<1>4. CASE WindowResizes
  <2>1. resizedNow' = TRUE /\ copied' = copied /\ thread' = thread
    BY <1>4, Zenon DEF WindowResizes, workVars
  <2> QED BY <1>0, <2>1, Zenon DEF ScreenInv
<1>5. CASE OtherSteps \/ UNCHANGED vars
  BY <1>1, <1>4, <1>5, OthersLeave, Zenon DEF vars, workVars
<1>6. ASSUME NEW p, Move("renderer", p) PROVE thread'["renderer"] = p
  BY <1>0, <1>6, Distinct, Zenon DEF Move
<1>7. ASSUME RendererStarts \/ RendererShutsDown \/ RendererEnds \/ RendererStartFails \/ UploadFails
             \/ WorkerReceives("renderer") \/ WorkerDisconnected("renderer")
      PROVE  ScreenInv'
  <2>1. UNCHANGED screenVars /\ \E p \in {"ready", "closing", "ended", "busy"} : Move("renderer", p)
    BY <1>7, Zenon DEF RendererStarts, RendererShutsDown, RendererEnds, RendererStartFails, UploadFails,
                       WorkerReceives, WorkerDisconnected, NativeFails, Finish
  <2> QED BY <1>1, <1>6, <2>1, Zenon
<1>8. ASSUME RendererUploads PROVE ScreenInv'
  <2>1. copied' = copied /\ thread'["renderer"] = "uploaded"
    BY <1>6, <1>8, Zenon DEF RendererUploads
  <2> QED BY <1>0, <2>1, Zenon DEF ScreenInv
<1>9. ASSUME RendererChecks \/ RendererVerifies PROVE ScreenInv'
  <2>1. \/ /\ copied' = [texture |-> "stream", buffer |-> "stream"]
           /\ thread'["renderer"] = "ready"
        \/ copied' = copied /\ back' = "stream" /\ thread'["renderer"] = "resized"
        \/ copied' = copied /\ thread'["renderer"] = "ready"
    BY <1>6, <1>9, Zenon DEF RendererChecks, RendererVerifies, CopyAndPresent, ResizeBuffers, Finish
  <2> QED BY <1>0, <2>1, Zenon DEF ScreenInv
<1>10. CASE RendererSteps
  BY <1>7, <1>8, <1>9, <1>10, Zenon DEF RendererSteps, RendererNext
<1> QED BY <1>2, <1>3, <1>4, <1>5, <1>10, StepKinds, Zenon
=============================================================================
