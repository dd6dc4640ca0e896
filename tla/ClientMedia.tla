---------------------------- MODULE ClientMedia ----------------------------
(***************************************************************************)
(* The two native worker threads of nexus-client, the Media Foundation     *)
(* decoder and the D3D11 renderer, and the pipeline thread that calls      *)
(* them.  A call is a command in a channel of depth one with a reply       *)
(* channel of its own; the caller waits for the reply until a deadline,    *)
(* and the first call that fails ends the pipeline: it drops the renderer, *)
(* then the decoder.  A worker may be blocked in a driver call when its    *)
(* owner gives up, so its join handle passes to a background reaper.       *)
(***************************************************************************)
EXTENDS SurfaceLayout, Sequences

CONSTANTS
  MaxPending,           \* MAX_PENDING_DECODED_FRAMES
  MaxOutputs,           \* MAX_OUTPUTS_PER_SUBMISSION
  MaxTimestamp,         \* the largest timestamp_us whose timestamp_hns fits an i64
  Contents,             \* bound: the access units it gets: timestamp, keyframe, emptiness
  MaxJobs,              \* bound: jobs taken by the pipeline
  Scenarios,            \* bound: how many jobs, blocked driver calls and window resizes a
                        \* behaviour has, and whether native calls fail and deadlines pass
  None

ASSUME MediaAssumption ==
  /\ MaxPending \in Nat \ {0} /\ MaxOutputs \in Nat \ {0} /\ MaxTimestamp \in Nat
  /\ Contents \subseteq [ts : Nat, key : BOOLEAN, empty : BOOLEAN]
  /\ MaxJobs \in Nat
  /\ Scenarios \subseteq [jobs : 0 .. MaxJobs, hangs : Nat, resizes : Nat, faults : BOOLEAN]
  /\ \A s \in Scenarios : s.hangs > 0 => s.faults
  /\ None \notin {[kind |-> "lost"], [kind |-> "done"]}

Workers == {"decoder", "renderer"}

VARIABLES
  pc, on,               \* what the pipeline thread does, and with which worker
  job, reply,           \* the job in hand; the reply received
  call,                 \* how many requests were given up unanswered
  gate,                 \* the caller's DecoderGate
  jobs,
  thread,               \* where each worker thread is
  queue,                \* its command channel
  sender,               \* the caller still holds the channel's sender
  serving,              \* the command it executes
  hung,                 \* it is blocked in a driver call
  handle, reaping, reaper, \* its WorkerLifecycle
  com, mf,              \* the decoder thread's COM and Media Foundation references
  started,              \* media_foundation_started
  ready,                \* NativeDecoder's own DecoderGate
  inputs, surfaces,     \* pending_inputs and pending_surfaces
  inside,               \* the frames the transform holds
  twins,                \* two pending inputs had one timestamp since its last flush
  swallowed,            \* frames it dropped without an output since its last flush
  back, cached,         \* the back buffer's size; presentation_size
  copied,               \* the sizes of the last CopyResource
  native,               \* a native call failed
  resizedNow,           \* the back buffer changed during the current upload
  left                  \* what is left of the behaviour's scenario

callerVars == <<pc, on, job, call, gate, jobs>>
lifeVars == <<handle, reaping, reaper>>
nativeVars == <<com, mf, started>>
decoderVars == <<ready, inputs, surfaces, inside, twins, swallowed>>
screenVars == <<back, cached, copied, resizedNow>>
workVars == <<thread, queue, serving>>
vars == <<callerVars, reply, workVars, sender, hung, lifeVars, nativeVars, decoderVars,
          screenVars, native, left>>

\* Sizes of the back buffer: the stream's, and the one a window resize gives it.
Sizes == {"stream", "window"}

Job == {[id |-> n, ts |-> c.ts, key |-> c.key, empty |-> c.empty] :
          n \in 1 .. MaxJobs, c \in Contents}
\* A surface: the frame whose metadata it carries and the frame whose picture it shows.
Surface == [meta : 1 .. MaxJobs, picture : 1 .. MaxJobs]

Lost == [kind |-> "lost"]
Done == [kind |-> "done"]
Missing == [kind |-> "missing"]
Frame(s) == [kind |-> "frame", surface |-> s]

Init ==
  /\ pc = "spawn" /\ on = "decoder" /\ job = None /\ call = 0 /\ reply = None /\ gate = FALSE
  /\ jobs = 0
  /\ thread = [w \in Workers |-> "none"] /\ queue = [w \in Workers |-> <<>>]
  /\ sender = [w \in Workers |-> FALSE] /\ serving = [w \in Workers |-> None]
  /\ hung = [w \in Workers |-> FALSE]
  /\ handle = [w \in Workers |-> "none"] /\ reaping = [w \in Workers |-> FALSE]
  /\ reaper = [w \in Workers |-> "none"]
  /\ com = 0 /\ mf = 0 /\ started = FALSE /\ ready = FALSE /\ inputs = <<>> /\ surfaces = <<>>
  /\ inside = {} /\ twins = FALSE /\ swallowed = 0
  /\ back = "window" /\ cached = None /\ copied = None /\ resizedNow = FALSE
  /\ native = FALSE /\ left \in Scenarios
----------------------------------------------------------------------------
(* Requests and replies *)

Waiting == {"start", "reset", "decode", "present", "stop"}

\* try_send of a command with a fresh reply channel: a channel that is full, or whose
\* worker has gone, drops the reply's sender at once.
Send(w, kind, body) ==
  LET sent == queue[w] = <<>> /\ thread[w] # "ended"
      command == [kind |-> kind, body |-> body, req |-> call', taken |-> 0]
  IN  /\ queue' = IF sent THEN [queue EXCEPT ![w] = <<command>>] ELSE queue
      /\ reply' = IF sent THEN None ELSE Lost

\* A reply reaches the caller unless it has given the request up: every request before the
\* current one was either answered or given up.
Answer(w, r) == reply' = IF serving[w].req = call THEN r ELSE reply

\* recv_timeout returns an error: the reply is one, or the deadline has passed.
NoAnswer == (reply = Lost \/ (reply = None /\ left.faults)) /\ call' = call + 1

Move(w, place) == thread' = [thread EXCEPT ![w] = place]

----------------------------------------------------------------------------
(* WorkerLifecycle *)

\* reap_in_background, after which the owner drops its reference: without a reaper the
\* handle goes with it.
Reap(w, spawned) ==
  IF reaping[w] THEN UNCHANGED lifeVars
  ELSE /\ reaping' = [reaping EXCEPT ![w] = spawned]
       /\ reaper' = IF spawned THEN [reaper EXCEPT ![w] = "spawned"] ELSE reaper
       /\ handle' = [handle EXCEPT ![w] = IF spawned THEN "slot" ELSE "detached"]

ReaperTakes(w) ==
  /\ reaper[w] = "spawned"
  /\ reaper' = [reaper EXCEPT ![w] = "joining"]
  /\ handle' = [handle EXCEPT ![w] = "reaper"]
  /\ UNCHANGED <<callerVars, reply, workVars, sender, hung, reaping, nativeVars, decoderVars,
                 screenVars, native, left>>

ReaperJoins(w) ==
  /\ reaper[w] = "joining" /\ thread[w] = "ended"
  /\ reaper' = [reaper EXCEPT ![w] = "done"]
  /\ handle' = [handle EXCEPT ![w] = "joined"]
  /\ UNCHANGED <<callerVars, reply, workVars, sender, hung, reaping, nativeVars, decoderVars,
                 screenVars, native, left>>

----------------------------------------------------------------------------
(* The pipeline thread *)

callLeaves == <<thread, serving, hung, nativeVars, decoderVars, screenVars, native, left>>

\* A step of the pipeline thread that gives no request up.
At(place) == pc = place /\ call' = call

\* Dropping a worker's owner begins with its stop.
BeginStop(w) == pc' = "stop" /\ on' = w /\ Send(w, "shutdown", None)

SpawnWorker ==
  /\ pc = "spawn"
  /\ pc' = "start"
  /\ Move(on, "starting")
  /\ serving' = [serving EXCEPT ![on] = [kind |-> "start", body |-> None, req |-> call,
                                         taken |-> 0]]
  /\ sender' = [sender EXCEPT ![on] = TRUE]
  /\ handle' = [handle EXCEPT ![on] = "slot"]
  /\ UNCHANGED <<on, job, call, reply, gate, jobs, queue, hung, reaping, reaper, nativeVars,
                 decoderVars, screenVars, native, left>>

\* The pipeline's start returns the error; a decoder that already runs is dropped.
GiveUpStart ==
  IF on = "renderer" THEN BeginStop("decoder")
  ELSE pc' = "gone" /\ reply' = None /\ UNCHANGED <<on, queue>>

SpawnFails ==
  /\ At("spawn") /\ GiveUpStart
  /\ UNCHANGED <<job, gate, jobs, sender, lifeVars, callLeaves>>

StartAnswered ==
  /\ pc = "start" /\ reply = Done
  /\ pc' = IF on = "decoder" THEN "spawn" ELSE "idle"
  /\ on' = "renderer" /\ reply' = None
  /\ UNCHANGED <<job, call, gate, jobs, queue, sender, lifeVars, callLeaves>>

\* An error or no answer in time: the handle goes to the reaper, the sender is dropped.
StartFails ==
  /\ pc = "start" /\ NoAnswer
  /\ \E spawned \in BOOLEAN : Reap(on, spawned)
  /\ sender' = [sender EXCEPT ![on] = FALSE]
  /\ GiveUpStart
  /\ UNCHANGED <<job, gate, jobs, callLeaves>>

\* Back at the top of the loop.
Idle == pc' = "idle" /\ on' = "renderer" /\ reply' = None /\ UNCHANGED queue

\* DecoderGate::accept: a stream begins with a keyframe that carries its header.
Accepts(initialized, j) == initialized \/ j.key

\* MediaFoundationDecoder::decode up to its request.
CallDecode(j, initialized) ==
  IF j.empty
  THEN BeginStop("renderer") /\ gate' = initialized
  ELSE IF Accepts(initialized, j)
  THEN pc' = "decode" /\ on' = "decoder" /\ gate' = TRUE /\ Send("decoder", "decode", j)
  ELSE Idle /\ gate' = initialized

\* The next job; one of a new generation resets the decoder first.
TakeJob ==
  /\ At("idle") /\ jobs < left.jobs
  /\ jobs' = jobs + 1
  /\ \E j \in Job, fresh \in BOOLEAN :
       /\ j.id = jobs'
       /\ IF fresh
          THEN /\ pc' = "reset" /\ on' = "decoder" /\ job' = j /\ gate' = FALSE
               /\ Send("decoder", "reset", None)
          ELSE CallDecode(j, gate) /\ UNCHANGED job
  /\ UNCHANGED <<sender, lifeVars, callLeaves>>

ResetAnswered ==
  /\ At("reset") /\ reply = Done
  /\ CallDecode(job, gate) /\ job' = None
  /\ UNCHANGED <<jobs, sender, lifeVars, callLeaves>>

\* A surface is presented if its generation is still the current one.
DecodeAnswered ==
  /\ At("decode") /\ reply \notin {None, Lost}
  /\ \/ /\ reply.kind = "frame"
        /\ pc' = "present" /\ on' = "renderer" /\ Send("renderer", "present", reply.surface)
     \/ Idle
  /\ UNCHANGED <<job, gate, jobs, sender, lifeVars, callLeaves>>

PresentAnswered ==
  /\ pc = "present" /\ reply = Done
  /\ Idle
  /\ UNCHANGED <<job, call, gate, jobs, sender, lifeVars, callLeaves>>

\* Any other answer, or none in time, ends the loop, as the stop flag does.
CallFails ==
  /\ pc \in {"reset", "decode", "present"} /\ NoAnswer
  /\ BeginStop("renderer") /\ job' = None
  /\ UNCHANGED <<gate, jobs, sender, lifeVars, callLeaves>>

StopRequested ==
  /\ At("idle")
  /\ BeginStop("renderer")
  /\ UNCHANGED <<job, gate, jobs, sender, lifeVars, callLeaves>>

StopWaitedKeepingSender ==
  /\ handle' = [handle EXCEPT ![on] = "owner"]
  /\ pc' = "join" /\ reply' = None
  /\ UNCHANGED <<on, job, gate, jobs, sender, queue, reaping, reaper, callLeaves>>

\* stop: whatever became of the request, the sender is dropped and the handle taken.
StopWaited ==
  /\ sender' = [sender EXCEPT ![on] = FALSE]
  /\ handle' = [handle EXCEPT ![on] = "owner"]
  /\ pc' = "join" /\ reply' = None
  /\ UNCHANGED <<on, job, gate, jobs, queue, reaping, reaper, callLeaves>>

StopAnswered == pc = "stop" /\ reply # None /\ call' = call /\ StopWaited

StopTimesOut == pc = "stop" /\ reply = None /\ left.faults /\ call' = call + 1 /\ StopWaited

\* The renderer is dropped before the decoder.
Dropped ==
  IF on = "renderer" THEN BeginStop("decoder")
  ELSE pc' = "gone" /\ reply' = None /\ UNCHANGED <<on, queue>>

JoinBefore ==
  /\ At("join") /\ thread[on] = "ended"
  /\ handle' = [handle EXCEPT ![on] = "joined"]
  /\ Dropped
  /\ UNCHANGED <<job, gate, jobs, sender, reaping, reaper, callLeaves>>

JoinDeadline ==
  /\ At("join") /\ thread[on] # "ended" /\ left.faults
  /\ \E spawned \in BOOLEAN : Reap(on, spawned)
  /\ Dropped
  /\ UNCHANGED <<job, gate, jobs, sender, callLeaves>>

----------------------------------------------------------------------------
(* Both workers *)

workerLeaves == <<callerVars, sender, lifeVars, left>>

Runs(w, place) == thread[w] = place /\ ~ hung[w]
Serves(w, place, kind) == Runs(w, place) /\ serving[w].kind = kind

\* The reply is sent and the next command awaited.
Finish(w, r) == Answer(w, r) /\ Move(w, "ready") /\ serving' = [serving EXCEPT ![w] = None]

WorkerReceives(w) ==
  /\ Runs(w, "ready") /\ queue[w] # <<>>
  /\ serving' = [serving EXCEPT ![w] = Head(queue[w])]
  /\ queue' = [queue EXCEPT ![w] = <<>>]
  /\ Move(w, "busy")
  /\ UNCHANGED <<workerLeaves, reply, hung, nativeVars, decoderVars, screenVars, native>>

\* recv fails once the sender is dropped and the channel is empty.
WorkerDisconnected(w) ==
  /\ Runs(w, "ready") /\ queue[w] = <<>> /\ ~ sender[w]
  /\ Move(w, "closing")
  /\ UNCHANGED <<workerLeaves, reply, queue, serving, hung, nativeVars, decoderVars, screenVars,
                 native>>

\* A driver call blocks, and may return later.
DriverBlocks(w) ==
  /\ left.hangs > 0 /\ ~ hung[w] /\ thread[w] \notin {"none", "ready", "ended"}
  /\ hung' = [hung EXCEPT ![w] = TRUE] /\ left' = [left EXCEPT !.hangs = @ - 1]
  /\ UNCHANGED <<callerVars, reply, workVars, sender, lifeVars, nativeVars, decoderVars,
                 screenVars, native>>

DriverReturns(w) ==
  /\ hung[w]
  /\ hung' = [hung EXCEPT ![w] = FALSE]
  /\ UNCHANGED <<callerVars, reply, workVars, sender, lifeVars, nativeVars, decoderVars,
                 screenVars, native, left>>

\* A native call made for the command in hand reports a failure.
NativeFails(w) == left.faults /\ native' = TRUE /\ Finish(w, Lost)

----------------------------------------------------------------------------
(* The decoder thread *)

decoderLeaves == <<workerLeaves, queue, hung, screenVars, native>>

\* CoInitializeEx, MFStartup and the selection of a transform, then its configuration.
DecoderEntersCom ==
  /\ Runs("decoder", "starting")
  /\ com' = com + 1 /\ Move("decoder", "com")
  /\ UNCHANGED <<decoderLeaves, reply, serving, mf, started, decoderVars>>

DecoderStartsMedia ==
  /\ Runs("decoder", "com")
  /\ mf' = mf + 1 /\ Move("decoder", "media")
  /\ UNCHANGED <<decoderLeaves, reply, serving, com, started, decoderVars>>

DecoderSelects ==
  /\ Runs("decoder", "media")
  /\ Move("decoder", "selected")
  /\ UNCHANGED <<decoderLeaves, reply, serving, nativeVars, decoderVars>>

DecoderStarts ==
  /\ Runs("decoder", "selected")
  /\ started' = TRUE
  /\ Finish("decoder", Done)
  /\ UNCHANGED <<decoderLeaves, com, mf, decoderVars>>

\* A stage of the start fails: the stages before it are undone in reverse.
DecoderStartFails(stage, dcom, dmf) ==
  /\ Runs("decoder", stage) /\ left.faults
  /\ com' = com - dcom /\ mf' = mf - dmf /\ native' = TRUE
  /\ Answer("decoder", Lost) /\ Move("decoder", "ended")
  /\ UNCHANGED <<workerLeaves, queue, serving, hung, started, decoderVars, screenVars>>

ComUnavailable == DecoderStartFails("starting", 0, 0)
MediaUnavailable == DecoderStartFails("com", 1, 0)
NoTransform == DecoderStartFails("media", 1, 1)
ConfigurationRefused == DecoderStartFails("selected", 1, 1)

\* timestamp_hns: the multiplication by ten must fit an i64.
TimestampFits(j) == j.ts <= MaxTimestamp

HasRoom == Len(inputs) # MaxPending

\* The checks of NativeDecoder::decode before the access unit is submitted, in order.
Verdict(j) ==
  CASE j.empty -> Lost
    [] ~ j.empty /\ ~ Accepts(ready, j) -> Missing
    [] ~ j.empty /\ Accepts(ready, j) /\ ~ (TimestampFits(j) /\ HasRoom) -> Lost
    [] OTHER -> Done

DecoderRejects ==
  /\ Serves("decoder", "busy", "decode")
  /\ LET j == serving["decoder"].body
     IN  /\ Verdict(j) # Done
         /\ ready' = (ready \/ (~ j.empty /\ j.key))
         /\ Finish("decoder", Verdict(j))
  /\ UNCHANGED <<decoderLeaves, nativeVars, inputs, surfaces, inside, twins, swallowed>>

DecoderSubmits ==
  /\ Serves("decoder", "busy", "decode")
  /\ LET j == serving["decoder"].body
     IN  /\ Verdict(j) = Done
         /\ inputs' = Append(inputs, j)
         /\ inside' = inside \cup {j}
         /\ twins' = (twins \/ \E i \in 1 .. Len(inputs) : inputs[i].ts = j.ts)
  /\ ready' = TRUE
  /\ Move("decoder", "draining")
  /\ UNCHANGED <<decoderLeaves, reply, serving, nativeVars, surfaces, swallowed>>

\* Past the gate, the sample of the access unit cannot be made, or the transform refuses it.
InputFails ==
  /\ Serves("decoder", "busy", "decode")
  /\ LET j == serving["decoder"].body IN ~ j.empty /\ Accepts(ready, j)
  /\ NativeFails("decoder") /\ ready' = TRUE
  /\ UNCHANGED <<workerLeaves, queue, hung, nativeVars, inputs, surfaces, inside, twins, swallowed,
                 screenVars>>

\* decode returns the oldest surface, if there is one.
ReturnOldest(pending) ==
  /\ surfaces' = IF pending = <<>> THEN <<>> ELSE Tail(pending)
  /\ Finish("decoder", IF pending = <<>> THEN Done ELSE Frame(Head(pending)))

\* The loop of drain_outputs goes on while the transform says it has more, for a bounded
\* number of outputs.
GoOn(pending) ==
  /\ surfaces' = pending
  /\ IF serving["decoder"].taken + 1 = MaxOutputs
     THEN Finish("decoder", Lost)
     ELSE /\ serving' = [serving EXCEPT !["decoder"].taken = @ + 1]
          /\ UNCHANGED <<reply, thread>>

Drained(pending, more) == IF more THEN GoOn(pending) ELSE ReturnOldest(pending)

OldestIndex(f) == IF inputs = <<>> THEN 0 ELSE 1

\* The first pending input with the sample's timestamp.
MetadataIndex(f) ==
  LET matching == {i \in 1 .. Len(inputs) : inputs[i].ts = f.ts}
  IN  IF matching = {} THEN 0 ELSE CHOOSE i \in matching : \A k \in matching : i <= k

TakeMetadata(i) ==
  inputs' = [k \in 1 .. Len(inputs) - 1 |-> IF k < i THEN inputs[k] ELSE inputs[k + 1]]

\* ProcessOutput yields a sample of a frame the transform holds.
DrainSample ==
  /\ Serves("decoder", "draining", "decode")
  /\ \E f \in inside, more \in BOOLEAN :
       LET i == MetadataIndex(f)
       IN  /\ inside' = inside \ {f}
           /\ IF i = 0
              THEN Finish("decoder", Lost) /\ UNCHANGED <<inputs, surfaces>>
              ELSE /\ TakeMetadata(i)
                   /\ IF Len(surfaces) = MaxPending
                      THEN Finish("decoder", Lost) /\ UNCHANGED surfaces
                      ELSE Drained(Append(surfaces, [meta |-> inputs[i].id, picture |-> f.id]),
                                   more)
  /\ UNCHANGED <<decoderLeaves, nativeVars, ready, twins, swallowed>>

\* ProcessOutput yields no sample, or needs more input.
DrainNothing ==
  /\ Serves("decoder", "draining", "decode")
  /\ \E more \in BOOLEAN : Drained(surfaces, more)
  /\ UNCHANGED <<decoderLeaves, nativeVars, ready, inputs, inside, twins, swallowed>>

\* The transform fails while outputs are drained, or a sample it yielded does, before or
\* after its metadata is taken.
OutputFails ==
  /\ Serves("decoder", "draining", "decode")
  /\ NativeFails("decoder")
  /\ \/ UNCHANGED <<inside, inputs>>
     \/ \E f \in inside :
          /\ inside' = inside \ {f}
          /\ \/ UNCHANGED inputs
             \/ MetadataIndex(f) # 0 /\ TakeMetadata(MetadataIndex(f))
  /\ UNCHANGED <<workerLeaves, queue, hung, nativeVars, ready, surfaces, twins, swallowed, screenVars>>

\* The transform discards a frame it cannot decode.
TransformSwallows ==
  /\ Serves("decoder", "draining", "decode")
  /\ \E f \in inside : inside' = inside \ {f}
  /\ swallowed' = swallowed + 1
  /\ UNCHANGED <<decoderLeaves, reply, thread, serving, nativeVars, ready, inputs, surfaces, twins>>

DecoderResets ==
  /\ Serves("decoder", "busy", "reset")
  /\ inputs' = <<>> /\ surfaces' = <<>> /\ inside' = {} /\ twins' = FALSE
  /\ swallowed' = 0 /\ ready' = FALSE
  /\ Finish("decoder", Done)
  /\ UNCHANGED <<decoderLeaves, nativeVars>>

FlushFails ==
  /\ Serves("decoder", "busy", "reset")
  /\ NativeFails("decoder")
  /\ UNCHANGED <<workerLeaves, queue, hung, nativeVars, decoderVars, screenVars>>

\* NativeDecoder::shutdown, run by the command and by the drop that follows it.
NativeShutdown == mf' = (IF started THEN mf - 1 ELSE mf) /\ started' = FALSE

DecoderShutsDown ==
  /\ Serves("decoder", "busy", "shutdown")
  /\ NativeShutdown
  /\ Answer("decoder", Done) /\ Move("decoder", "closing")
  /\ UNCHANGED <<decoderLeaves, serving, com, decoderVars>>

DecoderEnds ==
  /\ Runs("decoder", "closing")
  /\ NativeShutdown /\ com' = com - 1
  /\ Move("decoder", "ended")
  /\ UNCHANGED <<decoderLeaves, reply, serving, decoderVars>>

----------------------------------------------------------------------------
(* The renderer thread *)

rendererLeaves == <<workerLeaves, queue, hung, nativeVars, decoderVars, native>>

RendererStarts ==
  /\ Runs("renderer", "starting")
  /\ Finish("renderer", Done)
  /\ UNCHANGED <<rendererLeaves, screenVars>>

RendererStartFails ==
  /\ Runs("renderer", "starting") /\ left.faults
  /\ native' = TRUE /\ Answer("renderer", Lost) /\ Move("renderer", "ended")
  /\ UNCHANGED <<workerLeaves, queue, serving, hung, nativeVars, decoderVars, screenVars>>

\* A texture, a resize, the back buffer or the presentation fails.
UploadFails ==
  /\ serving["renderer"] # None /\ ~ hung["renderer"]
  /\ serving["renderer"].kind = "present"
  /\ NativeFails("renderer")
  /\ UNCHANGED <<workerLeaves, queue, hung, nativeVars, decoderVars, screenVars>>

ResizeBuffers == back' = "stream" /\ cached' = "stream"

\* upload_surface up to the first resize, which the cached size may save.
RendererUploads ==
  /\ Serves("renderer", "busy", "present")
  /\ IF cached # "stream" THEN ResizeBuffers ELSE UNCHANGED <<back, cached>>
  /\ resizedNow' = FALSE
  /\ Move("renderer", "uploaded")
  /\ UNCHANGED <<rendererLeaves, reply, serving, copied>>

\* CopyResource of the stream's picture into the back buffer at hand, then Present.
CopyAndPresent ==
  /\ copied' = [texture |-> "stream", buffer |-> back]
  /\ Finish("renderer", Done)
  /\ UNCHANGED <<back, cached>>

RendererResizesOnce ==
  /\ Serves("renderer", "uploaded", "present")
  /\ IF back = "stream" THEN CopyAndPresent
     ELSE Finish("renderer", Lost) /\ UNCHANGED <<back, cached, copied>>
  /\ UNCHANGED <<rendererLeaves, resizedNow>>

\* The back buffer's own description decides, not the cache.
RendererChecks ==
  /\ Serves("renderer", "uploaded", "present")
  /\ IF back = "stream" THEN CopyAndPresent
     ELSE ResizeBuffers /\ Move("renderer", "resized") /\ UNCHANGED <<reply, serving, copied>>
  /\ UNCHANGED <<rendererLeaves, resizedNow>>

RendererVerifies ==
  /\ Serves("renderer", "resized", "present")
  /\ IF back = "stream" THEN CopyAndPresent
     ELSE Finish("renderer", Lost) /\ UNCHANGED <<back, cached, copied>>
  /\ UNCHANGED <<rendererLeaves, resizedNow>>

RendererShutsDown ==
  /\ Serves("renderer", "busy", "shutdown")
  /\ Answer("renderer", Done) /\ Move("renderer", "closing")
  /\ UNCHANGED <<rendererLeaves, serving, screenVars>>

RendererEnds ==
  /\ Runs("renderer", "closing")
  /\ Move("renderer", "ended")
  /\ UNCHANGED <<rendererLeaves, reply, serving, screenVars>>

\* The window is resized independently of the stream.
WindowResizes ==
  /\ left.resizes > 0 /\ thread["renderer"] \notin {"none", "starting", "ended"}
  /\ back = "stream"
  /\ back' = "window" /\ resizedNow' = TRUE /\ left' = [left EXCEPT !.resizes = @ - 1]
  /\ UNCHANGED <<callerVars, reply, workVars, sender, hung, lifeVars, nativeVars, decoderVars,
                 cached, copied, native>>

----------------------------------------------------------------------------

CallerNext ==
  \/ SpawnWorker \/ SpawnFails \/ StartAnswered \/ StartFails
  \/ TakeJob \/ ResetAnswered \/ DecodeAnswered \/ PresentAnswered \/ CallFails \/ StopRequested
  \/ StopAnswered \/ StopTimesOut \/ JoinBefore \/ JoinDeadline

DecoderNext ==
  \/ DecoderEntersCom \/ DecoderStartsMedia \/ DecoderSelects \/ DecoderStarts
  \/ DecoderRejects \/ DecoderSubmits
  \/ DrainSample \/ DrainNothing
  \/ DecoderResets \/ DecoderShutsDown \/ DecoderEnds
  \/ WorkerReceives("decoder") \/ WorkerDisconnected("decoder")

RendererNext ==
  \/ RendererStarts \/ RendererUploads \/ RendererChecks \/ RendererVerifies
  \/ RendererShutsDown \/ RendererEnds
  \/ WorkerReceives("renderer") \/ WorkerDisconnected("renderer")

ReaperNext(w) == ReaperTakes(w) \/ ReaperJoins(w)

EnvironmentNext ==
  \/ ComUnavailable \/ MediaUnavailable \/ NoTransform \/ ConfigurationRefused
  \/ RendererStartFails \/ InputFails \/ OutputFails \/ FlushFails \/ UploadFails
  \/ TransformSwallows \/ WindowResizes
  \/ \E w \in Workers : DriverBlocks(w) \/ DriverReturns(w)

Next ==
  \/ CallerNext \/ DecoderNext \/ RendererNext \/ EnvironmentNext
  \/ \E w \in Workers : ReaperNext(w)

\* Every thread runs; a blocked driver call need not return.
Fairness ==
  /\ WF_vars(CallerNext) /\ WF_vars(DecoderNext) /\ WF_vars(RendererNext)
  /\ \A w \in Workers : WF_vars(ReaperNext(w))

Spec == Init /\ [][Next]_vars
LiveSpec == Spec /\ Fairness

----------------------------------------------------------------------------
(* Properties *)

Command == [kind : {"start", "reset", "decode", "present", "shutdown"}, req : Nat,
            taken : 0 .. MaxOutputs, body : {None} \cup Job \cup Surface]

\* The variables have the shapes of the code, and no queue exceeds its bound.
TypeOK ==
  /\ pc \in {"spawn", "idle", "join", "gone"} \cup Waiting /\ on \in Workers
  /\ job \in {None} \cup Job /\ call \in Nat /\ jobs \in 0 .. MaxJobs
  /\ reply \in {None, Lost, Done, Missing} \cup {Frame(s) : s \in Surface}
  /\ \A w \in Workers :
       /\ thread[w] \in {"none", "starting", "com", "media", "selected", "ready", "busy", "draining",
                         "uploaded", "resized", "closing", "ended"}
       /\ Len(queue[w]) <= 1 /\ \A i \in 1 .. Len(queue[w]) : queue[w][i] \in Command
       /\ serving[w] \in {None} \cup Command
       /\ handle[w] \in {"none", "slot", "owner", "reaper", "joined", "detached"}
       /\ reaper[w] \in {"none", "spawned", "joining", "done"}
  /\ {gate, ready, started, twins, native, resizedNow} \subseteq BOOLEAN
  /\ {hung, reaping, sender} \subseteq [Workers -> BOOLEAN]
  /\ \A i \in 1 .. Len(inputs) : inputs[i] \in Job
  /\ \A i \in 1 .. Len(surfaces) : surfaces[i] \in Surface
  /\ Len(inputs) <= MaxPending /\ Len(surfaces) <= MaxPending
  /\ back \in Sizes /\ cached \in Sizes \cup {None}

AtStart == thread["decoder"] = "none"

\* copy_buffer_with_stride reads only inside what the native buffer reports, for every
\* enumerated buffer.
BuffersReadInside == AtStart => CopiesStayInside

\* The copied and repacked surface is the picture in the native buffer, sample by sample.
PicturesPreserved == AtStart => PictureKept

\* nv12_to_bgra is within one step of BT.601 for every enumerated filling.
ColoursPreserved == AtStart => ColoursWithinOne

\* A decoded picture reaches the renderer as it is: inside its buffer, whole, in its colours.
SurfacesPreserved == BuffersReadInside /\ PicturesPreserved /\ ColoursPreserved

\* The two keyframe gates never part: whenever the pipeline is ready for its next job, the
\* gate in front of the channel and the one on the decoder thread agree, so a delta the
\* caller lets through is never refused behind the channel.
GatesAgree == pc = "idle" => gate = ready

\* A surface carries the metadata of the frame it shows, in whatever order the transform
\* returns its frames and although it discards some, as long as no two frames waiting in it
\* have the same timestamp: drain_outputs matches by timestamp alone.
OwnMetadata == ~ twins => \A i \in 1 .. Len(surfaces) : surfaces[i].meta = surfaces[i].picture

\* Every place taken in pending_inputs belongs to a frame the transform still holds or one
\* it discarded since the last reset: the limit is reached by these alone, and a discarded
\* frame keeps its place until a reset.
PendingExplained == ~ native => Len(inputs) = Cardinality(inside) + swallowed

\* Caller and decoder thread agree on what the transform holds: its next keyframe, whose
\* metadata is whose, and how many places are taken.
DecoderAgrees == TypeOK /\ GatesAgree /\ OwnMetadata /\ PendingExplained

\* COM and Media Foundation are released exactly once on every way out of the decoder
\* thread, and the transform is used only while Media Foundation is up.
NativeReleased ==
  /\ com \in 0 .. 1 /\ mf \in 0 .. 1
  /\ thread["decoder"] = "ended" => com = 0 /\ mf = 0
  /\ thread["decoder"] \in {"ready", "draining"} => com = 1 /\ mf = 1

\* CopyResource gets two textures of one size, although the window is resized at any time
\* and the size the renderer remembers may be old.
CopyMatches == copied # None => copied.texture = copied.buffer

\* A resize of the window alone does not cost the stream: a surface is refused without a
\* native failure only if the back buffer changed while it was being uploaded.
ResizeSurvived == pc = "present" /\ reply = Lost => native \/ resizedNow

\* A window that changes its size costs neither an invalid copy nor the stream.
ResizeSafe == CopyMatches /\ ResizeSurvived

\* Dropping the pipeline takes bounded time, even with a worker blocked in its driver.
OwnerReturns == pc = "stop" ~> pc = "gone"

\* Once the owner has gone, each worker ends and is joined, unless its driver call never
\* returns; it ends unjoined only where no reaper could be started.
WorkersCollected ==
  \A w \in Workers :
    pc = "gone" ~> \/ hung[w]
                  \/ thread[w] = "none"
                  \/ /\ thread[w] = "ended"
                     /\ handle[w] = "joined" \/ (handle[w] = "detached" /\ reaper[w] = "none")

\* Dropping the pipeline returns, releases what was acquired and collects both threads.
MediaCollected == []NativeReleased /\ OwnerReturns /\ WorkersCollected
============================================================================
