--------------------------- MODULE WindowsEncoder ---------------------------
(***************************************************************************)
(* The H.264 encoder of platform/windows: WindowsH264Encoder on the        *)
(* caller's thread, a worker thread that owns the Media Foundation         *)
(* transform, and the hardware behind it.  The caller sends one command at *)
(* a time and waits for its own reply with a timeout.  An asynchronous     *)
(* transform asks for inputs and announces outputs by events, which the    *)
(* worker polls while it serves a command and while it is idle; a          *)
(* synchronous one takes an input and is asked for outputs in one call.    *)
(* Starting is bounded too, and a reaper thread joins the worker.          *)
(***************************************************************************)
EXTENDS Integers, FiniteSets, SequencesExt

CONSTANTS
  MaxCredits,           \* MAX_ASYNC_INPUT_CREDITS
  MaxPending,           \* MAX_PENDING_FRAMES
  Depth,                \* inputs the hardware may ask for ahead
  Scenarios,            \* bounds: frames encoded, other calls made, failures and timeouts,
                        \* and whether the transform is asynchronous
  None

ASSUME BoundsAssumption ==
  /\ {MaxCredits, MaxPending, Depth} \subseteq Nat
  /\ Scenarios \subseteq [frames : Nat, calls : Nat, faults : Nat, async : BOOLEAN]

VARIABLES
  bounds,               \* the scenario; bounds.async is is_async while configured
  op,                   \* what the caller waits for
  config, force,        \* config.is_some() and force_next_keyframe
  keep,                 \* reconfigure's local force_next_keyframe
  tx,                   \* command_tx.is_some()
  chan, reply,          \* the command and the reply under way
  wpc, serving,         \* the worker
  listening, startup,   \* startup_rx and what was sent to it
  com, mf,              \* the COM apartment, and Media Foundation with the transform
  reaping, joiner,      \* WorkerLifecycle.reaping and the reaper thread
  refused,              \* reaper threads that could not be spawned
  streaming,            \* NativeEncoder's config.is_some()
  credits, queued,      \* AsyncPump.input_credits and queued_inputs
  inputs, outputs,      \* pending_inputs and pending_outputs
  held, events,         \* the hardware: inputs it works on, events not yet polled
  issued, submitted,    \* inputs it asked for and was given in this stream
  frames, calls, faults,
  failed,               \* some native call or queue has failed
  stalls,               \* encode calls of this stream answered OutputPending
  owed,                 \* the first frame a requested keyframe may come with
  discarded             \* a reconfiguration drops the frame that carries it

callerVars == <<bounds, op, config, force, keep, tx, frames, calls, stalls, owed, discarded>>
queueVars == <<streaming, credits, queued, inputs, outputs>>
hardwareVars == <<held, events, issued>>
startVars == <<listening, startup>>
nativeVars == <<com, mf>>
reaperVars == <<reaping, joiner, refused>>
vars == <<callerVars, startVars, nativeVars, reaperVars, chan, reply, wpc, serving, queueVars, hardwareVars, submitted, faults, failed>>

MaxFrames == bounds.frames
MaxCalls == bounds.calls
MaxFaults == bounds.faults

Init == /\ bounds \in Scenarios
        /\ op = "new" /\ config = FALSE /\ force = FALSE /\ keep = FALSE /\ tx = TRUE
        /\ chan = None /\ reply = None /\ wpc = "none" /\ serving = None
        /\ listening = TRUE /\ startup = None /\ com = FALSE /\ mf = FALSE
        /\ reaping = FALSE /\ joiner = "none" /\ refused = 0
        /\ streaming = FALSE /\ credits = 0 /\ queued = <<>> /\ inputs = <<>> /\ outputs = <<>>
        /\ held = <<>> /\ events = <<>> /\ issued = 0 /\ submitted = 0
        /\ frames = 0 /\ calls = 0 /\ faults = 0 /\ failed = FALSE /\ stalls = 0 /\ owed = None
        /\ discarded = FALSE

Least(m, n) == IF m < n THEN m ELSE n

Fault == faults < MaxFaults /\ faults' = faults + 1 /\ failed' = TRUE
NoFault == UNCHANGED <<faults, failed>>

----------------------------------------------------------------------------
(* The caller *)

\* MediaFoundationTransform::request: a worker that is gone is BackendLost at once.
Request(cmd, waiting) ==
  IF tx /\ wpc # "exited"
  THEN op' = waiting /\ chan' = cmd /\ reply' = None /\ UNCHANGED tx
  ELSE op' = waiting /\ reply' = [kind |-> "error"] /\ tx' = FALSE /\ UNCHANGED chan

UnchangedWorker ==
  UNCHANGED <<bounds, serving, nativeVars, queueVars, hardwareVars, submitted>>

\* A step of a running encoder's caller that no thread start is part of.
CallerOnly == UnchangedWorker /\ UNCHANGED <<wpc, startVars, reaperVars>> /\ NoFault

UnchangedCalls == UNCHANGED <<config, force, keep, frames, calls, stalls, owed, discarded>>

\* reap_in_background: one reaper; the flag is reset when its thread cannot be spawned.
Reap ==
  \/ reaping /\ NoFault /\ UNCHANGED reaperVars
  \/ ~reaping /\ reaping' = TRUE /\ joiner' = "running" /\ NoFault /\ UNCHANGED refused
  \/ ~reaping /\ Fault /\ refused' = refused + 1 /\ UNCHANGED <<reaping, joiner>>

\* MediaFoundationTransform::start spawns the worker.
Start ==
  /\ op = "new"
  /\ \/ op' = "starting" /\ wpc' = "com" /\ NoFault
     \/ op' = "failed" /\ Fault /\ UNCHANGED wpc
  /\ UnchangedWorker /\ UnchangedCalls
  /\ UNCHANGED <<startVars, reaperVars, tx, chan, reply>>

\* The worker is up, or it could not start and is left to the reaper.
Started ==
  /\ op = "starting" /\ startup # None
  /\ listening' = FALSE /\ UNCHANGED startup
  /\ IF startup = "ok" THEN op' = "idle" /\ NoFault /\ UNCHANGED <<tx, reaperVars>>
     ELSE op' = "failed" /\ tx' = FALSE /\ Reap
  /\ UnchangedWorker /\ UnchangedCalls /\ UNCHANGED <<wpc, chan, reply>>

\* STARTUP_TIMEOUT: the reaper is started while both channels are still open.
StartTimesOut ==
  /\ op = "starting" /\ startup = None
  /\ op' = "abandoning"
  /\ UnchangedWorker /\ UnchangedCalls /\ Fault
  /\ UNCHANGED <<wpc, startVars, reaperVars, tx, chan, reply>>

StartReaps ==
  /\ op = "abandoning" /\ op' = "leaving" /\ Reap
  /\ UnchangedWorker /\ UnchangedCalls /\ UNCHANGED <<wpc, startVars, tx, chan, reply>>

\* Faulty variant: the command channel stays open after a failed start.
StartLeavesOpen ==
  /\ op = "leaving" /\ op' = "failed" /\ listening' = FALSE
  /\ UnchangedWorker /\ UnchangedCalls /\ NoFault
  /\ UNCHANGED <<wpc, startup, reaperVars, tx, chan, reply>>

\* start returns and drops both channels.
StartLeaves ==
  /\ op = "leaving" /\ op' = "failed" /\ listening' = FALSE /\ tx' = FALSE
  /\ UnchangedWorker /\ UnchangedCalls /\ NoFault
  /\ UNCHANGED <<wpc, startup, reaperVars, chan, reply>>

Configure ==
  /\ op = "idle" /\ ~config /\ calls < MaxCalls
  /\ calls' = calls + 1
  /\ Request([kind |-> "configure"], "configure")
  /\ keep' = TRUE
  /\ CallerOnly
  /\ UNCHANGED <<config, force, frames, stalls, owed, discarded>>

Encode ==
  /\ op = "idle" /\ config /\ frames < MaxFrames
  /\ frames' = frames + 1
  /\ Request([kind |-> "encode", id |-> frames + 1, forced |-> force], "encode")
  /\ CallerOnly
  /\ UNCHANGED <<config, force, keep, calls, stalls, owed, discarded>>

RequestKeyframe ==
  /\ op = "idle" /\ config /\ calls < MaxCalls
  /\ calls' = calls + 1 /\ force' = TRUE /\ owed' = frames + 1 /\ discarded' = FALSE
  /\ CallerOnly
  /\ UNCHANGED <<op, config, keep, tx, frames, stalls, chan, reply>>

\* Faulty variant: only the new size counts.
KeepsForceIfResized(resized) == resized

\* A new size forces a keyframe; a new bitrate keeps what was asked for.
KeepsForce(resized) == force \/ resized

\* reconfigure of a configured encoder: the drain comes first.
Reconfigure(resized) ==
  /\ op = "idle" /\ config /\ calls < MaxCalls
  /\ calls' = calls + 1 /\ config' = FALSE /\ keep' = KeepsForce(resized)
  /\ discarded' = (owed # None /\ ~force /\ ~resized)
  /\ Request([kind |-> "drain"], "drain")
  /\ CallerOnly
  /\ UNCHANGED <<force, frames, stalls, owed>>

\* The reply of the drain within reconfigure.
Drained ==
  /\ op = "drain" /\ reply # None
  /\ IF reply.kind = "ok" THEN Request([kind |-> "configure"], "configure")
     ELSE op' = "idle" /\ reply' = None /\ tx' = FALSE /\ UNCHANGED chan
  /\ CallerOnly
  /\ UNCHANGED <<config, force, keep, frames, calls, stalls, owed, discarded>>

Configured ==
  /\ op = "configure" /\ reply # None
  /\ op' = "idle" /\ reply' = None
  /\ IF reply.kind = "ok"
     THEN /\ config' = TRUE /\ force' = keep /\ stalls' = 0 /\ UNCHANGED tx
          /\ owed' = IF keep THEN frames + 1 ELSE owed
     ELSE tx' = FALSE /\ UNCHANGED <<config, force, stalls, owed>>
  /\ CallerOnly
  /\ UNCHANGED <<keep, frames, calls, chan, discarded>>

\* A frame, OutputPending, or an error, after which the worker is given up.
Encoded ==
  /\ op = "encode" /\ reply # None
  /\ op' = "idle" /\ reply' = None
  /\ CASE reply.kind = "frame" ->
            /\ force' = FALSE /\ UNCHANGED <<tx, stalls>>
            /\ owed' = IF owed # None /\ reply.key /\ reply.id >= owed THEN None ELSE owed
       [] reply.kind = "pending" ->
            force' = FALSE /\ stalls' = stalls + 1 /\ UNCHANGED <<tx, owed>>
       [] OTHER -> tx' = FALSE /\ UNCHANGED <<force, stalls, owed>>
  /\ CallerOnly
  /\ UNCHANGED <<config, keep, frames, calls, chan, discarded>>

\* receive_response gives up; a later reply goes to a channel nobody reads.
TimesOut ==
  /\ op \in {"configure", "encode", "drain", "dropping"} /\ reply = None
  /\ op' = (IF op = "dropping" THEN "stopping" ELSE "idle") /\ tx' = FALSE
  /\ UnchangedWorker /\ UnchangedCalls /\ Fault
  /\ UNCHANGED <<wpc, startVars, reaperVars, chan, reply>>

\* Drop: a configured encoder is drained first.
DropEncoder ==
  /\ op = "idle"
  /\ config' = FALSE
  /\ IF config THEN Request([kind |-> "drain"], "dropping")
     ELSE op' = "stopping" /\ UNCHANGED <<tx, chan, reply>>
  /\ CallerOnly
  /\ UNCHANGED <<force, keep, frames, calls, stalls, owed, discarded>>

DropDrained ==
  /\ op = "dropping" /\ reply # None
  /\ op' = "stopping" /\ reply' = None /\ tx' = (tx /\ reply.kind = "ok")
  /\ CallerOnly /\ UnchangedCalls /\ UNCHANGED chan

\* stop_worker: Shutdown is sent if it can be, the sender dropped, the worker reaped; once
\* from the encoder's drop and once more from the transform's.
StopWorker ==
  /\ op \in {"stopping", "stopped"}
  /\ op' = IF op = "stopping" THEN "stopped" ELSE "dropped"
  /\ tx' = FALSE
  /\ chan' = IF tx /\ wpc # "exited" THEN [kind |-> "shutdown"] ELSE chan
  /\ Reap
  /\ UnchangedWorker /\ UnchangedCalls /\ UNCHANGED <<wpc, startVars, reply>>

----------------------------------------------------------------------------
(* The worker *)

UnchangedCaller == UNCHANGED <<callerVars, startVars, nativeVars, reaperVars>>
UnchangedStream == UNCHANGED <<queueVars, hardwareVars, submitted>>

\* The answer to start, which may have given up.
Announce(answer) == startup' = IF listening THEN answer ELSE startup

WorkerEntersCom ==
  /\ wpc = "com"
  /\ \/ com' = TRUE /\ wpc' = "media" /\ NoFault /\ UNCHANGED startup
     \/ wpc' = "exited" /\ Announce("error") /\ Fault /\ UNCHANGED com
  /\ UnchangedStream /\ UNCHANGED <<callerVars, listening, mf, reaperVars, chan, reply, serving>>

\* NativeEncoder::start: MFStartup and the selection of the transform, undone if it fails.
WorkerStartsMedia ==
  /\ wpc = "media"
  /\ \/ mf' = TRUE /\ wpc' = "announce" /\ NoFault /\ UNCHANGED <<startup, com>>
     \/ wpc' = "exited" /\ com' = FALSE /\ Announce("error") /\ Fault /\ UNCHANGED mf
  /\ UnchangedStream /\ UNCHANGED <<callerVars, listening, reaperVars, chan, reply, serving>>

\* A start nobody waits for any more is undone.
WorkerAnnounces ==
  /\ wpc = "announce"
  /\ Announce("ok")
  /\ IF listening THEN wpc' = "recv" /\ UNCHANGED nativeVars
     ELSE wpc' = "exited" /\ com' = FALSE /\ mf' = FALSE
  /\ UnchangedStream /\ NoFault
  /\ UNCHANGED <<callerVars, listening, reaperVars, chan, reply, serving>>

\* A reply to a caller that has given up is lost.
Reply(r) == reply' = IF tx THEN r ELSE reply

\* Faulty variant: one flag instead of a count of requests.
ObserveFlag(st, event) ==
  IF event.kind = "need" THEN [st EXCEPT !.credits = 1]
  ELSE [st EXCEPT !.inputs = SelectSeq(@, LAMBDA i : i.id # event.id),
                  !.outputs = Append(@, [id |-> event.id, key |-> event.key])]

\* One event: a request is one credit; an output is matched to its input by timestamp,
\* refused when it is not the keyframe asked for, and queued.
Observe(st, event) ==
  IF ~st.ok THEN st
  ELSE IF event.kind = "need"
  THEN IF st.credits < MaxCredits THEN [st EXCEPT !.credits = @ + 1] ELSE [st EXCEPT !.ok = FALSE]
  ELSE LET rest == SelectSeq(st.inputs, LAMBDA i : i.id # event.id) IN
       IF (event.forced /\ ~event.key) \/ Len(st.outputs) = MaxPending
       THEN [st EXCEPT !.ok = FALSE, !.inputs = rest]
       ELSE [st EXCEPT !.inputs = rest,
                       !.outputs = Append(@, [id |-> event.id, key |-> event.key])]

Observed(st, news) ==
  LET after[n \in 0..Len(news)] == IF n = 0 THEN st ELSE Observe(after[n - 1], news[n])
  IN  after[Len(news)]

\* poll_async_events empties the event queue.
Polled ==
  Observed([credits |-> credits, inputs |-> inputs, outputs |-> outputs, ok |-> TRUE], events)

\* An error ends an idle worker; while serving it is the reply.
Failing == IF serving = None THEN wpc' = "closing" /\ UNCHANGED <<reply, serving>>
           ELSE wpc' = "recv" /\ serving' = None /\ Reply([kind |-> "error"])

\* Nothing is left of a stream once it is drained and flushed, or configured.
NewStream(on) ==
  /\ streaming' = on /\ credits' = 0 /\ queued' = <<>> /\ inputs' = <<>> /\ outputs' = <<>>
  /\ held' = <<>> /\ events' = <<>> /\ issued' = 0 /\ submitted' = 0

WorkerConfigures ==
  /\ wpc = "recv" /\ chan # None /\ chan.kind = "configure"
  /\ chan' = None
  /\ \/ NewStream(TRUE) /\ Reply([kind |-> "ok"]) /\ NoFault
     \/ Fault /\ Reply([kind |-> "error"]) /\ UNCHANGED <<queueVars, hardwareVars, submitted>>
  /\ UnchangedCaller /\ UNCHANGED <<wpc, serving>>

\* The input is queued behind the transform's credits.
WorkerTakesFrame ==
  /\ bounds.async /\ wpc = "recv" /\ chan # None /\ chan.kind = "encode"
  /\ chan' = None
  /\ \/ /\ Len(queued) < MaxCredits
        /\ queued' = Append(queued, [id |-> chan.id, forced |-> chan.forced])
        /\ wpc' = "poll" /\ serving' = chan /\ NoFault /\ UNCHANGED reply
     \/ /\ Len(queued) = MaxCredits
        /\ Reply([kind |-> "error"]) /\ failed' = TRUE /\ UNCHANGED <<wpc, serving, queued, faults>>
     \/ Fault /\ Reply([kind |-> "error"]) /\ UNCHANGED <<wpc, serving, queued>>
  /\ UnchangedCaller /\ UNCHANGED <<streaming, credits, inputs, outputs, hardwareVars, submitted>>

\* The outputs of the oldest n inputs of given, as the hardware announces them.
OutputsOf(given, keys) ==
  [i \in DOMAIN keys |-> [kind |-> "output", id |-> given[i].id, forced |-> given[i].forced,
                          key |-> keys[i]]]

Disobeyed(outs) == \E i \in DOMAIN outs : outs[i].forced /\ ~outs[i].key

\* A synchronous transform takes the input at once and is then asked for outputs as long as
\* it reports an incomplete one.
WorkerEncodesNow ==
  /\ ~bounds.async /\ wpc = "recv" /\ chan # None /\ chan.kind = "encode"
  /\ chan' = None
  /\ LET input == [id |-> chan.id, forced |-> chan.forced]
         given == Append(held, input) IN
     \/ /\ Len(inputs) = MaxPending
        /\ held' = given /\ Reply([kind |-> "error"]) /\ failed' = TRUE
        /\ UNCHANGED <<wpc, serving, inputs, outputs, faults>>
     \/ /\ Len(inputs) < MaxPending
        /\ \E n \in 0..Len(given) : \E keys \in [1..n -> BOOLEAN] :
             LET outs == OutputsOf(given, keys)
                 st == Observed([credits |-> 0, inputs |-> Append(inputs, input),
                                 outputs |-> outputs, ok |-> TRUE], outs) IN
             /\ inputs' = st.inputs /\ outputs' = st.outputs
             /\ held' = SubSeq(given, n + 1, Len(given))
             /\ IF Disobeyed(outs) THEN faults < MaxFaults /\ faults' = faults + 1
                ELSE UNCHANGED faults
             /\ IF st.ok THEN wpc' = "answer" /\ serving' = chan /\ UNCHANGED <<reply, failed>>
                ELSE Reply([kind |-> "error"]) /\ failed' = TRUE /\ UNCHANGED <<wpc, serving>>
     \/ Fault /\ Reply([kind |-> "error"]) /\ UNCHANGED <<wpc, serving, inputs, outputs, held>>
  /\ UnchangedCaller /\ UNCHANGED <<streaming, credits, queued, events, issued, submitted>>

\* No command for a while: the worker pumps events.
WorkerIdlePump ==
  /\ wpc = "recv" /\ chan = None /\ tx /\ streaming
  /\ events # <<>> \/ (queued # <<>> /\ credits > 0)
  /\ wpc' = "poll" /\ serving' = None
  /\ UnchangedCaller /\ NoFault
  /\ UNCHANGED <<chan, reply, queueVars, hardwareVars, submitted>>

WorkerPolls ==
  /\ wpc \in {"poll", "repoll"}
  /\ LET st == Polled IN
     /\ credits' = st.credits /\ inputs' = st.inputs /\ outputs' = st.outputs
     /\ IF ~st.ok THEN Failing /\ failed' = TRUE
        ELSE /\ wpc' = CASE wpc = "poll" -> "submit"
                         [] wpc = "repoll" /\ serving # None -> "answer"
                         [] OTHER -> "recv"
             /\ UNCHANGED <<reply, serving, failed>>
  /\ events' = <<>>
  /\ UnchangedCaller /\ UNCHANGED <<chan, streaming, queued, held, issued, submitted, faults>>

\* take_ready_input is repeated while an input and a credit are there.
ReadyInputs == Least(Len(queued), credits)

\* submit_credited_inputs: one credit for each input given to the transform.
WorkerSubmits ==
  /\ wpc = "submit"
  /\ LET n == ReadyInputs
         room == MaxPending - Len(inputs)
         given == Least(n, room + 1) IN
     /\ queued' = SubSeq(queued, given + 1, Len(queued))
     /\ credits' = credits - given /\ submitted' = submitted + given
     /\ held' = held \o SubSeq(queued, 1, given)
     /\ inputs' = inputs \o SubSeq(queued, 1, Least(n, room))
     /\ IF n > room THEN Failing /\ failed' = TRUE
        ELSE wpc' = "repoll" /\ UNCHANGED <<reply, serving, failed>>
  /\ UnchangedCaller /\ UNCHANGED <<chan, streaming, outputs, events, issued, faults>>

\* take_pending_output: the oldest output, or OutputPending.
WorkerAnswers ==
  /\ wpc = "answer"
  /\ wpc' = "recv" /\ serving' = None
  /\ IF outputs = <<>> THEN Reply([kind |-> "pending"]) /\ UNCHANGED outputs
     ELSE /\ Reply([kind |-> "frame", id |-> Head(outputs).id, key |-> Head(outputs).key])
          /\ outputs' = Tail(outputs)
  /\ UnchangedCaller /\ NoFault
  /\ UNCHANGED <<chan, streaming, credits, queued, inputs, hardwareVars, submitted>>

\* A native call fails in the middle of a pump.
WorkerFails ==
  /\ wpc \in {"poll", "submit", "repoll"}
  /\ Fault /\ Failing
  /\ UnchangedCaller /\ UNCHANGED <<chan, queueVars, hardwareVars, submitted>>

\* The outputs that come while the stream drains are all accepted.
Drains ==
  LET late == IF bounds.async THEN Len(inputs) ELSE Least(Len(inputs), 1)
  IN  Polled.ok /\ late + Len(outputs) <= MaxPending

\* drain: the outputs an asynchronous transform announces until it has drained, or the first
\* one of a synchronous transform, are queued, which fails when one is refused or they are
\* too many; then everything is discarded in any case.
WorkerDrains ==
  /\ wpc = "recv" /\ chan # None /\ chan.kind = "drain"
  /\ chan' = None /\ NewStream(FALSE)
  /\ \/ Drains /\ Reply([kind |-> "ok"]) /\ NoFault
     \/ ~Drains /\ Reply([kind |-> "error"]) /\ failed' = TRUE /\ UNCHANGED faults
     \/ streaming /\ Fault /\ Reply([kind |-> "error"])
  /\ UnchangedCaller /\ UNCHANGED <<wpc, serving>>

\* Shutdown is asked for, all senders are gone, or an idle pump failed.  A command left in
\* the channel fails its caller.
WorkerShutsDown ==
  /\ \/ wpc = "closing"
     \/ wpc = "recv" /\ (IF chan = None THEN ~tx ELSE chan.kind = "shutdown")
  /\ wpc' = "exited" /\ chan' = None /\ NewStream(FALSE)
  /\ com' = FALSE /\ mf' = FALSE
  /\ IF chan = None THEN UNCHANGED reply ELSE Reply([kind |-> "error"])
  /\ UNCHANGED <<callerVars, startVars, reaperVars, serving>> /\ NoFault

\* join_owned_worker, on the reaper's thread.
ReaperJoins ==
  /\ joiner = "running" /\ wpc = "exited"
  /\ joiner' = "done"
  /\ UnchangedStream /\ NoFault
  /\ UNCHANGED <<callerVars, startVars, nativeVars, reaping, refused, chan, reply, wpc, serving>>

----------------------------------------------------------------------------
(* The hardware *)

HardwareAsks ==
  /\ bounds.async /\ streaming /\ issued - submitted < Depth
  /\ issued' = issued + 1 /\ events' = Append(events, [kind |-> "need"])
  /\ UnchangedCaller /\ NoFault
  /\ UNCHANGED <<chan, reply, wpc, serving, queueVars, held, submitted>>

\* The oldest input is encoded; a forced keyframe is one unless the hardware disobeys.
HardwareEncodes ==
  /\ bounds.async /\ held # <<>>
  /\ \E key \in BOOLEAN :
       /\ events' = Append(events, [kind |-> "output", id |-> Head(held).id,
                                    forced |-> Head(held).forced, key |-> key])
       /\ IF Head(held).forced /\ ~key
          THEN faults < MaxFaults /\ faults' = faults + 1 /\ UNCHANGED failed
          ELSE NoFault
  /\ held' = Tail(held)
  /\ UnchangedCaller
  /\ UNCHANGED <<chan, reply, wpc, serving, queueVars, issued, submitted>>

----------------------------------------------------------------------------
Caller == \/ Start \/ Started \/ StartTimesOut \/ StartReaps \/ StartLeaves
          \/ Configure \/ Encode \/ RequestKeyframe \/ (\E resized \in BOOLEAN : Reconfigure(resized))
          \/ Drained \/ Configured \/ Encoded \/ TimesOut \/ DropEncoder \/ DropDrained \/ StopWorker

Worker == \/ WorkerEntersCom \/ WorkerStartsMedia \/ WorkerAnnounces
          \/ WorkerConfigures \/ WorkerTakesFrame \/ WorkerEncodesNow \/ WorkerIdlePump \/ WorkerPolls \/ WorkerSubmits
          \/ WorkerAnswers \/ WorkerFails \/ WorkerDrains \/ WorkerShutsDown

Hardware == HardwareAsks \/ HardwareEncodes

Next == Caller \/ Worker \/ ReaperJoins \/ Hardware

Spec == Init /\ [][Next]_vars

\* The operating system runs the worker and the reaper, and native calls return.
LiveSpec == Spec /\ WF_vars(Worker) /\ WF_vars(ReaperJoins)

----------------------------------------------------------------------------
(* Properties *)

Frame == [id : 1..MaxFrames, forced : BOOLEAN]
Output == [id : 1..MaxFrames, key : BOOLEAN]

\* The variables have their types, and the worker's queues keep within their bounds.
TypeOK ==
  /\ op \in {"new", "starting", "abandoning", "leaving", "failed", "idle", "configure", "encode",
             "drain", "dropping", "stopping", "stopped", "dropped"}
  /\ wpc \in {"none", "com", "media", "announce", "recv", "poll", "submit", "repoll", "answer",
              "closing", "exited"}
  /\ {config, force, keep, tx, streaming, failed, discarded, listening, com, mf, reaping}
       \subseteq BOOLEAN
  /\ startup \in {None, "ok", "error"} /\ joiner \in {"none", "running", "done"}
  /\ credits \in 0..MaxCredits /\ Len(queued) <= MaxCredits
  /\ Len(inputs) <= MaxPending /\ Len(outputs) <= MaxPending
  /\ Range(queued \o inputs \o held) \subseteq Frame /\ Range(outputs) \subseteq Output
  /\ owed \in 1..(MaxFrames + 1) \union {None} /\ stalls \in 0..MaxFrames
  /\ issued \in Nat /\ submitted \in Nat

\* No request of the asynchronous transform is lost or counted twice: what it asked for is
\* what it was given, plus the credits at hand, plus the requests not polled yet (AsyncPump,
\* AsyncInputScheduler).
CreditsExact ==
  streaming /\ ~failed =>
    issued = submitted + credits + Len(SelectSeq(events, LAMBDA e : e.kind = "need"))

\* Every frame an encode call accepted is still under way or was answered exactly once, so
\* between calls the frames under way are as many as the calls answered OutputPending: the
\* latency an encoder has gathered never shrinks before it is reconfigured.
LatencyIsStalls ==
  streaming /\ config /\ op = "idle" /\ ~failed =>
    Len(queued) + Len(inputs) + Len(outputs) = stalls

\* Frames and requests are accounted for at every step: no credit and no frame is lost or
\* counted twice between the caller, the pump and the transform.
FramesAccounted == TypeOK /\ CreditsExact /\ LatencyIsStalls

\* A keyframe that request_keyframe or configure asked for is not forgotten: until a keyframe
\* is answered, the flag is set or a frame under way carries it, except after a
\* reconfiguration of the bitrate alone dropped that frame.
KeyframeKept ==
  owed # None /\ op \notin {"dropping", "stopping", "stopped", "dropped"} =>
    \/ force \/ failed \/ discarded
    \/ keep /\ op \in {"drain", "configure"}
    \/ \E f \in Range(queued) \union Range(inputs) : f.forced /\ f.id >= owed
    \/ \E f \in Range(outputs) : f.key /\ f.id >= owed
    \/ reply # None /\ reply.kind = "frame" /\ reply.key /\ reply.id >= owed

\* Media Foundation and the transform live inside the COM apartment, a stream only inside
\* them, and all are released before the worker's thread ends, whichever stage of the start
\* failed, whoever stopped waiting, and whatever the pump met: a joined worker is a clean one
\* (worker_main, NativeEncoder::start, NativeEncoder::shutdown).
EndedIsClean ==
  /\ streaming => mf
  /\ mf => com
  /\ wpc = "exited" \/ joiner = "done" => ~com /\ ~mf /\ wpc = "exited"

Over == op \in {"dropped", "failed"}

\* A dropped encoder, or one that could not be started in time, ends its worker, whatever
\* call timed out before, whatever command is still in the channel, and also when the worker
\* announced itself after start had given up (start, stop_worker, worker_main).
DropEndsWorker == Over ~> wpc \in {"none", "exited"}

\* The worker is joined unless the reaper's thread could not be spawned: once after a failed
\* start, twice for an encoder that is dropped (reap_in_background, join_owned_worker).
JoinedUnlessRefused ==
  ((op = "dropped" /\ refused < 2) \/ (op = "failed" /\ wpc # "none" /\ refused = 0))
    ~> joiner = "done"

\* The worker is collected: it ends, clean, and is joined unless no reaper could be spawned,
\* whether the encoder was dropped or never started.
WorkerCollected == []EndedIsClean /\ DropEndsWorker /\ JoinedUnlessRefused

=============================================================================
