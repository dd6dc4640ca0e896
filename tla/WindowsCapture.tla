--------------------------- MODULE WindowsCapture ---------------------------
(***************************************************************************)
(* The desktop capture source of platform/windows: WindowsCaptureSource on *)
(* its caller's thread, the worker thread that owns the native session     *)
(* (CaptureSession), the two channels of depth one between them, and the   *)
(* WorkerLifecycle that joins the worker, in stop or in a reaper thread.   *)
(***************************************************************************)
EXTENDS CaptureSession

CONSTANTS
  AllowFallback,       \* CaptureConfig::allow_dxgi_fallback
  MaxCalls             \* bound: next_frame calls that reach the worker

ASSUME CallsAssumption == AllowFallback \in BOOLEAN /\ MaxCalls \in Nat

VARIABLES
  state,               \* CaptureState, "none" while start has not returned
  cpc,                 \* what the caller does
  calls,               \* next_frame calls sent to the worker
  commandTx, command,  \* the sender is held; the command channel
  responseRx, response,\* the receiver is held; the response channel
  wpc, serving,        \* the worker, and the call it serves
  handle,              \* who has the JoinHandle: "lifecycle", "caller", "reaper", "nobody"
  reaping, finished,   \* WorkerLifecycle's flags
  reaper,              \* the reaper thread: "none", "spawned", "joining" or "exited"
  panicked,            \* the worker panicked
  unreaped,            \* a reaper could not be spawned
  lostBefore,          \* the item was closed before the call now served
  answer               \* what next_frame returned last, and for which call

callerVars == <<state, cpc, calls, answer>>
channelVars == <<commandTx, command, responseRx, response>>
lifecycleVars == <<handle, reaping, finished, reaper, unreaped>>
workerVars == <<wpc, serving, panicked, lostBefore>>
vars == <<sessionVars, callerVars, channelVars, lifecycleVars, workerVars>>

Nothing == [kind |-> "none"]
Answered(r) == IF r.kind = "Frame" THEN [kind |-> "Frame", call |-> r.call] ELSE r

Init ==
  /\ SessionInit
  /\ state = "none" /\ cpc = "starting" /\ calls = 0 /\ answer = Nothing
  /\ commandTx = TRUE /\ command = <<>> /\ responseRx = TRUE /\ response = <<>>
  /\ wpc = "init" /\ serving = 0 /\ panicked = FALSE /\ lostBefore = FALSE
  /\ handle = "lifecycle" /\ reaping = FALSE /\ finished = FALSE /\ reaper = "none" /\ unreaped = FALSE

UnchangedWorker == UNCHANGED <<workerVars, api, stopped, spc, nativeVars, poolSize, frameId, newest, open,
                               result, drainFailed>>

----------------------------------------------------------------------------
(* WorkerLifecycle *)

\* reap_in_background: at most one reaper, and another try if it cannot be spawned.
ReapInBackground ==
  \/ reaping /\ UNCHANGED <<reaping, reaper, unreaped, faults>>
  \/ ~reaping /\ reaping' = TRUE /\ reaper' = "spawned" /\ UNCHANGED <<unreaped, faults>>
  \/ ~reaping /\ Fault /\ unreaped' = TRUE /\ UNCHANGED <<reaping, reaper>>

\* join_owned_worker on the reaper thread.
ReaperTakes ==
  /\ reaper = "spawned"
  /\ IF handle = "lifecycle"
     THEN handle' = "reaper" /\ reaper' = "joining" /\ UNCHANGED finished
     ELSE reaper' = "exited" /\ finished' = TRUE /\ UNCHANGED handle
  /\ UnchangedWorker /\ UNCHANGED <<callerVars, channelVars, reaping, unreaped, faults>>

ReaperJoins ==
  /\ reaper = "joining" /\ wpc = "exited"
  /\ handle' = "nobody" /\ reaper' = "exited" /\ finished' = TRUE
  /\ UnchangedWorker /\ UNCHANGED <<callerVars, channelVars, reaping, unreaped, faults>>

\* join_before takes the handle, if the lifecycle still has it.
TakeHandle ==
  IF handle = "lifecycle" THEN handle' = "caller" /\ cpc' = "joining"
  ELSE UNCHANGED handle /\ cpc' = "idle"

JoinSucceeds ==
  /\ cpc = "joining" /\ wpc = "exited"
  /\ cpc' = "idle" /\ handle' = "nobody"
  /\ finished' = (finished \/ ~panicked)
  /\ UnchangedWorker
  /\ UNCHANGED <<state, calls, answer, channelVars, reaping, reaper, unreaped, faults>>

\* The deadline passes first: the handle is put back for a reaper.
JoinTimesOut ==
  /\ cpc = "joining" /\ wpc # "exited"
  /\ cpc' = "idle" /\ handle' = "lifecycle"
  /\ ReapInBackground
  /\ UnchangedWorker
  /\ UNCHANGED <<state, calls, answer, channelVars, finished>>

----------------------------------------------------------------------------
(* The caller *)

\* The source never existed for its caller: both channel ends are dropped.
Abandon == commandTx' = FALSE /\ responseRx' = FALSE /\ response' = <<>> /\ UNCHANGED command

StartAnswered ==
  /\ cpc = "starting" /\ response # <<>>
  /\ IF Head(response).ok
     THEN /\ state' = "Running" /\ cpc' = "idle" /\ response' = <<>>
          /\ UNCHANGED <<commandTx, command, responseRx, reaping, reaper, unreaped, faults>>
     ELSE /\ cpc' = "gone" /\ Abandon /\ ReapInBackground /\ UNCHANGED state
  /\ UnchangedWorker /\ UNCHANGED <<calls, answer, handle, finished>>

\* The control timeout passes, or the worker is gone without an answer.
StartFails ==
  /\ cpc = "starting" /\ response = <<>>
  /\ cpc' = "gone" /\ Abandon /\ ReapInBackground
  /\ UnchangedWorker /\ UNCHANGED <<state, calls, answer, handle, finished>>

\* try_send on the command channel: no sender, a full channel and a worker that is gone fail.
CanSend == commandTx /\ command = <<>> /\ wpc # "exited"

\* transition_to_stopped: after it no call reaches the worker again.
TransitionToStopped == state' = "Stopped" /\ commandTx' = FALSE /\ ReapInBackground

NextFrame ==
  /\ cpc = "idle" /\ state = "Running" /\ calls < MaxCalls
  /\ calls' = calls + 1 /\ answer' = Nothing
  /\ IF CanSend
     THEN /\ command' = <<[kind |-> "NextFrame", call |-> calls + 1]>> /\ cpc' = "awaitFrame"
          /\ UNCHANGED <<state, commandTx, reaping, reaper, unreaped, faults>>
     ELSE TransitionToStopped /\ UNCHANGED <<command, cpc>>
  /\ UnchangedWorker /\ UNCHANGED <<responseRx, response, handle, finished>>

\* The worker's answer; a lost device leaves the source recoverable, anything but a frame
\* response stops it.
FrameAnswered ==
  /\ cpc = "awaitFrame" /\ response # <<>>
  /\ cpc' = "idle" /\ response' = <<>> /\ answer' = Answered(Head(response))
  /\ CASE Head(response).kind # "Frame" -> TransitionToStopped
       [] Head(response).kind = "Frame" /\ Head(response).result = "DeviceLost" ->
            state' = "RecoverableLoss" /\ UNCHANGED <<commandTx, reaping, reaper, unreaped, faults>>
       [] OTHER -> UNCHANGED <<state, commandTx, reaping, reaper, unreaped, faults>>
  /\ UnchangedWorker /\ UNCHANGED <<calls, command, responseRx, handle, finished>>

\* Faulty variant: a call that timed out only takes its command back.
FrameTimesOutSoftly ==
  /\ cpc = "awaitFrame" /\ response = <<>>
  /\ cpc' = "idle" /\ answer' = Nothing /\ command' = <<>>
  /\ UNCHANGED <<state, commandTx, reaping, reaper, unreaped, faults>>
  /\ UnchangedWorker /\ UNCHANGED <<calls, responseRx, response, handle, finished>>

\* The control timeout passes, or the worker is gone.
FrameTimesOut ==
  /\ cpc = "awaitFrame" /\ response = <<>>
  /\ cpc' = "idle" /\ answer' = Nothing
  /\ TransitionToStopped
  /\ UnchangedWorker /\ UNCHANGED <<calls, command, responseRx, response, handle, finished>>

\* stop and request_stop: the sender is taken; if Stop cannot be sent the worker is joined
\* at once, otherwise its answer is waited for.
Stop ==
  /\ cpc = "idle" /\ state \in {"Running", "RecoverableLoss"}
  /\ commandTx' = FALSE
  /\ IF CanSend THEN command' = <<[kind |-> "Stop"]>> /\ cpc' = "awaitStop" /\ UNCHANGED <<state, handle>>
     ELSE state' = "Stopped" /\ TakeHandle /\ UNCHANGED command
  /\ UnchangedWorker
  /\ UNCHANGED <<calls, answer, responseRx, response, reaping, finished, reaper, unreaped, faults>>

\* An answer, the timeout, or the worker's end: the source is stopped in any case.
StopEnds ==
  /\ cpc = "awaitStop"
  /\ response' = <<>> /\ state' = "Stopped" /\ TakeHandle
  /\ UnchangedWorker
  /\ UNCHANGED <<calls, answer, commandTx, command, responseRx, reaping, finished, reaper, unreaped, faults>>

\* Faulty variant: only stop joins the worker.
DropWithoutReaper ==
  /\ cpc = "idle"
  /\ cpc' = "gone" /\ state' = "Stopped"
  /\ commandTx' = FALSE /\ responseRx' = FALSE /\ response' = <<>>
  /\ UnchangedWorker /\ UNCHANGED <<calls, answer, command, lifecycleVars, faults>>

\* Drop: a source that is not stopped asks its worker to stop and does not wait.
DropSource ==
  /\ cpc = "idle"
  /\ cpc' = "gone" /\ state' = "Stopped"
  /\ command' = IF state # "Stopped" /\ CanSend THEN <<[kind |-> "Stop"]>> ELSE command
  /\ commandTx' = FALSE /\ responseRx' = FALSE /\ response' = <<>>
  /\ ReapInBackground
  /\ UnchangedWorker /\ UNCHANGED <<calls, answer, handle, finished>>

----------------------------------------------------------------------------
(* The worker *)

UnchangedCaller == UNCHANGED <<callerVars, lifecycleVars, commandTx, responseRx>>
UnchangedFrames == UNCHANGED <<display, allocated, counted, pending, token, arrivals, resizes,
                               poolSize, frameId, newest, open, drainFailed>>
UnchangedPool == UNCHANGED <<pool, arrived, closing>>

\* A send blocks while the channel holds an answer nobody took, and fails without receiver.
Respond(r) == response = <<>> /\ response' = IF responseRx THEN <<r>> ELSE <<>>

Exit == wpc' = "exited" /\ command' = <<>>

\* Which failures of WGC make select_session try DXGI.
FallsBack(e) == AllowFallback /\ e \in {"UnsupportedApi", "DeviceLost"}

\* select_session: WGC, DXGI in its place, or the error that is returned.
SelectSession ==
  {"Wgc"} \union WgcStartErrors
  \union (IF \E e \in WgcStartErrors : FallsBack(e) THEN {"Dxgi"} \union DxgiStartErrors ELSE {})

\* COM cannot be initialised or no session started: Started(Err), and the end.
WorkerInitFails ==
  /\ wpc = "init" /\ Fault
  /\ Respond([kind |-> "Started", ok |-> FALSE]) /\ Exit
  /\ UnchangedCaller /\ UnchangedFrames /\ UnchangedPool
  /\ UNCHANGED <<serving, panicked, lostBefore, api, stopped, spc, result>>

WorkerSelects ==
  /\ wpc = "init"
  /\ api' \in SelectSession \intersect {"Wgc", "Dxgi"}
  /\ wpc' = "announce"
  /\ UnchangedCaller /\ UnchangedFrames /\ UnchangedPool
  /\ UNCHANGED <<command, response, serving, panicked, lostBefore, stopped, spc, result, faults>>

\* Started(Ok): without a receiver the session is stopped again.
WorkerAnnounces ==
  /\ wpc = "announce"
  /\ IF responseRx
     THEN /\ Respond([kind |-> "Started", ok |-> TRUE]) /\ wpc' = "recv"
          /\ UnchangedPool /\ UNCHANGED <<stopped, command>>
     ELSE SessionStop /\ Exit /\ UNCHANGED response
  /\ UnchangedCaller /\ UnchangedFrames
  /\ UNCHANGED <<serving, panicked, lostBefore, api, spc, result, faults>>

WorkerTakesNextFrame ==
  /\ wpc = "recv" /\ command # <<>> /\ Head(command).kind = "NextFrame"
  /\ command' = <<>> /\ serving' = Head(command).call /\ wpc' = "serving"
  /\ spc' = IF api = "Wgc" THEN "wait" ELSE "duplicate"
  /\ lostBefore' = closed
  /\ UnchangedCaller /\ UnchangedFrames /\ UnchangedPool
  /\ UNCHANGED <<response, panicked, api, stopped, result, faults>>

\* The session works on a frame.
WorkerAcquires ==
  /\ wpc = "serving" /\ Acquiring
  /\ UnchangedCaller /\ UNCHANGED <<workerVars, command, response>>

\* The frame, validated by the copy, or the error.
WorkerReplies ==
  /\ wpc = "serving" /\ spc = "done"
  /\ spc' = "ready" /\ result' = "none" /\ serving' = 0
  /\ Respond([kind |-> "Frame", result |-> result, call |-> serving])
  /\ IF responseRx THEN wpc' = "recv" /\ UnchangedPool /\ UNCHANGED <<stopped, command>>
     ELSE SessionStop /\ Exit
  /\ UnchangedCaller /\ UnchangedFrames
  /\ UNCHANGED <<panicked, lostBefore, api, faults>>

WorkerTakesStop ==
  /\ wpc = "recv" /\ command # <<>> /\ Head(command).kind = "Stop"
  /\ command' = <<>> /\ wpc' = "stopped" /\ SessionStop
  /\ UnchangedCaller /\ UnchangedFrames
  /\ UNCHANGED <<response, serving, panicked, lostBefore, api, spc, result, faults>>

WorkerSendsStopped ==
  /\ wpc = "stopped"
  /\ Respond([kind |-> "Stopped"]) /\ Exit
  /\ UnchangedCaller /\ UnchangedFrames /\ UnchangedPool
  /\ UNCHANGED <<serving, panicked, lostBefore, api, stopped, spc, result, faults>>

\* Every sender is gone and the channel is empty.
WorkerDisconnected ==
  /\ wpc = "recv" /\ command = <<>> /\ ~commandTx
  /\ SessionStop /\ Exit
  /\ UnchangedCaller /\ UnchangedFrames
  /\ UNCHANGED <<response, serving, panicked, lostBefore, api, spc, result, faults>>

\* A panic in native code unwinds the worker; its session is dropped, not stopped.
WorkerPanics ==
  /\ wpc = "serving" /\ spc # "done" /\ Fault
  /\ panicked' = TRUE /\ spc' = "ready" /\ newest' = None /\ open' = {} /\ Exit
  /\ pool' = <<>> /\ arrived' = 0 /\ closing' = IF closing = "due" THEN "no" ELSE closing
  /\ UnchangedCaller
  /\ UNCHANGED <<response, serving, lostBefore, api, stopped, result, display, allocated, counted,
                 pending, token, arrivals, resizes, poolSize, frameId, drainFailed>>

----------------------------------------------------------------------------
Caller == \/ StartAnswered \/ StartFails \/ NextFrame \/ FrameAnswered \/ FrameTimesOut
          \/ Stop \/ StopEnds \/ JoinSucceeds \/ JoinTimesOut \/ DropSource
Reaper == ReaperTakes \/ ReaperJoins
Worker == \/ WorkerInitFails \/ WorkerSelects \/ WorkerAnnounces \/ WorkerTakesNextFrame
          \/ WorkerAcquires \/ WorkerReplies \/ WorkerTakesStop \/ WorkerSendsStopped
          \/ WorkerDisconnected \/ WorkerPanics
Session == (Native \/ Handlers) /\ UNCHANGED <<callerVars, channelVars, lifecycleVars, workerVars>>

Next == Caller \/ Reaper \/ Worker \/ Session

Spec == Init /\ [][Next]_vars

\* The operating system runs the worker and the reaper, and native calls return.
LiveSpec == Spec /\ WF_vars(Worker) /\ WF_vars(Reaper)

----------------------------------------------------------------------------
(* Properties *)

\* The variables have their types, and each channel holds one message at most.
TypeOK ==
  /\ state \in {"none", "Running", "RecoverableLoss", "Stopped"}
  /\ cpc \in {"starting", "idle", "awaitFrame", "awaitStop", "joining", "gone"}
  /\ wpc \in {"init", "announce", "recv", "serving", "stopped", "exited"}
  /\ spc \in {"ready", "wait", "drain", "inspect", "duplicate", "done"}
  /\ Len(command) <= 1 /\ Len(response) <= 1 /\ Len(pool) <= PoolBuffers
  /\ api \in {"none", "Wgc", "Dxgi"} /\ (api = "Dxgi" => AllowFallback)
  /\ handle \in {"lifecycle", "caller", "reaper", "nobody"}
  /\ reaper \in {"none", "spawned", "joining", "exited"}
  /\ {stopped, token, counted, commandTx, responseRx, reaping, finished, panicked, unreaped} \subseteq BOOLEAN
  /\ pending \in 0..MaxArrivals /\ frameId \in 0..MaxCalls

\* What next_frame returns answers that very call: a frame the worker finished after the
\* caller's timeout is never handed out by a later call (transition_to_stopped).
AnswersItsCall == answer # Nothing => answer.kind = "Frame" /\ answer.call = calls

\* The worker is never blocked in a send by an answer nobody took, and no command ever
\* finds the channel occupied: TrySendError::Full is an arm that cannot be reached.
ChannelsNeverFull ==
  /\ wpc \in {"announce", "stopped"} \/ spc = "done" => response = <<>>
  /\ cpc = "idle" /\ state \in {"Running", "RecoverableLoss"} => command = <<>>

\* The depth-one channels pair each call with its answer and never block either side.
CallsPaired == TypeOK /\ AnswersItsCall /\ ChannelsNeverFull

\* A frame in the pool is never slept on: while acquire_frame waits and the handlers are
\* done, the token is there, except after a drain that a native error broke off; those frames
\* wait for the next arrival, which a full pool never has.
NoLostWakeup ==
  spc = "wait" /\ pool # <<>> /\ arrived = 0 /\ ~counted => token \/ drainFailed

\* Every native frame taken from the pool is closed by the time next_frame answers, waits
\* again or the worker ends, on every error path: a frame kept open starves a pool of two.
FramesClosed == spc \in {"ready", "wait", "duplicate", "done"} => open = {}

\* A frame that reaches the copy has a texture as large as its content: the pool is recreated
\* before a frame of another size is copied (acquire_frame, copy_bgra_rows).
CopyFits == spc = "inspect" /\ newest.content = poolSize => CopyAccepts(newest)

\* The frame pool never runs dry or stale under acquire_frame: frames in it are not slept
\* on, frames taken from it are closed, and a frame that is copied has the pool's size.
PoolServed == NoLostWakeup /\ FramesClosed /\ CopyFits

\* A call that began after the item was closed reports DeviceLost, never a frame and never a
\* missing frame the caller would retry for, whether the token or the timeout ends its wait.
LossReported ==
  lostBefore /\ spc = "done" /\ api = "Wgc" => result = "DeviceLost"

\* A source that lost its device or was stopped never runs again, and one that is stopped
\* stays stopped.
NeverRevived ==
  [][/\ state = "RecoverableLoss" => state' \in {"RecoverableLoss", "Stopped"}
     /\ state = "Stopped" => state' = "Stopped"]_vars

\* finished means that the worker has exited, its session stopped first unless it panicked
\* or never had one: nothing of the native session outlives the join.
FinishedMeansReleased ==
  /\ finished => wpc = "exited"
  /\ wpc = "exited" /\ api # "none" => stopped \/ panicked

\* A source that is dropped, or whose start failed, is cleaned up: the worker ends and is
\* joined, by a reaper if not by stop, unless no reaper thread could be spawned.
EventuallyReaped == cpc = "gone" ~> wpc = "exited" /\ (finished \/ unreaped)

\* A source that ended stays ended, and what it held is released and joined.
SourceCollected == []FinishedMeansReleased /\ NeverRevived /\ EventuallyReaped

=============================================================================
