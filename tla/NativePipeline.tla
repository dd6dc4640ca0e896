--------------------------- MODULE NativePipeline ---------------------------
(***************************************************************************)
(* NativePipeline of nexus-client: the runtime's task hands access units   *)
(* to a worker thread through a slot of depth one, bumps a generation when *)
(* the transport is lost, and asks the worker to stop.  The slot is guarded*)
(* by a mutex with a condition variable; the generation and the stop flag  *)
(* are atomics outside it.  The worker decodes with Media Foundation,      *)
(* whose outputs may lag behind its inputs, and presents.                  *)
(***************************************************************************)
EXTENDS Integers, SequencesExt

CONSTANTS
  MaxPending,           \* MAX_PENDING_DECODED_FRAMES
  MaxSubmits,           \* bound: jobs submitted
  MaxResets,            \* bound: reconnects
  MaxErrors,            \* bound: native calls that fail
  None

ASSUME BoundsAssumption ==
  MaxPending \in Nat \ {0} /\ MaxSubmits \in Nat /\ MaxResets \in Nat /\ MaxErrors \in Nat

VARIABLES
  rt,                   \* what the runtime's task is doing
  generation, stop,     \* the shared atomics
  slot,                 \* the pending job
  held,                 \* the worker holds the slot's mutex
  error,                \* an error waits in the errors channel
  wpc,                  \* where the worker is
  job,                  \* the job it took
  worker_generation,
  initialized,          \* DecoderGate
  inputs, surfaces,     \* pending_inputs and pending_surfaces of NativeDecoder
  presenting,           \* the surface about to be presented
  epochStart,           \* the first access unit given to the transform since its last flush
  shown, stale,         \* the last surface presented; how many of an old generation since
                        \* the last reset
  atReset,              \* where the worker was at the last reset
  dropped,              \* the pipeline's own Drop has run
  missed,               \* the last notification of the stop flag found the worker about to wait
  submits, errors

runtimeVars == <<rt, generation, stop, submits, missed, dropped>>
decoderVars == <<worker_generation, initialized, inputs, surfaces, epochStart>>
screenVars == <<presenting, shown, stale, atReset>>
vars == <<runtimeVars, slot, held, error, wpc, job, decoderVars, screenVars, errors>>

Init == /\ rt = "starting" /\ generation = 0 /\ stop = FALSE /\ slot = None /\ held = FALSE
        /\ error = FALSE /\ wpc = "starting" /\ job = None /\ worker_generation = 0
        /\ initialized = FALSE /\ inputs = <<>> /\ surfaces = <<>> /\ presenting = None
        /\ epochStart = None /\ shown = None /\ stale = 0 /\ atReset = None
        /\ missed = FALSE /\ dropped = FALSE /\ submits = 0 /\ errors = 0

\* notify_one wakes a worker that waits, and is lost on one that does not wait yet.
Notify == wpc' = IF wpc = "asleep" THEN "lock" ELSE wpc

Finished == wpc = "exited"

----------------------------------------------------------------------------
(* The runtime's task *)

\* start receives the worker's answer in time.
Started ==
  /\ rt = "starting" /\ wpc # "starting"
  /\ rt' = IF Finished THEN "joining" ELSE "up"
  /\ stop' = Finished
  /\ UNCHANGED <<generation, submits, missed, dropped, slot, held, error, wpc, job, decoderVars,
                 screenVars, errors>>

\* recv_timeout gives up; the stop flag is set a moment later, nobody is notified, and
\* the worker is joined without a deadline.
StartTimesOut ==
  /\ rt = "starting" /\ wpc = "starting"
  /\ rt' = "abandoning"
  /\ UNCHANGED <<generation, stop, submits, missed, dropped, slot, held, error, wpc, job, decoderVars,
                 screenVars, errors>>

StartAbandons ==
  /\ rt = "abandoning"
  /\ rt' = "reaping" /\ stop' = TRUE /\ missed' = (wpc \in {"waiting", "asleep"})
  /\ dropped' = TRUE
  /\ UNCHANGED <<generation, submits, slot, held, error, wpc, job, decoderVars, screenVars, errors>>

\* poll_error finds an error, or submit a dead worker: the runtime then fails closed.
PipelineError ==
  /\ rt = "up" /\ (error \/ Finished)
  /\ rt' = "failing" /\ error' = FALSE
  /\ UNCHANGED <<generation, stop, submits, missed, dropped, slot, held, wpc, job, decoderVars,
                 screenVars, errors>>

\* Faulty variant: the worker is not notified.
SubmitSilently(key) ==
  /\ rt = "up" /\ ~error /\ ~Finished /\ ~held /\ submits < MaxSubmits
  /\ slot' = [generation |-> generation, keyframe |-> key]
  /\ submits' = submits + 1
  /\ UNCHANGED <<rt, generation, stop, missed, dropped, held, error, wpc, job, decoderVars, screenVars,
                 errors>>

\* The job replaces the one that still waits.
Submit(key) ==
  /\ rt = "up" /\ ~error /\ ~Finished /\ ~held /\ submits < MaxSubmits
  /\ slot' = [generation |-> generation, keyframe |-> key]
  /\ Notify /\ submits' = submits + 1
  /\ UNCHANGED <<rt, generation, stop, missed, dropped, held, error, job, decoderVars, screenVars,
                 errors>>

\* reset_for_reconnect: the generation first, the slot when its mutex is free.
ResetGeneration ==
  /\ rt = "up" /\ generation < MaxResets
  /\ rt' = "resetting" /\ generation' = generation + 1 /\ stale' = 0 /\ atReset' = wpc
  /\ UNCHANGED <<stop, submits, missed, dropped, slot, held, error, wpc, job, decoderVars, presenting,
                 shown, errors>>

ResetSlot ==
  /\ rt = "resetting" /\ ~held
  /\ rt' = "up" /\ slot' = None /\ Notify
  /\ UNCHANGED <<generation, stop, submits, missed, dropped, held, error, job, decoderVars, screenVars,
                 errors>>

\* shutdown, called by fail_closed, which ClientRuntime's Drop calls too.
ShutdownStop ==
  /\ rt \in {"up", "failing"}
  /\ rt' = "stopping" /\ stop' = TRUE
  /\ UNCHANGED <<generation, submits, missed, dropped, slot, held, error, wpc, job, decoderVars,
                 screenVars, errors>>

ShutdownNotify ==
  /\ rt = "stopping"
  /\ rt' = "joining" /\ Notify /\ missed' = (wpc = "waiting")
  /\ UNCHANGED <<generation, stop, submits, dropped, slot, held, error, job, decoderVars, screenVars,
                 errors>>

ShutdownJoins ==
  /\ rt = "joining" /\ Finished
  /\ rt' = "joined"
  /\ UNCHANGED <<generation, stop, submits, missed, dropped, slot, held, error, wpc, job, decoderVars,
                 screenVars, errors>>

\* The deadline passes: a reaper thread owns the handle and joins it.
ShutdownTimesOut ==
  /\ rt = "joining" /\ ~Finished
  /\ rt' = "reaping"
  /\ UNCHANGED <<generation, stop, submits, missed, dropped, slot, held, error, wpc, job, decoderVars,
                 screenVars, errors>>

\* The pipeline's own Drop calls shutdown once more: only the notification is left to do.
ShutdownAgain ==
  /\ rt \in {"joined", "reaping"} /\ ~dropped
  /\ dropped' = TRUE /\ Notify /\ missed' = (wpc = "waiting")
  /\ UNCHANGED <<rt, generation, stop, submits, slot, held, error, job, decoderVars, screenVars,
                 errors>>

ReaperJoins ==
  /\ rt = "reaping" /\ Finished
  /\ rt' = "joined"
  /\ UNCHANGED <<generation, stop, submits, missed, dropped, slot, held, error, wpc, job, decoderVars,
                 screenVars, errors>>

----------------------------------------------------------------------------
(* The worker *)

\* The decoder and the renderer come up, or one of them does not.
WorkerStarts ==
  /\ wpc = "starting"
  /\ \/ wpc' = "lock" /\ UNCHANGED errors
     \/ wpc' = "exited" /\ errors < MaxErrors /\ errors' = errors + 1
  /\ UNCHANGED <<runtimeVars, slot, held, error, job, decoderVars, screenVars>>

WorkerLock ==
  /\ wpc = "lock" /\ ~held
  /\ wpc' = "check" /\ held' = TRUE
  /\ UNCHANGED <<runtimeVars, slot, error, job, decoderVars, screenVars, errors>>

\* Nothing is pending and the stop flag is not set: the worker decides to wait.
WorkerDecidesToWait ==
  /\ wpc = "check" /\ slot = None /\ ~stop
  /\ wpc' = "waiting"
  /\ UNCHANGED <<runtimeVars, slot, held, error, job, decoderVars, screenVars, errors>>

\* Condvar::wait releases the mutex and sleeps.
WorkerWaits ==
  /\ wpc = "waiting"
  /\ wpc' = "asleep" /\ held' = FALSE
  /\ UNCHANGED <<runtimeVars, slot, error, job, decoderVars, screenVars, errors>>

\* A condition variable may wake up by itself.
WorkerWakesSpuriously ==
  /\ wpc = "asleep"
  /\ wpc' = "lock"
  /\ UNCHANGED <<runtimeVars, slot, held, error, job, decoderVars, screenVars, errors>>

WorkerStops ==
  /\ wpc = "check" /\ stop
  /\ wpc' = "exited" /\ held' = FALSE
  /\ UNCHANGED <<runtimeVars, slot, error, job, decoderVars, screenVars, errors>>

WorkerTakes ==
  /\ wpc = "check" /\ ~stop /\ slot # None
  /\ job' = slot /\ slot' = None
  /\ wpc' = "took" /\ held' = FALSE
  /\ UNCHANGED <<runtimeVars, error, decoderVars, screenVars, errors>>

StaleNativeJob(g) == g < generation \/ g < worker_generation

WorkerSkips ==
  /\ wpc = "took" /\ StaleNativeJob(job.generation)
  /\ wpc' = "lock" /\ job' = None
  /\ UNCHANGED <<runtimeVars, slot, held, error, decoderVars, screenVars, errors>>

WorkerKeeps ==
  /\ wpc = "took" /\ ~StaleNativeJob(job.generation)
  /\ wpc' = IF job.generation > worker_generation THEN "reset" ELSE "decode"
  /\ UNCHANGED <<runtimeVars, slot, held, error, job, decoderVars, screenVars, errors>>

\* Faulty variant: the transform is not flushed.
DecoderResetKeepsFrames ==
  /\ initialized' = FALSE /\ epochStart' = None
  /\ UNCHANGED <<inputs, surfaces>>

\* The gate is closed and the transform flushed.
DecoderReset ==
  /\ initialized' = FALSE /\ epochStart' = None
  /\ inputs' = <<>> /\ surfaces' = <<>>

WorkerResets ==
  /\ wpc = "reset" /\ DecoderReset
  /\ worker_generation' = job.generation /\ wpc' = "decode"
  /\ UNCHANGED <<runtimeVars, slot, held, error, job, screenVars, errors>>

\* A native call fails or does not answer in time: one error is kept, the worker ends.
WorkerFails ==
  /\ wpc \in {"reset", "decode", "present"} /\ errors < MaxErrors
  /\ errors' = errors + 1 /\ error' = TRUE /\ wpc' = "exited"
  /\ UNCHANGED <<runtimeVars, slot, held, job, decoderVars, screenVars>>

GateAccepts(j) == initialized \/ j.keyframe

\* MissingSequenceHeader: dropped until a keyframe comes.
WorkerDropsDelta ==
  /\ wpc = "decode" /\ ~GateAccepts(job)
  /\ wpc' = "lock" /\ job' = None
  /\ UNCHANGED <<runtimeVars, slot, held, error, decoderVars, screenVars, errors>>

HasRoom == Len(inputs) < MaxPending

\* The transform takes the input and yields some of its outputs, matched to their inputs
\* by timestamp; the oldest surface is returned.
WorkerDecodes ==
  /\ wpc = "decode" /\ GateAccepts(job) /\ HasRoom
  /\ LET fed == Append(inputs, job) IN
     \E out \in SUBSET (1..Len(fed)) :
       LET at(ids) == [i \in 1..Cardinality(ids) |-> fed[SetToSortSeq(ids, <)[i]]]
           ready == surfaces \o at(out) IN
       /\ Len(ready) <= MaxPending
       /\ inputs' = at(DOMAIN fed \ out)
       /\ surfaces' = IF ready = <<>> THEN ready ELSE Tail(ready)
       /\ presenting' = IF ready = <<>> THEN None ELSE Head(ready)
       /\ wpc' = IF ready = <<>> THEN "lock" ELSE "decoded"
       /\ job' = IF ready = <<>> THEN None ELSE job
  /\ initialized' = TRUE
  /\ epochStart' = IF epochStart = None THEN job ELSE epochStart
  /\ UNCHANGED <<runtimeVars, slot, held, error, worker_generation, shown, stale, atReset, errors>>

\* The transform holds MAX_PENDING_DECODED_FRAMES inputs already, or yields a surface too
\* many.
WorkerOverflows ==
  /\ wpc = "decode" /\ GateAccepts(job)
  /\ ~HasRoom \/ Len(surfaces) + Len(inputs) >= MaxPending
  /\ error' = TRUE /\ wpc' = "exited"
  /\ UNCHANGED <<runtimeVars, slot, held, job, decoderVars, screenVars, errors>>

Presentable == job.generation = generation

WorkerComparesGeneration ==
  /\ wpc = "decoded"
  /\ IF Presentable THEN wpc' = "present" /\ UNCHANGED <<presenting, job>>
     ELSE wpc' = "lock" /\ presenting' = None /\ job' = None
  /\ UNCHANGED <<runtimeVars, slot, held, error, decoderVars, shown, stale, atReset, errors>>

WorkerPresents ==
  /\ wpc = "present"
  /\ shown' = presenting /\ presenting' = None /\ job' = None
  /\ stale' = IF presenting.generation < generation THEN stale + 1 ELSE stale
  /\ wpc' = "lock"
  /\ UNCHANGED <<runtimeVars, slot, held, error, decoderVars, atReset, errors>>

----------------------------------------------------------------------------
Owner == \/ Started \/ StartTimesOut \/ StartAbandons \/ PipelineError \/ (\E key \in BOOLEAN : Submit(key))
         \/ ResetGeneration \/ ResetSlot
         \/ ShutdownStop \/ ShutdownNotify \/ ShutdownJoins \/ ShutdownTimesOut
         \/ ShutdownAgain \/ ReaperJoins

Worker == \/ WorkerStarts \/ WorkerLock \/ WorkerDecidesToWait \/ WorkerWaits \/ WorkerStops \/ WorkerTakes
          \/ WorkerSkips \/ WorkerKeeps \/ WorkerResets \/ WorkerFails \/ WorkerDropsDelta
          \/ WorkerDecodes \/ WorkerOverflows \/ WorkerComparesGeneration \/ WorkerPresents

Next == Owner \/ Worker \/ WorkerWakesSpuriously

Spec == Init /\ [][Next]_vars

\* The operating system runs both threads; every native call of the worker is bounded by
\* a timeout of its own.
LiveSpec == Spec /\ WF_vars(Worker) /\ WF_vars(ResetSlot) /\ WF_vars(ShutdownNotify)
                 /\ WF_vars(StartAbandons) /\ WF_vars(ShutdownAgain)
                 /\ WF_vars(ShutdownJoins \/ ShutdownTimesOut)

----------------------------------------------------------------------------
(* Properties *)

Job == [generation : 0..MaxResets, keyframe : BOOLEAN]

\* The variables have their types; the decoder's queues keep within their bound.
TypeOK ==
  /\ rt \in {"starting", "abandoning", "up", "failing", "resetting", "stopping",
              "joining", "joined", "reaping"}
  /\ generation \in 0..MaxResets /\ worker_generation \in 0..MaxResets
  /\ wpc \in {"starting", "lock", "check", "waiting", "asleep", "took", "reset", "decode", "decoded",
              "present", "exited"}
  /\ {stop, held, error, initialized, missed, dropped} \subseteq BOOLEAN
  /\ {slot, job, presenting, epochStart, shown} \subseteq Job \union {None}
  /\ Range(inputs \o surfaces) \subseteq Job
  /\ Len(inputs) <= MaxPending /\ Len(surfaces) <= MaxPending
  /\ stale \in Nat /\ submits \in 0..MaxSubmits /\ errors \in 0..MaxErrors

\* What a transport loss leaves in the decoder or in the worker's hands never mixes with
\* the next epoch: all the transform holds belongs to the epoch of its last flush, the
\* surfaces on screen never go back to an older epoch, and each epoch starts at a
\* keyframe (reset_for_reconnect, worker_generation, DecoderGate).
EpochsDoNotMix ==
  /\ \A j \in Range(inputs) \union Range(surfaces) : j.generation = worker_generation
  /\ shown # None => shown.generation <= worker_generation
  /\ presenting # None => presenting.generation = worker_generation
  /\ epochStart # None => epochStart.keyframe

\* After reset_for_reconnect no surface of the lost transport reaches the screen, except
\* the one whose generation the worker had compared just before the reset.
OnlyComparedFrameIsStale == stale <= IF atReset = "present" THEN 1 ELSE 0

\* Reconnecting separates the epochs, in the decoder and on the screen, but for that one
\* surface.
EpochsSeparate == TypeOK /\ EpochsDoNotMix /\ OnlyComparedFrameIsStale

\* A submitted job does not stay in the slot: the worker takes it or it is dropped by a
\* reset, unless the pipeline ends.  The worker holds the mutex from looking at the slot
\* until it waits, so submit's notification cannot be missed.
NoJobForgotten == slot # None ~> slot = None \/ stop \/ Finished

\* Once the stop flag is set the worker exits, unless the last notification came between
\* the worker's look at the flag and its wait, or an abandoned start set the flag while the
\* worker waited already; then nothing wakes it.
StopsUnlessMissed == stop ~> Finished \/ []missed

\* The worker answers its notifications: a job is taken and a stop obeyed, but for a stop
\* that was announced without the lock.
WorkerResponds == NoJobForgotten /\ StopsUnlessMissed

=============================================================================
