--------------------------- MODULE CaptureSession ---------------------------
(***************************************************************************)
(* The native session a Windows capture worker owns: Windows Graphics      *)
(* Capture (WGC), whose frame pool and two event handlers run beside the   *)
(* worker, or DXGI desktop duplication, which is polled.  The handlers     *)
(* count arrivals and put a token in a channel of depth one; acquire_frame *)
(* waits for the token, drains the pool to its newest frame, recreates the *)
(* pool when the display's size has changed, and copies the frame.         *)
(***************************************************************************)
EXTENDS Integers, Sequences

CONSTANTS
  PoolBuffers,         \* buffers of the frame pool (2 in the code)
  Sizes,               \* sizes a display may have, positive numbers
  MaxArrivals,         \* bound: frames the display composes
  MaxResizes,          \* bound: changes of the display's size
  MaxFaults            \* bound: native failures, timeouts and panics

ASSUME SessionAssumption ==
  /\ PoolBuffers \in Nat \ {0} /\ Sizes \subseteq Nat \ {0} /\ Sizes # {}
  /\ {MaxArrivals, MaxResizes, MaxFaults} \subseteq Nat

VARIABLES
  api, stopped,        \* the session: "none", "Wgc" or "Dxgi"; its stopped flag
  spc,                 \* where acquire_frame is
  display,             \* the size of the captured item, 0 when it has none
  pool, allocated,     \* the frames ready in the pool; the size of its buffers
  arrived,             \* FrameArrived events not handled yet
  counted,             \* the frame handler is between its count and its token
  pending, token,      \* pending_frames; the channel frame_ready
  closing,             \* the Closed handler: "no", "due", "flagged" or "done"
  poolSize, frameId,   \* pool_size and frame_id
  newest, open,        \* drain's newest frame; native frames not closed yet
  result,              \* what next_frame is about to return
  arrivals, resizes, faults,
  drainFailed          \* a drain was given up with frames left in the pool

nativeVars == <<display, pool, allocated, arrived, counted, pending, token, closing, arrivals, resizes>>
sessionVars == <<api, stopped, spc, nativeVars, poolSize, frameId, newest, open, result, faults, drainFailed>>

None == [content |-> 0, alloc |-> 0]
closed == closing \in {"flagged", "done"}

SessionInit ==
  /\ api = "none" /\ stopped = FALSE /\ spc = "ready" /\ display \in Sizes
  /\ pool = <<>> /\ allocated = display /\ arrived = 0 /\ counted = FALSE
  /\ pending = 0 /\ token = FALSE /\ closing = "no" /\ poolSize = display /\ frameId = 0
  /\ newest = None /\ open = {} /\ result = "none"
  /\ arrivals = 0 /\ resizes = 0 /\ faults = 0 /\ drainFailed = FALSE

\* How WgcSession::start and DxgiSession::start fail.
WgcStartErrors == {"UnsupportedApi", "DeviceLost", "InitializationFailed"}
DxgiStartErrors == {"UnsupportedApi", "DeviceLost", "InitializationFailed"}

Fault == faults < MaxFaults /\ faults' = faults + 1
Capturing == api = "Wgc" /\ ~stopped

----------------------------------------------------------------------------
(* The display and the event handlers *)

UnchangedWork == UNCHANGED <<api, stopped, spc, poolSize, frameId, newest, open, result, faults, drainFailed>>

\* WGC fills a free buffer of the pool and raises FrameArrived.
DisplayComposes ==
  /\ Capturing /\ closing = "no" /\ arrivals < MaxArrivals
  /\ Len(pool) + (IF open = {} THEN 0 ELSE 1) < PoolBuffers
  /\ arrivals' = arrivals + 1
  /\ pool' = Append(pool, [content |-> display, alloc |-> allocated])
  /\ arrived' = arrived + 1
  /\ UnchangedWork /\ UNCHANGED <<display, allocated, counted, pending, token, closing, resizes>>

\* The frame handler counts the arrival ...
HandlerCounts ==
  /\ arrived > 0 /\ ~counted
  /\ arrived' = arrived - 1 /\ counted' = TRUE /\ pending' = pending + 1
  /\ UnchangedWork /\ UNCHANGED <<display, pool, allocated, token, closing, arrivals, resizes>>

\* Faulty variant: only a second arrival leaves a token.
HandlerSignalsLate ==
  /\ counted
  /\ counted' = FALSE /\ token' = (token \/ pending > 1)
  /\ UnchangedWork
  /\ UNCHANGED <<display, pool, allocated, arrived, pending, closing, arrivals, resizes>>

\* ... and then leaves a token, unless there is one.
HandlerSignals ==
  /\ counted
  /\ counted' = FALSE /\ token' = TRUE
  /\ UnchangedWork
  /\ UNCHANGED <<display, pool, allocated, arrived, pending, closing, arrivals, resizes>>

\* The display changes size, perhaps to none, or goes away and raises Closed.
DisplayResizes ==
  /\ Capturing /\ resizes < MaxResizes
  /\ \E size \in (Sizes \union {0}) \ {display} : display' = size
  /\ resizes' = resizes + 1
  /\ UnchangedWork
  /\ UNCHANGED <<pool, allocated, arrived, counted, pending, token, closing, arrivals>>

DisplayCloses ==
  /\ Capturing /\ closing = "no"
  /\ closing' = "due"
  /\ UnchangedWork
  /\ UNCHANGED <<display, pool, allocated, arrived, counted, pending, token, arrivals, resizes>>

ClosedFlags ==
  /\ closing = "due"
  /\ closing' = "flagged"
  /\ UnchangedWork
  /\ UNCHANGED <<display, pool, allocated, arrived, counted, pending, token, arrivals, resizes>>

ClosedSignals ==
  /\ closing = "flagged"
  /\ closing' = "done" /\ token' = TRUE
  /\ UnchangedWork
  /\ UNCHANGED <<display, pool, allocated, arrived, counted, pending, arrivals, resizes>>

Native == \/ DisplayComposes \/ DisplayResizes \/ DisplayCloses
Handlers == \/ HandlerCounts \/ HandlerSignals \/ ClosedFlags \/ ClosedSignals

----------------------------------------------------------------------------
(* acquire_frame of a WGC session *)

\* Errors classify_windows_error makes of a failing call: a kind of its own for a lost
\* device and for a missing frame, NativeFailure standing for all the others.
Classified == {"NativeFailure", "DeviceLost", "FrameUnavailable"}

Return(r) == spc' = "done" /\ result' = r
\* The loop of acquire_frame goes round.
Continue == spc' = "wait" /\ UNCHANGED result

\* A token: the item may be closed; otherwise the arrivals counted so far are taken, and
\* none at all is no reason to look into the pool.
TokenTaken ==
  /\ spc = "wait" /\ token
  /\ token' = FALSE
  /\ IF closed THEN Return("DeviceLost") /\ UNCHANGED pending
     ELSE /\ pending' = 0 /\ UNCHANGED result
          /\ spc' = IF pending = 0 THEN "wait" ELSE "drain"
  /\ UNCHANGED <<api, stopped, display, pool, allocated, arrived, counted, closing, arrivals, resizes,
                 poolSize, frameId, newest, open, faults, drainFailed>>

\* Faulty variant: a timeout is a missing frame even when the item is closed.
TokenNeverComes ==
  /\ spc = "wait" /\ ~token
  /\ Return("FrameUnavailable")
  /\ UNCHANGED <<api, stopped, nativeVars, poolSize, frameId, newest, open, faults, drainFailed>>

\* FRAME_TIMEOUT passes without a token.
TokenTimeout ==
  /\ spc = "wait" /\ ~token
  /\ Return(IF closed THEN "DeviceLost" ELSE "FrameUnavailable")
  /\ UNCHANGED <<api, stopped, nativeVars, poolSize, frameId, newest, open, faults, drainFailed>>

\* drain_newest_available_frame takes one more frame and closes the one before it; when
\* that fails the frame just taken is closed too and the drain given up.
DrainTakes ==
  /\ spc = "drain" /\ pool # <<>>
  /\ pool' = Tail(pool)
  /\ \/ /\ newest' = Head(pool) /\ open' = {Head(pool)}
        /\ UNCHANGED <<spc, result, faults, drainFailed>>
     \/ /\ newest # None /\ Fault
        /\ newest' = None /\ open' = {}
        /\ drainFailed' = TRUE
        /\ \E e \in Classified : IF e = "FrameUnavailable" THEN Continue ELSE Return(e)
  /\ UNCHANGED <<api, stopped, display, allocated, arrived, counted, pending, token, closing, arrivals, resizes,
                 poolSize, frameId>>

\* TryGetNextFrame fails.
DrainFails ==
  /\ spc = "drain" /\ Fault
  /\ newest' = None /\ open' = {} /\ drainFailed' = TRUE
  /\ \E e \in Classified :
       IF closed THEN Return("DeviceLost")
       ELSE IF e = "FrameUnavailable" THEN Continue ELSE Return(e)
  /\ UNCHANGED <<api, stopped, nativeVars, poolSize, frameId>>

\* The pool is empty: a notification whose frame an earlier drain took is no error.
DrainEnds ==
  /\ spc = "drain" /\ pool = <<>>
  /\ spc' = IF newest = None THEN "wait" ELSE "inspect"
  /\ UNCHANGED <<api, stopped, nativeVars, poolSize, frameId, newest, open, result, faults, drainFailed>>

\* finish_acquired_frame: a failure to release the frame wins over what became of it.
FinishAcquiredFrame(frame, release) == IF release = "ok" THEN frame ELSE release

\* close_wgc_frame: the frame is closed on every path.
CloseFrame(r) ==
  /\ newest' = None /\ open' = {}
  /\ \/ Return(FinishAcquiredFrame(r, "ok")) /\ UNCHANGED faults
     \/ Fault /\ \E e \in Classified : Return(FinishAcquiredFrame(r, e))

\* validate_pool_size.
ValidSize(size) == size > 0

\* The content size is not positive.
SizeInvalid ==
  /\ spc = "inspect" /\ ~ValidSize(newest.content)
  /\ CloseFrame("InvalidFrame")
  /\ UNCHANGED <<api, stopped, nativeVars, poolSize, frameId, drainFailed>>

\* Another size: the frame is closed and the pool recreated, which drops what is in it.
SizeChanged ==
  /\ spc = "inspect" /\ ValidSize(newest.content) /\ newest.content # poolSize
  /\ newest' = None /\ open' = {}
  /\ \/ /\ poolSize' = newest.content /\ allocated' = newest.content /\ pool' = <<>>
        /\ Continue /\ UNCHANGED faults
     \/ /\ Fault
        /\ \E e \in Classified : Return(e)
        /\ UNCHANGED <<pool, allocated, poolSize>>
  /\ UNCHANGED <<api, stopped, display, arrived, counted, pending, token, closing, arrivals, resizes, frameId,
                 drainFailed>>

\* copy_bgra_rows takes no more than the texture holds ...
RowsFit(frame) == 0 < frame.content /\ frame.content <= frame.alloc

\* ... and mapped_texture_bytes has checked so before it reads the mapping.
CopyAccepts(frame) == 0 < frame.alloc /\ RowsFit(frame)

\* The newest frame is copied and closed.
FrameCopied ==
  /\ spc = "inspect" /\ newest.content = poolSize
  /\ frameId' = frameId + 1
  /\ CloseFrame(IF CopyAccepts(newest) THEN "frame" ELSE "InvalidFrame")
  /\ UNCHANGED <<api, stopped, nativeVars, poolSize, drainFailed>>

\* A native call on the frame or in copy_texture fails, before or after the frame has its id.
FrameUnreadable ==
  /\ spc = "inspect" /\ Fault
  /\ newest' = None /\ open' = {}
  /\ frameId' \in {frameId, frameId + 1}
  /\ \E e \in Classified : Return(e)
  /\ UNCHANGED <<api, stopped, nativeVars, poolSize, drainFailed>>

----------------------------------------------------------------------------
(* acquire_frame of a DXGI session, and stop *)

\* AcquireNextFrame, copy, ReleaseFrame: polled, and released whatever the copy did.
Duplicated ==
  /\ spc = "duplicate"
  /\ \/ frameId' = frameId + 1 /\ Return("frame") /\ UNCHANGED faults
     \/ frameId' = frameId /\ Return("FrameUnavailable") /\ UNCHANGED faults
     \/ /\ frameId' \in {frameId, frameId + 1} /\ Fault
        /\ \E e \in Classified : Return(FinishAcquiredFrame("frame", e))
  /\ UNCHANGED <<api, stopped, nativeVars, poolSize, newest, open, drainFailed>>

Acquiring == \/ TokenTaken \/ TokenTimeout \/ DrainTakes \/ DrainFails \/ DrainEnds
             \/ SizeInvalid \/ SizeChanged \/ FrameCopied \/ FrameUnreadable \/ Duplicated

\* Stopping removes the handlers and closes the capture session and the pool, each of them
\* whatever became of the others; a handler that is running still finishes.
SessionStop ==
  /\ stopped' = TRUE
  /\ pool' = <<>> /\ arrived' = 0
  /\ closing' = IF closing = "due" THEN "no" ELSE closing

=============================================================================
