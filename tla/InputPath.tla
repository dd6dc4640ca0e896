------------------------------ MODULE InputPath ------------------------------
(***************************************************************************)
(* A key, click or pointer movement on its way from the client's window to *)
(* the host's SendInput: the window thread, the poll branch of the         *)
(* client's runtime with its InputController, unreliable datagrams, the    *)
(* host's input handler and the Windows injector.  Nothing in the          *)
(* repository connects the last two yet; HostReceives joins them as their  *)
(* types ask for, and is marked as external.                               *)
(***************************************************************************)
EXTENDS ClientWindow

CONSTANTS
  Keys,                 \* keys of UsKeyboard that the user may press
  QueueCapacity,        \* DEFAULT_INPUT_QUEUE_CAPACITY
  RatePerSecond,        \* DEFAULT_INPUT_RATE_PER_SECOND
  Monitor,              \* the monitor of the session, [origin, width]
  Scenarios             \* what a run may contain: whether the session has control, the items
                        \* pressed, the other messages, and bounds on the clock (seconds), the
                        \* messages that carry input, the focus messages and the commands

VARIABLES
  scenario,
  pc,                   \* where the runtime's task is
  slept,                \* the poll branch's sleep has elapsed
  input,                \* InputController
  now,
  wire,                 \* datagrams under way, numbered as they were sent
  sent,                 \* sent_input_messages
  applied,              \* the number of the last datagram the host applied
  hostHeld,             \* keys and buttons that are down at the host
  error, refused,       \* what ended the session, and the event that did
  userHeld,             \* keys and buttons pressed in this window and not yet released
  lossy,                \* history: something between the window and the host was lost
  inputs, appCommands

runtimeVars == <<pc, scenario, slept, input, error, refused>>
hostVars == <<wire, applied, hostHeld>>
userVars == <<userHeld, lossy>>
countVars == <<inputs, appCommands>>
vars == <<windowVars, runtimeVars, now, sent, hostVars, userVars, countVars>>

NoEvent == [event |-> [type |-> "none"], at |-> 0, focused |-> FALSE]

\* ClientSession::can_control: the capability grants desktop.control.
can_control == scenario.control

Init ==
  /\ WindowInit
  /\ pc = "starting" /\ scenario \in Scenarios /\ slept = FALSE
  /\ input = [focused |-> FALSE, shutdown |-> FALSE, queue |-> <<>>, recent |-> <<>>]
  /\ now = 0 /\ wire = {} /\ sent = 0 /\ applied = 0 /\ hostHeld = {}
  /\ error = "none" /\ refused = NoEvent
  /\ userHeld = {} /\ lossy = FALSE /\ inputs = 0 /\ appCommands = 0

----------------------------------------------------------------------------
(* InputController *)

Expired == [input EXCEPT !.shutdown = TRUE, !.focused = FALSE, !.queue = <<>>]

Bounded(event) ==
  IF event.type = "Move" THEN [event EXCEPT !.x = ClampToMonitor(@, Monitor)] ELSE event

Recent == SelectSeq(input.recent, LAMBDA t : now - t < 1)

\* What enqueue_input answers, in the order of its checks.
Verdict(event) ==
  IF ~input.focused THEN "NotFocused"
  ELSE IF Len(input.queue) >= QueueCapacity THEN "QueueFull"
  ELSE IF Len(Recent) >= RatePerSecond THEN "RateLimited"
  ELSE IF ~ValidEvent(event) THEN "Encode"
  ELSE "Ok"

\* Faulty variant: the newest control is sent first.
EnqueuedInFront(event) ==
  [input EXCEPT !.recent = Append(Recent, now), !.queue = <<Encode(Bounded(event))>> \o @]

Enqueued(event) ==
  [input EXCEPT !.recent = Append(Recent, now), !.queue = Append(@, Encode(Bounded(event)))]

----------------------------------------------------------------------------
(* ClientRuntime: building, the select loop, fail_closed *)

Built ==
  /\ pc = "starting" /\ StartReturns /\ pc' = "waiting"
  /\ UNCHANGED <<scenario, slept, input, error, refused, now, sent, hostVars, userVars, countVars>>

BuildFails ==
  /\ pc = "starting"
  /\ StartFailed \/ StartTimesOut
  /\ pc' = "ended" /\ error' = "Window"
  /\ UNCHANGED <<scenario, slept, input, refused, now, sent, hostVars, userVars, countVars>>

\* What shutdown does not touch of the window.
WindowElsewhere ==
  UNCHANGED <<build, thread, hwnd, os_focus, native_handle, started, worker, sender,
              pending_high_surrogate, focusChanges, evicted>>

\* fail_closed up to the wait for the window thread.
FailClosed(cause) ==
  /\ pc' = "closing" /\ error' = cause /\ input' = Expired
  /\ RequestShutdown

Continue ==
  UNCHANGED <<pc, error, refused, shutdown_requested, commands>>

\* The read branch of the select: the loop comes round and its sleep starts anew.
VideoDatagram ==
  /\ pc = "waiting" /\ slept' = FALSE
  /\ UNCHANGED <<windowVars, pc, scenario, input, error, refused, now, sent, hostVars, userVars, countVars>>

SleepElapses ==
  /\ pc = "waiting" /\ ~slept /\ slept' = TRUE
  /\ UNCHANGED <<windowVars, pc, scenario, input, error, refused, now, sent, hostVars, userVars, countVars>>

\* Faulty variant: only input wakes the poll.
PollsForInput ==
  /\ pc = "waiting" /\ slept /\ normal # <<>> /\ slept' = FALSE /\ pc' = "window"
  /\ UNCHANGED <<windowVars, scenario, input, error, refused, now, sent, hostVars, userVars, countVars>>

Polls ==
  /\ pc = "waiting" /\ slept /\ slept' = FALSE /\ pc' = "window"
  /\ UNCHANGED <<windowVars, scenario, input, error, refused, now, sent, hostVars, userVars, countVars>>

\* The transport, the session or the owner ends the run while it waits.
EndsOtherwise ==
  /\ pc = "waiting" /\ FailClosed("other") /\ WindowElsewhere
  /\ UNCHANGED <<scenario, slept, refused, control, normal, now, sent, hostVars, userVars, countVars>>

\* pump_window_events: one control event,
PumpsControl ==
  /\ pc = "window" /\ NextEvent \in ControlEvents /\ control' = Tail(control)
  /\ CASE NextEvent = "Closed" -> FailClosed("Closed") /\ UNCHANGED refused
       [] NextEvent \in FocusEvents ->
            Continue /\ input' = [input EXCEPT !.focused = (NextEvent = "FocusGained")]
       [] NextEvent = "RenderRejected" -> Continue /\ UNCHANGED input
  /\ WindowElsewhere
  /\ UNCHANGED <<scenario, slept, normal, now, sent, hostVars, userVars, countVars>>

IsInput(event) == event.type \notin {"Resized", "RenderRequested"}

\* or, when no control waits, one event: input of a view-only session is skipped, and
\* input that the controller refuses ends the session.
PumpsEvent ==
  /\ pc = "window" /\ NextEvent = "normal" /\ normal' = Tail(normal)
  /\ LET posted == Head(normal)
         verdict == Verdict(posted.event) IN
     IF ~IsInput(posted.event) \/ ~can_control THEN Continue /\ UNCHANGED input
     ELSE IF verdict = "Ok" THEN Continue /\ input' = Enqueued(posted.event)
     ELSE FailClosed(verdict) /\ refused' = posted
  /\ WindowElsewhere
  /\ UNCHANGED <<scenario, slept, control, now, sent, hostVars, userVars, countVars>>

WindowPumped ==
  /\ pc = "window" /\ NextEvent = "none" /\ pc' = "input"
  /\ UNCHANGED <<windowVars, scenario, slept, input, error, refused, now, sent, hostVars, userVars, countVars>>

\* pump_input: one control in one datagram; a view-only session discards what is queued.
PumpsInput ==
  /\ pc = "input" /\ pc' = "waiting"
  /\ IF ~can_control
     THEN input' = [input EXCEPT !.queue = <<>>, !.recent = <<>>] /\ UNCHANGED <<wire, sent>>
     ELSE IF input.queue = <<>> THEN UNCHANGED <<input, wire, sent>>
     ELSE /\ input' = [input EXCEPT !.queue = Tail(@)]
          /\ sent' = sent + 1 /\ wire' = wire \cup {[number |-> sent + 1, control |-> Head(input.queue)]}
  /\ UNCHANGED <<windowVars, scenario, slept, error, refused, now, applied, hostHeld, userVars, countVars>>

\* The window thread is joined or handed over, and the runtime is dropped with its
\* connection.
Closes ==
  /\ pc = "closing" /\ ShutdownWait /\ pc' = "ended" /\ sender' = FALSE /\ wire' = {}
  /\ UNCHANGED <<build, thread, hwnd, os_focus, native_handle, shutdown_requested, started, channelVars,
                 pending_high_surrogate, focusChanges, evicted, scenario, slept, input, error,
                 refused, now, sent, applied, hostHeld, userVars, countVars>>

----------------------------------------------------------------------------
(* The network and the host *)

Loses ==
  /\ \E d \in wire : wire' = wire \ {d}
  /\ lossy' = TRUE
  /\ UNCHANGED <<windowVars, runtimeVars, now, sent, applied, hostHeld, userHeld, countVars>>

\* What a record does to the keys and buttons that are down.
Inject(held, r) ==
  IF r.record = "ScanCode" THEN IF r.key_up THEN held \ {r.code} ELSE held \cup {r.code}
  ELSE IF r.record = "MouseButton"
  THEN IF r.pressed THEN held \cup {[button |-> r.button]} ELSE held \ {[button |-> r.button]}
  ELSE held

\* inject_records up to the native call: the records to submit, Unmapped when refused.
Submitted(event) ==
  IF ValidEvent(event)
  THEN Translate(event, [min |-> Monitor.origin, max |-> Monitor.origin + Monitor.width - 1])
  ELSE Unmapped

\* External: the host hands a control to its handler and the event to the injector;
\* SendInput inserts some first part of the records.
HostReceives ==
  \E d \in wire :
    LET records == Submitted(Handled(d.control)) IN
    /\ wire' = wire \ {d} /\ applied' = d.number
    /\ IF records = Unmapped THEN UNCHANGED hostHeld /\ lossy' = TRUE
       ELSE \E n \in 0..Len(records) :
              /\ hostHeld' = FoldLeft(Inject, hostHeld, SubSeq(records, 1, n))
              /\ lossy' = (lossy \/ n < Len(records) \/ d.number < applied)
    /\ UNCHANGED <<windowVars, runtimeVars, now, sent, userHeld, countVars>>

----------------------------------------------------------------------------
(* The user, Windows, the application and the clock *)

EventOf(item, down) ==
  IF item \in Keys
  THEN [type |-> "Key", code |-> MapVirtualKeyToHid(item.vk, item.scan, item.extended), down |-> down]
  ELSE [type |-> "Button", button |-> item.button, down |-> down]

\* Nobody reads what is typed once the session is over.
Over == pc \in {"closing", "ended"}
CountsInput == ~Over /\ inputs < scenario.inputs /\ inputs' = inputs + 1 /\ UNCHANGED appCommands
Dropped == Len(normal) = NormalCapacity

\* A key that the client maps, or a button, goes down or up in the focused window.
UserTurns(item) ==
  /\ os_focus /\ CountsInput
  /\ InputMessage(EventOf(item, item \notin userHeld))
  /\ userHeld' = IF item \in userHeld THEN userHeld \ {item} ELSE userHeld \cup {item}
  /\ lossy' = (lossy \/ Dropped)
  /\ UNCHANGED <<runtimeVars, now, sent, hostVars>>

\* It is released while another window has the focus.
ReleasedElsewhere ==
  /\ ~Over /\ ~os_focus /\ \E item \in userHeld : userHeld' = userHeld \ {item}
  /\ lossy' = TRUE
  /\ UNCHANGED <<windowVars, runtimeVars, now, sent, hostVars, countVars>>

\* The pointer moves over the window, which need not have the focus.
PointerMoves ==
  /\ "move" \in scenario.others /\ CountsInput
  /\ InputMessage([type |-> "Move", x |-> SignedWord(1)])
  /\ UNCHANGED <<runtimeVars, now, sent, hostVars, userVars>>

Types(unit) ==
  /\ "text" \in scenario.others /\ os_focus /\ CountsInput /\ CharMessage(unit)
  /\ UNCHANGED <<runtimeVars, now, sent, hostVars, userVars>>

Resizes ==
  /\ "size" \in scenario.others /\ CountsInput /\ SizeMessage
  /\ UNCHANGED <<runtimeVars, now, sent, hostVars, userVars>>

FocusMoves ==
  /\ focusChanges < scenario.focus /\ FocusMessage
  /\ UNCHANGED <<runtimeVars, now, sent, hostVars, userVars, countVars>>

UserCloses ==
  /\ CloseMessage
  /\ UNCHANGED <<runtimeVars, now, sent, hostVars, userVars, countVars>>

\* A holder of the command endpoint; request_close sends Close.
AppSends(command) ==
  /\ worker = "controller" /\ appCommands < scenario.commands /\ appCommands' = appCommands + 1
  /\ commands' = TrySend(command)
  /\ UNCHANGED <<build, thread, hwnd, os_focus, native_handle, shutdown_requested, started, worker,
                 sender, control, normal, pending_high_surrogate, focusChanges, evicted,
                 runtimeVars, now, sent, hostVars, userVars, inputs>>

Ticks ==
  /\ ~Over /\ now < scenario.time /\ now' = now + 1
  /\ UNCHANGED <<windowVars, runtimeVars, sent, hostVars, userVars, countVars>>

Starts == pc = "starting" /\ StartWindow
          /\ UNCHANGED <<runtimeVars, now, sent, hostVars, userVars, countVars>>
ThreadRuns == ThreadStep /\ UNCHANGED <<runtimeVars, now, sent, hostVars, userVars, countVars>>
ReaperRuns == Reaped /\ UNCHANGED <<runtimeVars, now, sent, hostVars, userVars, countVars>>

RuntimeStep == PumpsControl \/ PumpsEvent \/ WindowPumped \/ PumpsInput \/ Closes \/ Built

User ==
  \/ \E item \in scenario.items : UserTurns(item)
  \/ ReleasedElsewhere \/ PointerMoves \/ Resizes \/ FocusMoves \/ UserCloses
  \/ \E unit \in {\hD83D, \hDE00} : Types(unit)

Next ==
  \/ Starts \/ ThreadRuns \/ ReaperRuns
  \/ RuntimeStep \/ BuildFails \/ VideoDatagram \/ SleepElapses \/ Polls \/ EndsOtherwise
  \/ Loses \/ HostReceives \/ User \/ Ticks
  \/ \E command \in {"Render", "RequestFocus", "Close"} : AppSends(command)

Spec == Init /\ [][Next]_vars

\* The threads run, CreateWindowExW returns, timers elapse.  The read branch of the
\* select is not held back: each datagram starts the poll branch's sleep anew.
Fairness ==
  /\ WF_vars(ThreadRuns) /\ WF_vars(ReaperRuns) /\ WF_vars(RuntimeStep)
  /\ WF_vars(BuildFails) /\ WF_vars(SleepElapses) /\ WF_vars(Polls)

LiveSpec == Spec /\ Fairness

----------------------------------------------------------------------------
(* Properties *)

\* The conversions, looked at once, before the window exists: keys keep their scan codes,
KeysKept == thread = "none" => KeysRoundTrip
\* text loses only its unpaired surrogates,
TextKept == thread = "none" => TextIsWellFormed
\* and pointer positions stay in order, inside the monitor, and apart.
PointerKept == thread = "none" => PointerKeepsOrder

\* What the user did is what the host is told: keys, text and pointer survive their
\* conversions at both ends.
ConversionsKept == KeysKept /\ TextKept /\ PointerKept

\* The variables have their types; no queue outgrows its capacity, a focus event is never
\* queued twice, and the handle is published only while the thread lives.
TypeOK ==
  /\ thread \in {"none", "creating", "flag", "commands", "messages", "finished"}
  /\ hwnd \in {"none", "open", "destroyed"} /\ started \in {"pending", "ok", "failed"}
  /\ worker \in {"none", "start", "controller", "reaper", "inline", "joined"}
  /\ {os_focus, native_handle, shutdown_requested, sender, slept, lossy, evicted} \subseteq BOOLEAN
  /\ Len(commands) <= CommandCapacity /\ Len(normal) <= NormalCapacity
  /\ Len(control) <= ControlCapacity /\ Range(control) \subseteq ControlEvents
  /\ Len(SelectSeq(control, LAMBDA e : e \in FocusEvents)) <= 1
  /\ Len(input.queue) <= QueueCapacity /\ Len(input.recent) <= RatePerSecond
  /\ pc \in {"starting", "waiting", "window", "input", "closing", "ended"}
  /\ native_handle => thread # "finished"

\* Once the window is gone its close waits in the control queue or has ended the session:
\* neither coalescing nor a full queue loses it (ControlEventQueue::push).
CloseNeverLost ==
  hwnd = "destroyed" \/ (build = "portable" /\ thread = "finished")
  => Contains(control, "Closed") \/ pc \in {"starting", "closing", "ended"}

\* What the client takes for the focus, once it has read the control queue.
FocusView ==
  LET waiting == SelectSeq(control, LAMBDA e : e \in FocusEvents) IN
  IF waiting = <<>> THEN input.focused ELSE Head(waiting) = "FocusGained"

\* The client's view of the focus is Windows' own, except that a focus gained while the
\* window was created is reported as lost, and that render diagnostics can push a focus
\* event out of a full control queue.
FocusViewExplained ==
  hwnd = "open" /\ ~input.shutdown /\ FocusView # os_focus => focusChanges = 0 \/ evicted

\* Refused input ends the session only for a reason the user could see: the pointer moved
\* over a window without focus, the focus changed between the message and the poll (the
\* control queue overtakes the event channel), the focus was never reported, or the queue
\* or the rate was exhausted.  A view-only session is never ended by input.
SessionEndExplained ==
  /\ error = "NotFocused" =>
       ~refused.focused \/ focusChanges > refused.at \/ refused.at = 0 \/ evicted
  /\ error = "QueueFull" => inputs - sent > QueueCapacity
  /\ error = "RateLimited" => inputs > RatePerSecond
  /\ ~can_control => sent = 0 /\ error \in {"none", "Closed", "Window", "other"}

\* The focus the client acts on, and the sessions it ends over it, are explained by what the
\* user and Windows did.
FocusExplained == TypeOK /\ FocusViewExplained /\ SessionEndExplained

\* When everything sent has arrived in order, the host holds down exactly the keys and
\* buttons that the user does, as the scan codes of the user's keyboard.
HeldKeysAgree ==
  /\ can_control /\ ~lossy /\ ~input.shutdown
  /\ normal = <<>> /\ input.queue = <<>> /\ wire = {}
  => hostHeld = {IF k \in Keys THEN ScanCode(k.scan, k.extended) ELSE k : k \in userHeld}

\* If datagrams from the host pause for good, a window that was closed ends the session:
\* the poll branch gets its turn and the close reaches it.
CloseStopsClient ==
  <>[][~VideoDatagram]_vars =>
    (hwnd = "destroyed" ~> pc = "ended")

\* A window thread that was given up, by a start that timed out or by a shutdown at its
\* deadline, destroys its window and is joined all the same.
TeardownCompletes ==
  worker \in {"reaper", "inline"} ~> worker = "joined" /\ hwnd # "open"

\* Closing the window is never lost, ends the session, and leaves no thread or window.
CloseCompletes == []CloseNeverLost /\ CloseStopsClient /\ TeardownCompletes

=============================================================================
