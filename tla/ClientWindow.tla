----------------------------- MODULE ClientWindow -----------------------------
(***************************************************************************)
(* WindowController of nexus-client: the thread that owns the window, its  *)
(* message loop, the command channel, the prioritised control queue and    *)
(* the event channel, and the JoinHandle on its way from start to join.    *)
(* A step of the thread is one command, one message or one look at the     *)
(* shutdown flag; the runtime, the application and Windows act in between. *)
(***************************************************************************)
EXTENDS KeyCodes

CONSTANTS
  CommandCapacity, NormalCapacity,  \* WindowConfig.channel_capacity
  ControlCapacity,                  \* CONTROL_EVENT_CAPACITY
  Builds                            \* "native", "portable": which window_thread

VARIABLES
  build,
  thread,               \* where the window thread is
  hwnd,                 \* the native window: "none", "open", "destroyed"
  os_focus,             \* Windows gives the keyboard to this window
  native_handle, shutdown_requested,
  started,              \* the started channel: "pending", "ok", "failed"
  worker,               \* who has the JoinHandle
  sender,               \* the command endpoint still exists
  commands, control, normal,
  pending_high_surrogate,
  focusChanges, evicted \* history: focus messages so far; a focus event fell to a diagnostic

channelVars == <<commands, control, normal>>
windowVars == <<build, thread, hwnd, os_focus, native_handle, shutdown_requested, started, worker,
                sender, channelVars, pending_high_surrogate, focusChanges, evicted>>

FocusEvents == {"FocusGained", "FocusLost"}
ControlEvents == FocusEvents \cup {"Closed", "RenderRejected"}

WindowInit ==
  /\ build \in Builds /\ thread = "none" /\ hwnd = "none" /\ os_focus = FALSE
  /\ native_handle = FALSE /\ shutdown_requested = FALSE
  /\ started = "pending" /\ worker = "none" /\ sender = FALSE
  /\ commands = <<>> /\ control = <<>> /\ normal = <<>>
  /\ pending_high_surrogate = Unmapped /\ focusChanges = 0 /\ evicted = FALSE

----------------------------------------------------------------------------
(* ControlEventQueue and the event channel *)

WithoutFirst(queue, events) ==
  LET index == CHOOSE i \in DOMAIN queue :
                 queue[i] \in events /\ \A j \in 1..(i - 1) : queue[j] \notin events IN
  RemoveAt(queue, index)

\* Faulty variant: a focus event is dropped while another one waits.
PushKeepsOldFocus(queue, event) ==
  IF event \in FocusEvents /\ Range(queue) \cap FocusEvents # {} THEN queue
  ELSE IF Len(queue) < ControlCapacity THEN Append(queue, event)
  ELSE IF Range(queue) \ {"Closed"} # {}
  THEN Append(WithoutFirst(queue, ControlEvents \ {"Closed"}), event) ELSE queue

\* ControlEventQueue::push: a focus event replaces the one that waits; in a full queue a
\* focus event falls first, then, to a focus event or a close, anything but a close.
Push(queue, event) ==
  LET kept == IF event \in FocusEvents
              THEN SelectSeq(queue, LAMBDA e : e \notin FocusEvents) ELSE queue
      lifecycle == event \in FocusEvents \cup {"Closed"} IN
  IF Len(kept) < ControlCapacity THEN Append(kept, event)
  ELSE IF Range(kept) \cap FocusEvents # {} THEN Append(WithoutFirst(kept, FocusEvents), event)
  ELSE IF lifecycle /\ ~(event = "Closed" /\ Contains(kept, "Closed"))
          /\ Range(kept) \ {"Closed"} # {}
  THEN Append(WithoutFirst(kept, {"RenderRejected"}), event)
  ELSE kept

\* A focus event that waited is gone and nothing of its kind replaced it.
Evicts(queue, event) ==
  /\ Range(queue) \cap FocusEvents # {}
  /\ Range(Push(queue, event)) \cap FocusEvents = {}

PushControl(event) ==
  /\ control' = Push(control, event)
  /\ evicted' = (evicted \/ (event = "RenderRejected" /\ Evicts(control, event)))

\* try_send on the event channel: a full one drops the event.
Offer(queue, event) == IF Len(queue) < NormalCapacity THEN Append(queue, event) ELSE queue

\* try_next_event: controls first.
NextEvent == IF control # <<>> THEN Head(control) ELSE IF normal # <<>> THEN "normal" ELSE "none"

\* try_send on the command channel, which validates what it is given.
TrySend(command) == IF sender /\ Len(commands) < CommandCapacity THEN Append(commands, command) ELSE commands

----------------------------------------------------------------------------
(* WindowController::start, shutdown and the reaper *)

StartWindow ==
  /\ thread = "none" /\ thread' = "creating" /\ worker' = "start" /\ sender' = TRUE
  /\ UNCHANGED <<build, hwnd, os_focus, native_handle, shutdown_requested, started, channelVars,
                 pending_high_surrogate, focusChanges, evicted>>

\* start received what the thread sent within two seconds.
StartReturns ==
  /\ worker = "start" /\ started = "ok" /\ worker' = "controller"
  /\ UNCHANGED <<build, thread, hwnd, os_focus, native_handle, shutdown_requested, started, sender,
                 channelVars, pending_high_surrogate, focusChanges, evicted>>

StartFailed ==
  /\ worker = "start" /\ started = "failed" /\ thread = "finished"
  /\ worker' = "joined" /\ sender' = FALSE
  /\ UNCHANGED <<build, thread, hwnd, os_focus, native_handle, shutdown_requested, started,
                 channelVars, pending_high_surrogate, focusChanges, evicted>>

\* The thread is told to stop and left to a reaper, or, when no reaper can be spawned,
\* joined on the spot.
StartTimesOut ==
  /\ worker = "start" /\ started = "pending"
  /\ shutdown_requested' = TRUE /\ sender' = FALSE
  /\ worker' \in {"reaper", "inline"}
  /\ UNCHANGED <<build, thread, hwnd, os_focus, native_handle, started, channelVars,
                 pending_high_surrogate, focusChanges, evicted>>

\* shutdown, up to its wait: the flag, and a Shutdown command if there is room.
RequestShutdown ==
  /\ shutdown_requested' = TRUE /\ commands' = TrySend("Shutdown")

\* The wait: joined when the thread is finished, given to a reaper at the deadline.
ShutdownWait ==
  \/ thread = "finished" /\ worker' = "joined"
  \/ thread # "finished" /\ worker' \in {"reaper", "inline"}

Reaped ==
  /\ worker \in {"reaper", "inline"} /\ thread = "finished" /\ worker' = "joined"
  /\ UNCHANGED <<build, thread, hwnd, os_focus, native_handle, shutdown_requested, started, sender,
                 channelVars, pending_high_surrogate, focusChanges, evicted>>

----------------------------------------------------------------------------
(* native::run *)

\* External: DestroyWindow.  The first call sends WM_DESTROY, whose handler reports the
\* close and posts WM_QUIT, and takes the focus away before or after; a later one fails.
Destroy ==
  IF hwnd = "open"
  THEN /\ hwnd' = "destroyed" /\ os_focus' = FALSE
       /\ IF os_focus
          THEN /\ \E order \in {<<"Closed", "FocusLost">>, <<"FocusLost", "Closed">>} :
                    control' = Push(Push(control, order[1]), order[2])
               /\ focusChanges' = focusChanges + 1
          ELSE control' = Push(control, "Closed") /\ UNCHANGED focusChanges
  ELSE UNCHANGED <<hwnd, os_focus, control, focusChanges>>

CreateFails ==
  /\ thread = "creating" /\ build = "native"
  /\ thread' = "finished" /\ started' = "failed"
  /\ UNCHANGED <<build, hwnd, os_focus, native_handle, shutdown_requested, worker, sender,
                 channelVars, pending_high_surrogate, focusChanges, evicted>>

\* CreateWindowExW shows the window; when Windows gives it the focus at once, WM_SETFOCUS
\* is handled inside that call.  run then reports the window as unfocused.
Creates ==
  /\ thread = "creating" /\ build = "native"
  /\ hwnd' = "open" /\ native_handle' = TRUE
  /\ \E focus \in BOOLEAN :
       /\ os_focus' = focus
       /\ control' = Push(IF focus THEN Push(control, "FocusGained") ELSE control, "FocusLost")
  /\ started' = "ok" /\ thread' = "flag"
  /\ UNCHANGED <<build, shutdown_requested, worker, sender, commands, normal,
                 pending_high_surrogate, focusChanges, evicted>>

LooksAtFlag ==
  /\ thread = "flag" /\ build = "native" /\ thread' = "commands"
  /\ IF shutdown_requested THEN Destroy ELSE UNCHANGED <<hwnd, os_focus, control, focusChanges>>
  /\ UNCHANGED <<build, native_handle, shutdown_requested, started, worker, sender, commands,
                 normal, pending_high_surrogate, evicted>>

\* One command.  A frame that the render queue refuses is answered with a diagnostic;
\* SetFocus on the window that has the focus sends no message.
TakesCommand ==
  /\ thread = "commands" /\ build = "native" /\ commands # <<>> /\ commands' = Tail(commands)
  /\ CASE Head(commands) = "Render" ->
            /\ PushControl("RenderRejected") \/ UNCHANGED <<control, evicted>>
            /\ UNCHANGED <<hwnd, os_focus, focusChanges>>
       [] Head(commands) = "RequestFocus" ->
            /\ IF hwnd = "open" /\ ~os_focus
               THEN /\ os_focus' = TRUE /\ control' = Push(control, "FocusGained")
                    /\ focusChanges' = focusChanges + 1
               ELSE UNCHANGED <<os_focus, control, focusChanges>>
            /\ UNCHANGED <<hwnd, evicted>>
       [] Head(commands) \in {"Close", "Shutdown"} -> Destroy /\ UNCHANGED evicted
  /\ UNCHANGED <<build, thread, native_handle, shutdown_requested, started, worker, sender, normal,
                 pending_high_surrogate>>

\* The channel is empty; when its other end is gone too, the window goes.
CommandsDrained ==
  /\ thread = "commands" /\ build = "native" /\ commands = <<>> /\ thread' = "messages"
  /\ IF ~sender THEN Destroy ELSE UNCHANGED <<hwnd, os_focus, control, focusChanges>>
  /\ UNCHANGED <<build, native_handle, shutdown_requested, started, worker, sender, commands,
                 normal, pending_high_surrogate, evicted>>

\* window_proc: focus and close go to the control queue,
FocusMessage ==
  /\ thread = "messages" /\ hwnd = "open" /\ os_focus' = ~os_focus
  /\ control' = Push(control, IF os_focus THEN "FocusLost" ELSE "FocusGained")
  /\ focusChanges' = focusChanges + 1
  /\ UNCHANGED <<build, thread, hwnd, native_handle, shutdown_requested, started, worker, sender,
                 commands, normal, pending_high_surrogate, evicted>>

CloseMessage ==
  /\ thread = "messages" /\ hwnd = "open" /\ Destroy
  /\ UNCHANGED <<build, thread, native_handle, shutdown_requested, started, worker, sender,
                 commands, normal, pending_high_surrogate, evicted>>

\* sizes and input to the event channel: a key if it has a usage, text once it is whole.
\* at and focused are history: the focus message the event came after, and who had the focus.
PostEvent(event) ==
  normal' = Offer(normal, [event |-> event, at |-> focusChanges, focused |-> os_focus])

InputMessage(event) ==
  /\ thread = "messages" /\ hwnd = "open" /\ PostEvent(event)
  /\ UNCHANGED <<build, thread, hwnd, os_focus, native_handle, shutdown_requested, started, worker,
                 sender, commands, control, pending_high_surrogate, focusChanges, evicted>>

SizeMessage == InputMessage([type |-> "Resized"])

CharMessage(unit) ==
  /\ thread = "messages" /\ hwnd = "open"
  /\ LET decoded == DecodeUtf16Unit(pending_high_surrogate, unit) IN
     /\ pending_high_surrogate' = decoded.pending
     /\ IF decoded.text = <<>> THEN UNCHANGED normal
        ELSE PostEvent([type |-> "Text", text |-> decoded.text])
  /\ UNCHANGED <<build, thread, hwnd, os_focus, native_handle, shutdown_requested, started, worker,
                 sender, commands, control, focusChanges, evicted>>

\* No message is left; WM_QUIT comes only after the window is destroyed.
MessagesDrained ==
  /\ thread = "messages" /\ hwnd = "open" /\ thread' = "flag"
  /\ UNCHANGED <<build, hwnd, os_focus, native_handle, shutdown_requested, started, worker, sender,
                 channelVars, pending_high_surrogate, focusChanges, evicted>>

Quits ==
  /\ thread = "messages" /\ hwnd = "destroyed"
  /\ thread' = "finished" /\ native_handle' = FALSE
  /\ UNCHANGED <<build, hwnd, os_focus, shutdown_requested, started, worker, sender, channelVars,
                 pending_high_surrogate, focusChanges, evicted>>

----------------------------------------------------------------------------
(* window_thread without Windows: commands only *)

PortableStarts ==
  /\ thread = "creating" /\ build = "portable" /\ thread' = "flag" /\ started' = "ok"
  /\ UNCHANGED <<build, hwnd, os_focus, native_handle, shutdown_requested, worker, sender,
                 channelVars, pending_high_surrogate, focusChanges, evicted>>

PortableLoop ==
  /\ thread = "flag" /\ build = "portable"
  /\ \/ /\ shutdown_requested /\ control' = Push(control, "Closed") /\ thread' = "finished"
        /\ UNCHANGED <<commands, normal, evicted>>
     \/ /\ ~shutdown_requested /\ commands # <<>> /\ commands' = Tail(commands)
        /\ CASE Head(commands) = "Render" ->
                  /\ \/ PushControl("RenderRejected") /\ UNCHANGED normal
                     \/ PostEvent([type |-> "RenderRequested"]) /\ UNCHANGED <<control, evicted>>
                  /\ UNCHANGED thread
             [] Head(commands) = "RequestFocus" -> UNCHANGED <<thread, control, normal, evicted>>
             [] Head(commands) \in {"Close", "Shutdown"} ->
                  /\ control' = Push(control, "Closed") /\ thread' = "finished"
                  /\ UNCHANGED <<normal, evicted>>
  /\ UNCHANGED <<build, hwnd, os_focus, native_handle, shutdown_requested, started, worker, sender,
                 pending_high_surrogate, focusChanges>>

\* What the thread does of its own accord.
ThreadStep ==
  \/ CreateFails \/ Creates \/ LooksAtFlag \/ TakesCommand \/ CommandsDrained
  \/ MessagesDrained \/ Quits \/ PortableStarts \/ PortableLoop

=============================================================================
