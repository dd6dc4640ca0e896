---------------------------- MODULE ClientRuntime ----------------------------
(***************************************************************************)
(* run_configured_with_cancellation of nexus-client: connect, pump the     *)
(* connection and the window, lose the transport, reconnect, stop.  A step *)
(* ends at every await, so the clock, the window thread, the network and   *)
(* the holder of the cancellation handle act in between.  The native       *)
(* pipeline and the frame receiver have modules of their own; here they    *)
(* accept what they are given or fail.                                     *)
(***************************************************************************)
EXTENDS ClientSession, Sequences, Functions

CONSTANTS
  Setups,               \* capabilities and configurations a client may start with
  EventCapacity,        \* WindowConfig.channel_capacity
  QueueCapacity,        \* DEFAULT_INPUT_QUEUE_CAPACITY
  RatePerSecond,        \* DEFAULT_INPUT_RATE_PER_SECOND
  MaxTime,              \* bound: the clock
  MaxConns,             \* bound: QUIC connections established
  MaxEvents,            \* bound: input events of the window
  MaxFocus,             \* bound: focus changes of the window
  MaxFrames             \* bound: datagrams accepted

ASSUME BoundsAssumption ==
  /\ \A c \in Setups : {c.verifies, c.view, c.control, c.stream} \subseteq BOOLEAN
  /\ MaxTime \in Nat /\ MaxConns \in Nat /\ MaxEvents \in Nat /\ MaxFrames \in Nat

VARIABLES
  pc,                   \* where the runtime's task waits
  now,                  \* SystemClock
  setup,                \* what the client was started with
  session,              \* ClientRuntime.session
  cancelled, permit,    \* RuntimeCancellation: the flag, and the permit of its Notify
  conn,                 \* ClientRuntime.connection: how many there were, and the last one's state
  control, normal,      \* the window's ControlEventQueue and its event channel
  input,                \* InputController
  latest,               \* the connection that latest_frame came over
  received_frames, sent_input_messages,
  firstConnected, lostAt, \* when the session was first established, and last lost
  sentOver,             \* for each control sent: the connection it was queued under, and sent on
  events, focusChanges

sessionVars == <<now, setup, session, firstConnected, lostAt>>
windowVars == <<control, normal, events, focusChanges>>
dataVars == <<input, latest, received_frames, sent_input_messages, sentOver>>
vars == <<pc, sessionVars, cancelled, permit, conn, windowVars, dataVars>>

Focus == {"focused", "unfocused"}

NoInput == [focused |-> FALSE, shutdown |-> FALSE, queue |-> <<>>, recent |-> <<>>]

\* A closed connection was closed by the peer or reset; a failed one timed out or broke
\* the protocol.
ConnState == {"none", "open", "closed", "failed", "dropped"}

Init == /\ pc = "start" /\ now = 0 /\ setup \in Setups
        /\ session = NewSession
        /\ cancelled = FALSE /\ permit = FALSE
        /\ conn = [id |-> 0, state |-> "none"]
        /\ control = <<>> /\ normal = <<>> /\ input = NoInput
        /\ latest = None /\ received_frames = 0 /\ sent_input_messages = 0
        /\ firstConnected = None /\ lostAt = None /\ sentOver = {}
        /\ events = 0 /\ focusChanges = 0

\* The runtime exists between build and its drop.
Built == pc \in {"running", "retry", "reconnecting", "backoff"}

----------------------------------------------------------------------------
(* fail_closed, and the errors that run_configured returns *)

\* The session is expired, the transport closed, input and frames are discarded; the
\* error then leaves run_configured, or the runtime's Drop has brought it here.
FailClosed(s) ==
  /\ pc' = "ended" /\ session' = Expire(s).session
  /\ cancelled' = TRUE /\ permit' = TRUE
  /\ conn' = [conn EXCEPT !.state = "dropped"]
  /\ input' = [input EXCEPT !.shutdown = TRUE, !.focused = FALSE, !.queue = <<>>]
  /\ latest' = None

\* connect_with_cancellation returns before there is a runtime.
ConnectReturns(s) ==
  /\ pc' = "ended" /\ session' = s
  /\ conn' = [conn EXCEPT !.state = "dropped"]
  /\ UNCHANGED <<input, latest>>

Unused == UNCHANGED <<now, setup, windowVars>>
NotSent == UNCHANGED <<received_frames, sent_input_messages, sentOver>>
NoLoss == UNCHANGED <<firstConnected, lostAt>>

----------------------------------------------------------------------------
(* connect_with_cancellation *)

Start ==
  /\ pc = "start"
  /\ LET begun == BeginConnect(session, setup, now) IN
     \/ /\ cancelled
        /\ ConnectReturns(Expire(session).session)
     \/ /\ ~cancelled /\ ~(setup.stream /\ setup.view)
        /\ ConnectReturns(session)
     \/ /\ ~cancelled /\ setup.stream /\ setup.view /\ ~begun.ok
        /\ ConnectReturns(begun.session)
     \/ /\ ~cancelled /\ setup.stream /\ setup.view /\ begun.ok
        /\ pc' = "connecting" /\ session' = begun.session
        /\ UNCHANGED <<conn, input, latest>>
  /\ Unused /\ NotSent /\ NoLoss /\ UNCHANGED <<cancelled, permit>>

\* endpoint.connect or the handshake fails.
ConnectFails ==
  /\ pc = "connecting"
  /\ ConnectReturns(Expire(session).session)
  /\ Unused /\ NotSent /\ NoLoss /\ UNCHANGED <<cancelled, permit>>

ConnectCancelled ==
  /\ pc = "connecting" /\ permit /\ permit' = FALSE
  /\ ConnectReturns(Expire(session).session)
  /\ Unused /\ NotSent /\ NoLoss /\ UNCHANGED cancelled

\* The handshake completes; build starts the window, the pipeline and the controller.
Connects ==
  /\ pc = "connecting" /\ conn.id < MaxConns
  /\ LET joined == Connected(session, setup, now) IN
     IF cancelled \/ ~joined.ok
     THEN /\ ConnectReturns(Expire(IF cancelled THEN session ELSE joined.session).session)
          /\ NoLoss
     ELSE /\ \/ /\ pc' = "running" /\ session' = joined.session
                /\ conn' = [id |-> conn.id + 1, state |-> "open"]
                /\ UNCHANGED <<input, latest>>
             \/ ConnectReturns(joined.session)    \* the window or the pipeline does not start
          /\ firstConnected' = now /\ UNCHANGED lostAt
  /\ Unused /\ NotSent /\ UNCHANGED <<cancelled, permit>>

----------------------------------------------------------------------------
(* InputController, fed by pump_window_events *)

Recent(i) == SelectSeq(i.recent, LAMBDA t : now - t < 1)

\* Faulty variant: the controls of the old transport stay queued.
ClearRecent(i) == [i EXCEPT !.recent = <<>>]

ClearPending(i) == [i EXCEPT !.queue = <<>>, !.recent = <<>>]

EnqueueFails(i) ==
  ~i.focused \/ Len(i.queue) >= QueueCapacity \/ Len(Recent(i)) >= RatePerSecond

Enqueue(i) == [i EXCEPT !.queue = Append(@, conn.id), !.recent = Append(Recent(i), now)]

\* One event of the window: the controller it leaves, and whether the pump goes on.
HandleWindowEvent(p, e) ==
  IF ~p.ok THEN p
  ELSE CASE e \in Focus -> [p EXCEPT !.input.focused = (e = "focused")]
         [] e = "closed" -> [p EXCEPT !.ok = FALSE]
         [] e = "input" /\ ~setup.control -> p
         [] e = "input" /\ setup.control ->
              IF EnqueueFails(p.input) THEN [p EXCEPT !.ok = FALSE]
              ELSE [p EXCEPT !.input = Enqueue(p.input)]

\* pump_window_events: every control event is taken before any event of the channel.
PumpWindowEvents ==
  LET queued == control \o normal
      pumped[k \in 0..Len(queued)] ==
        IF k = 0 THEN [input |-> input, ok |-> TRUE]
        ELSE HandleWindowEvent(pumped[k - 1], queued[k])
  IN  pumped[Len(queued)]

----------------------------------------------------------------------------
(* run *)

RunCancelled ==
  /\ pc = "running" /\ permit
  /\ FailClosed(session)
  /\ Unused /\ NotSent /\ NoLoss

\* A datagram that the receiver, the render queue and the pipeline accept, or one of
\* them refuses.
RunDatagram ==
  /\ pc = "running" /\ conn.state = "open" /\ received_frames < MaxFrames
  /\ LET active == EnsureActive(session, setup, now) IN
     \/ /\ active.ok
        /\ latest' = conn.id /\ received_frames' = received_frames + 1
        /\ session' = active.session
        /\ UNCHANGED <<pc, cancelled, permit, conn, input, sent_input_messages, sentOver>>
     \/ /\ FailClosed(active.session) /\ NotSent
  /\ Unused /\ NoLoss

\* read_datagram reports the connection closed or reset.
RunTransportLost ==
  /\ pc = "running" /\ conn.state = "closed"
  /\ LET active == EnsureActive(session, setup, now)
         lost == TransportLost(active.session, now) IN
     IF active.ok /\ ~cancelled /\ lost.ok
     THEN /\ pc' = "retry" /\ session' = lost.session /\ lostAt' = now
          /\ UNCHANGED <<cancelled, permit, conn, input, latest, firstConnected>>
     ELSE FailClosed(IF active.ok /\ ~cancelled THEN lost.session ELSE active.session) /\ NoLoss
  /\ Unused /\ NotSent

\* read_datagram reports any other error.
RunTransportFailed ==
  /\ pc = "running" /\ conn.state = "failed"
  /\ FailClosed(EnsureActive(session, setup, now).session)
  /\ Unused /\ NotSent /\ NoLoss

\* The poll timer: revalidate, drain the window, send one control.  send_datagram fails
\* on a connection that is no longer open.
RunPoll ==
  /\ pc = "running"
  /\ LET active == EnsureActive(session, setup, now)
         pumped == PumpWindowEvents
         drained == IF setup.control THEN pumped.input ELSE ClearPending(pumped.input)
         sends == drained.queue # <<>> IN
     /\ control' = <<>> /\ normal' = <<>>
     /\ IF active.ok /\ pumped.ok /\ (sends => conn.state = "open")
        THEN /\ session' = active.session
             /\ input' = IF sends THEN [drained EXCEPT !.queue = Tail(@)] ELSE drained
             /\ sent_input_messages' = IF sends THEN sent_input_messages + 1 ELSE sent_input_messages
             /\ sentOver' = sentOver \union (IF sends THEN {<<Head(drained.queue), conn.id>>} ELSE {})
             /\ UNCHANGED <<pc, cancelled, permit, conn, latest, received_frames>>
        ELSE FailClosed(active.session) /\ NotSent
  /\ UNCHANGED <<now, setup, events, focusChanges>> /\ NoLoss

\* poll_error: the native pipeline reports an error.
RunPipelineError ==
  /\ pc = "running"
  /\ FailClosed(session)
  /\ Unused /\ NotSent /\ NoLoss

----------------------------------------------------------------------------
(* reconnect_with_retry *)

\* An attempt ended: wait and retry while the session is Reconnecting, else fail closed.
RetryOrFail(s) ==
  IF s.state = "Reconnecting"
  THEN /\ pc' = "backoff" /\ session' = s
       /\ UNCHANGED <<cancelled, permit, conn, input, latest>>
  ELSE FailClosed(s)

Retry ==
  /\ pc = "retry"
  /\ LET begun == BeginConnect(session, setup, now) IN
     \/ cancelled /\ FailClosed(session)
     \/ ~cancelled /\ ~begun.ok /\ RetryOrFail(begun.session)
     \/ /\ ~cancelled /\ begun.ok
        /\ pc' = "reconnecting" /\ session' = begun.session
        /\ UNCHANGED <<cancelled, permit, conn, input, latest>>
  /\ Unused /\ NotSent /\ NoLoss

ReconnectCancelled ==
  /\ pc \in {"reconnecting", "backoff"} /\ permit
  /\ FailClosed(session)
  /\ Unused /\ NotSent /\ NoLoss

ReconnectFails ==
  /\ pc = "reconnecting"
  /\ RetryOrFail(ReconnectAttemptFailed(session, now).session)
  /\ Unused /\ NotSent /\ NoLoss

\* The transport is replaced.  A cancellation that came during the handshake is seen
\* when run is entered again.
Reconnects ==
  /\ pc = "reconnecting" /\ conn.id < MaxConns
  /\ LET joined == Connected(session, setup, now) IN
     IF ~joined.ok THEN RetryOrFail(joined.session)
     ELSE IF cancelled THEN FailClosed(joined.session)
     ELSE /\ pc' = "running" /\ session' = joined.session
          /\ conn' = [id |-> conn.id + 1, state |-> "open"]
          /\ input' = ClearPending(input) /\ latest' = None
          /\ UNCHANGED <<cancelled, permit>>
  /\ Unused /\ NotSent /\ NoLoss

BackoffEnds ==
  /\ pc = "backoff" /\ pc' = "retry"
  /\ UNCHANGED <<sessionVars, cancelled, permit, conn, windowVars, dataVars>>

----------------------------------------------------------------------------
(* The clock, the network, the window thread and the holder of the handle *)

Tick == /\ now < MaxTime /\ pc # "ended" /\ now' = now + 1
        /\ UNCHANGED <<pc, setup, session, cancelled, permit, conn, windowVars, dataVars,
                       firstConnected, lostAt>>

ConnectionEnds ==
  /\ conn.state = "open"
  /\ \E st \in {"closed", "failed"} : conn' = [conn EXCEPT !.state = st]
  /\ UNCHANGED <<pc, sessionVars, cancelled, permit, windowVars, dataVars>>

\* Faulty variant: the permit is not kept for a task that does not wait yet.
CancelUnlessRunning ==
  /\ ~cancelled /\ pc # "ended" /\ cancelled' = TRUE
  /\ permit' = (pc \notin {"reconnecting", "connecting"})
  /\ UNCHANGED <<pc, sessionVars, conn, windowVars, dataVars>>

Cancel ==
  /\ ~cancelled /\ pc # "ended" /\ cancelled' = TRUE /\ permit' = TRUE
  /\ UNCHANGED <<pc, sessionVars, conn, windowVars, dataVars>>

\* ControlEventQueue.push coalesces focus events; a close is kept.
FocusEvent ==
  /\ Built /\ focusChanges < MaxFocus /\ "closed" \notin Range(control)
  /\ \E f \in Focus : control' = Append(SelectSeq(control, LAMBDA e : e \notin Focus), f)
  /\ focusChanges' = focusChanges + 1
  /\ UNCHANGED <<pc, sessionVars, cancelled, permit, conn, normal, events, dataVars>>

CloseEvent ==
  /\ Built /\ "closed" \notin Range(control)
  /\ control' = Append(control, "closed")
  /\ UNCHANGED <<pc, sessionVars, cancelled, permit, conn, normal, events, focusChanges, dataVars>>

\* try_send: a full channel drops the event.
InputEvent ==
  /\ Built /\ events < MaxEvents /\ "closed" \notin Range(control)
  /\ events' = events + 1
  /\ normal' = IF Len(normal) < EventCapacity THEN Append(normal, "input") ELSE normal
  /\ UNCHANGED <<pc, sessionVars, cancelled, permit, conn, control, focusChanges, dataVars>>

Environment == Tick \/ ConnectionEnds \/ Cancel \/ FocusEvent \/ CloseEvent \/ InputEvent

Runtime == \/ Start \/ ConnectFails \/ ConnectCancelled \/ Connects
           \/ RunCancelled \/ RunDatagram \/ RunTransportLost \/ RunTransportFailed
           \/ RunPoll \/ RunPipelineError
           \/ Retry \/ ReconnectCancelled \/ ReconnectFails \/ Reconnects \/ BackoffEnds

Next == Runtime \/ Environment

Spec == Init /\ [][Next]_vars

\* What the runtime's task does without waiting for anything, and the cancellation
\* branch of every select: tokio polls a ready branch of a select sooner or later.
Prompt == /\ WF_vars(Start) /\ WF_vars(Retry)
          /\ WF_vars(ConnectCancelled) /\ WF_vars(RunCancelled) /\ WF_vars(ReconnectCancelled)

LiveSpec == Spec /\ Prompt

----------------------------------------------------------------------------
(* Properties *)

\* The variables have their types and the queues keep within their capacities.
TypeOK ==
  /\ pc \in {"start", "connecting", "running", "retry", "reconnecting", "backoff", "ended"}
  /\ now \in 0..MaxTime /\ setup \in Setups /\ session \in Session
  /\ {cancelled, permit} \subseteq BOOLEAN
  /\ conn \in [id : 0..MaxConns, state : ConnState]
  /\ Len(control) <= 2 /\ Range(control) \subseteq Focus \union {"closed"}
  /\ Len(normal) <= EventCapacity /\ Range(normal) \subseteq {"input"}
  /\ input.focused \in BOOLEAN /\ input.shutdown \in BOOLEAN
  /\ Len(input.queue) <= QueueCapacity /\ Len(input.recent) <= RatePerSecond
  /\ Range(input.queue) \subseteq 1..MaxConns /\ Range(input.recent) \subseteq 0..MaxTime
  /\ latest \in (1..MaxConns) \union {None}
  /\ received_frames \in 0..MaxFrames /\ sent_input_messages \in 0..MaxEvents
  /\ {firstConnected, lostAt} \subseteq (0..MaxTime) \union {None}
  /\ sentOver \subseteq (1..MaxConns) \X (1..MaxConns)

\* However often the transport was replaced, a frame is accepted and a control is sent
\* only while the claims are valid and less than max_duration has passed since the
\* session was FIRST connected (ensure_active, established_at).
UseWithinLimits ==
  [][received_frames' # received_frames \/ sent_input_messages' # sent_input_messages
     => /\ session.state = "Connected" /\ conn.state = "open"
        /\ ClaimsValid(setup, now)
        /\ firstConnected # None /\ now < firstConnected + MaxDuration]_vars

\* The session is connected again only within the reconnect window that opened when its
\* transport was lost; failed attempts never extend the window (reconnect_attempt_failed).
ReconnectInWindow ==
  [][session'.state = "Connected" /\ session.state # "Connected" /\ lostAt # None
     => now <= lostAt + Window]_vars

\* An expired session has closed its transport and holds no control and no frame
\* (fail_closed runs on every path that expires the session).
ExpiredIsClean ==
  session.state = "Expired" => /\ conn.state = "dropped"
                               /\ input.queue = <<>> /\ latest = None

\* A control is sent on the connection under which it was queued: controls of a lost
\* transport are not replayed on its successor (clear_pending).
InputOnItsTransport == \A s \in sentOver : s[1] = s[2]

\* What belonged to a transport ends with it: nothing queued for the one is sent on the
\* next, and an expired session keeps nothing at all.
TransportLeavesNothing == TypeOK /\ InputOnItsTransport /\ ExpiredIsClean

\* A cancelled runtime stops even if no handshake ever ends and the clock stands still:
\* the permit of notify_one reaches whichever wait the task is in or enters next.
CancelStops == cancelled ~> pc = "ended"

\* Provided the clock advances, a handshake ends one way or the other (the endpoint has
\* an idle timeout) and the retry timer fires, a client that lost its transport is
\* running again or has ended: reconnect_with_retry does not spin for ever.
ReconnectResolves ==
  WF_vars(Tick) /\ WF_vars(ReconnectFails \/ Reconnects) /\ WF_vars(BackoffEnds)
  => (pc = "retry" ~> pc \in {"running", "ended"})

\* The runtime's task waits for nothing for ever: cancelled it stops, and a lost transport is
\* replaced or ends the session.
StopsOrResumes == CancelStops /\ ReconnectResolves

\* "both endpoints detect the QUIC loss and drive the existing reconnect flow": a client
\* within its limits that meets a lost connection becomes Reconnecting.
LossReconnects ==
  [][/\ conn.state \in {"closed", "failed"} /\ ~cancelled
     /\ EnsureActive(session, setup, now).ok
     /\ RunTransportLost \/ RunTransportFailed \/ (RunPoll /\ control \o normal = <<>>)
     /\ pc' # pc
     => session'.state = "Reconnecting"]_vars

=============================================================================
