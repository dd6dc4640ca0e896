------------------------ MODULE ClientRuntime_proofs ------------------------
(***************************************************************************)
(* Proofs about the client's session for any durations, windows, claims    *)
(* and bounds.  The inductive invariant ties the session to the place      *)
(* where the runtime's task waits: while a runtime exists established_at   *)
(* is the time of the first connection, and while it reconnects the        *)
(* deadline is the one that the last loss set.                             *)
(***************************************************************************)
EXTENDS ClientRuntime, TLAPS

SessionInv ==
  /\ session \in Session /\ now \in Nat
  /\ firstConnected \in Nat \union {None} /\ lostAt \in Nat \union {None}
  /\ pc \in {"start", "connecting"} => session.established_at = None /\ lostAt = None
  /\ Built => firstConnected \in Nat /\ session.established_at = firstConnected
  /\ pc = "running" => session.state = "Connected"
  /\ pc \in {"retry", "backoff"} => session.state = "Reconnecting"
  /\ pc = "reconnecting" => session.state = "Connecting"
  /\ pc \in {"retry", "backoff", "reconnecting"}
       => lostAt \in Nat /\ session.reconnect_deadline = lostAt + Window

\* Every method of ClientSession returns a session.
LEMMA MethodTypes ==
  ASSUME NEW s \in Session, NEW c, NEW t \in Nat
  PROVE  /\ To(s, "Expired") \in Session /\ Expired(s) \in Session
         /\ EnsureActive(s, c, t).session \in Session
         /\ BeginConnect(s, c, t).session \in Session
         /\ Connected(s, c, t).session \in Session
         /\ ReconnectAttemptFailed(s, t).session \in Session
         /\ TransportLost(s, t).session \in Session
         /\ Expire(s).session \in Session
<1>1. \A st \in ClientState : To(s, st) \in Session
  BY Zenon DEF To, Session
<1>2. Expired(s) \in Session
  BY Zenon DEF Expired, Session, ClientState
<1>3. t + Window \in Nat
  BY PolicyAssumption
<1>4. {"Connecting", "Connected", "Reconnecting", "Expired"} \subseteq ClientState
  BY Zenon DEF ClientState
<1>5. [s EXCEPT !.state = "Reconnecting", !.reconnect_deadline = t + Window] \in Session
  BY <1>3, <1>4, Zenon DEF Session
<1>6. [state |-> "Connected", reconnect_deadline |-> None,
       established_at |-> IF s.established_at = None THEN t ELSE s.established_at] \in Session
  BY <1>4, Zenon DEF Session
<1>7. EnsureActive(s, c, t).session \in Session
  BY <1>2, Zenon DEF EnsureActive, Ok, Err
<1>8. BeginConnect(s, c, t).session \in Session
  BY <1>1, <1>4, Zenon DEF BeginConnect, Ok, Err
<1>9. Connected(s, c, t).session \in Session
  BY <1>1, <1>4, <1>6, Zenon DEF Connected, Ok, Err
<1>10. ReconnectAttemptFailed(s, t).session \in Session
  BY <1>1, <1>2, <1>4, Zenon DEF ReconnectAttemptFailed, Ok, Err
<1>11. TransportLost(s, t).session \in Session
  BY <1>1, <1>4, <1>5, Zenon DEF TransportLost, Ok, Err
<1>12. Expire(s).session \in Session
  BY <1>2, Zenon DEF Expire, Ok, Err
<1> QED BY <1>1, <1>2, <1>4, <1>7, <1>8, <1>9, <1>10, <1>11, <1>12, Zenon

\* What a successful revalidation says of the session: it is left as it was.
LEMMA EnsureActiveOk ==
  ASSUME NEW s \in Session, NEW c, NEW t \in Nat, EnsureActive(s, c, t).ok
  PROVE  /\ EnsureActive(s, c, t).session = s
         /\ s.state = "Connected" /\ ClaimsValid(c, t) /\ ~DurationExpired(s, t)
  BY Zenon DEF EnsureActive, Ok, Err

\* A connection is accepted within its window, if it has one, and keeps the time of the
\* first one.
LEMMA ConnectedOk ==
  ASSUME NEW s \in Session, NEW c, NEW t \in Nat, Connected(s, c, t).ok
  PROVE  /\ Connected(s, c, t).session.state = "Connected"
         /\ Connected(s, c, t).session.established_at
              = IF s.established_at = None THEN t ELSE s.established_at
         /\ s.established_at # None /\ s.reconnect_deadline # None
              => ~(t > s.reconnect_deadline)
  BY Zenon DEF Connected, Ok, Err

\* Changing the state of a session leaves its times alone.
LEMMA ToFields ==
  ASSUME NEW s \in Session, NEW st \in ClientState
  PROVE  /\ To(s, st).state = st /\ To(s, st).established_at = s.established_at
         /\ To(s, st).reconnect_deadline = s.reconnect_deadline
  BY Zenon DEF To, Session

\* The initial state satisfies the invariant.
LEMMA InitSessionInv == Init => SessionInv
<1> SUFFICES ASSUME Init PROVE SessionInv BY Zenon
<1>1. session \in Session /\ session.established_at = None
  BY Zenon DEF Init, NewSession, Session, ClientState
<1> QED BY <1>1, Zenon DEF Init, SessionInv, Built

\* fail_closed and a failed connect end the run and leave a session.
LEMMA EndKeepsInv ==
  ASSUME SessionInv, NEW s \in Session, now' = now,
         firstConnected' \in Nat \union {None}, lostAt' \in Nat \union {None},
         FailClosed(s) \/ ConnectReturns(s)
  PROVE  SessionInv'
<1>1. pc' = "ended" /\ session' \in Session
  BY MethodTypes, Zenon DEF FailClosed, ConnectReturns
<1> QED BY <1>1, Zenon DEF SessionInv, Built

\* A step that changes neither the task's place nor the session.
LEMMA QuietKeepsInv ==
  ASSUME SessionInv, UNCHANGED <<pc, session, firstConnected, lostAt>>, now' \in Nat
  PROVE  SessionInv'
  BY Zenon DEF SessionInv, Built

\* RetryOrFail waits with the session it is given, or ends the run.
LEMMA RetryOrFailKeepsInv ==
  ASSUME SessionInv, NEW s \in Session, UNCHANGED <<now, firstConnected, lostAt>>,
         pc \in {"retry", "reconnecting"},
         s.state = "Reconnecting" => /\ s.established_at = session.established_at
                                     /\ s.reconnect_deadline = session.reconnect_deadline,
         RetryOrFail(s)
  PROVE  SessionInv'
<1>1. CASE s.state = "Reconnecting"
  BY <1>1, Zenon DEF RetryOrFail, SessionInv, Built
<1>2. CASE s.state # "Reconnecting"
  <2>1. FailClosed(s)
    BY <1>2, Zenon DEF RetryOrFail
  <2> QED BY <2>1, EndKeepsInv, Zenon DEF SessionInv
<1> QED BY <1>1, <1>2, Zenon

\* Every step preserves the invariant.
LEMMA StepSessionInv == SessionInv /\ [Next]_vars => SessionInv'
<1> SUFFICES ASSUME SessionInv, [Next]_vars PROVE SessionInv' BY Zenon
<1>t. session \in Session /\ now \in Nat
      /\ firstConnected \in Nat \union {None} /\ lostAt \in Nat \union {None}
  BY Zenon DEF SessionInv
<1> DEFINE active == EnsureActive(session, setup, now)
           begun == BeginConnect(session, setup, now)
           joined == Connected(session, setup, now)
<1>s. /\ active.session \in Session /\ begun.session \in Session /\ joined.session \in Session
      /\ Expire(session).session \in Session /\ Expire(joined.session).session \in Session
      /\ ReconnectAttemptFailed(session, now).session \in Session
      /\ TransportLost(active.session, now).session \in Session
  BY <1>t, MethodTypes, Zenon
<1> HIDE DEF active, begun, joined
<1>1. CASE Start
  <2>1. CASE pc' = "connecting" /\ session' = begun.session /\ begun.ok
    <3>1. begun.session = To(session, "Connecting")
      BY <2>1, Zenon DEF begun, BeginConnect, Ok, Err
    <3>2. session'.established_at = session.established_at
      BY <1>t, <2>1, <3>1, ToFields DEF ClientState
    <3> QED BY <1>1, <1>s, <1>t, <2>1, <3>2, Zenon DEF Start, SessionInv, Built, Unused, NoLoss
  <2>2. CASE \E s \in Session : ConnectReturns(s)
    BY <1>1, <1>t, <2>2, EndKeepsInv, Zenon DEF Start, Unused, NoLoss
  <2> QED BY <1>1, <1>s, <1>t, <2>1, <2>2, Zenon DEF Start, begun
<1>2. CASE ConnectFails
  BY <1>2, <1>s, <1>t, EndKeepsInv, Zenon DEF ConnectFails, Unused, NoLoss
<1>3. CASE ConnectCancelled
  BY <1>3, <1>s, <1>t, EndKeepsInv, Zenon DEF ConnectCancelled, Unused, NoLoss
<1>4. CASE Connects
  <2>1. CASE pc' = "running" /\ session' = joined.session /\ joined.ok /\ firstConnected' = now
    <3>1. session.established_at = None /\ lostAt' = lostAt /\ now' = now
      BY <1>4, Zenon DEF Connects, SessionInv, Unused, NoLoss
    <3>2. session'.state = "Connected" /\ session'.established_at = now
      BY <1>t, <2>1, <3>1, ConnectedOk, Zenon DEF joined
    <3> QED BY <1>s, <1>t, <2>1, <3>1, <3>2, Zenon DEF SessionInv, Built
  <2>2. CASE \E s \in Session : ConnectReturns(s)
    <3>1. firstConnected' \in Nat \union {None} /\ lostAt' = lostAt /\ now' = now
      BY <1>4, <1>t, Zenon DEF Connects, Unused, NoLoss
    <3> QED BY <1>t, <2>2, <3>1, EndKeepsInv, Zenon
  <2> QED BY <1>4, <1>s, <1>t, <2>1, <2>2, Zenon DEF Connects, joined
<1>5. CASE RunCancelled
  BY <1>5, <1>t, EndKeepsInv, Zenon DEF RunCancelled, Unused, NoLoss
<1>6. CASE RunDatagram
  <2>1. CASE active.ok /\ session' = active.session /\ UNCHANGED pc
    <3>1. session' = session
      BY <1>t, <2>1, EnsureActiveOk, Zenon DEF active
    <3> QED BY <1>6, <1>t, <2>1, <3>1, QuietKeepsInv, Zenon DEF RunDatagram, Unused, NoLoss
  <2>2. CASE FailClosed(active.session)
    BY <1>6, <1>s, <1>t, <2>2, EndKeepsInv, Zenon DEF RunDatagram, Unused, NoLoss
  <2> QED BY <1>6, <2>1, <2>2, Zenon DEF RunDatagram, active
<1>7. CASE RunTransportLost
  <2> DEFINE lost == TransportLost(active.session, now)
  <2> HIDE DEF lost
  <2>1. CASE active.ok /\ lost.ok /\ pc' = "retry" /\ session' = lost.session /\ lostAt' = now
             /\ firstConnected' = firstConnected
    <3>1. active.session = session
      BY <1>t, <2>1, EnsureActiveOk, Zenon DEF active
    <3>2. lost.session = [session EXCEPT !.state = "Reconnecting", !.reconnect_deadline = now + Window]
      BY <2>1, <3>1, Zenon DEF lost, TransportLost, Ok, Err
    <3>3. /\ session'.state = "Reconnecting" /\ session'.reconnect_deadline = now + Window
          /\ session'.established_at = session.established_at
      BY <1>t, <2>1, <3>2, Zenon DEF Session
    <3>4. now' = now /\ pc = "running"
      BY <1>7, Zenon DEF RunTransportLost, Unused
    <3> QED BY <1>s, <1>t, <2>1, <3>3, <3>4, Zenon DEF SessionInv, Built, lost
  <2>2. CASE (FailClosed(lost.session) \/ FailClosed(active.session)) /\ NoLoss
    BY <1>7, <1>s, <1>t, <2>2, EndKeepsInv, Zenon DEF RunTransportLost, Unused, NoLoss, lost
  <2> QED BY <1>7, <2>1, <2>2, Zenon DEF RunTransportLost, active, lost
<1>8. CASE RunTransportFailed
  BY <1>8, <1>s, <1>t, EndKeepsInv, Zenon DEF RunTransportFailed, Unused, NoLoss, active
<1>9. CASE RunPoll
  <2>1. CASE active.ok /\ session' = active.session /\ UNCHANGED pc
    <3>1. session' = session
      BY <1>t, <2>1, EnsureActiveOk, Zenon DEF active
    <3> QED BY <1>9, <1>t, <2>1, <3>1, QuietKeepsInv, Zenon DEF RunPoll, NoLoss
  <2>2. CASE FailClosed(active.session)
    BY <1>9, <1>s, <1>t, <2>2, EndKeepsInv, Zenon DEF RunPoll, NoLoss
  <2> QED BY <1>9, <2>1, <2>2, Zenon DEF RunPoll, active
<1>10. CASE RunPipelineError
  BY <1>10, <1>t, EndKeepsInv, Zenon DEF RunPipelineError, Unused, NoLoss
<1>11. CASE Retry
  <2>0. UNCHANGED <<now, firstConnected, lostAt>> /\ pc = "retry"
    BY <1>11, Zenon DEF Retry, Unused, NoLoss
  <2>1. CASE FailClosed(session)
    BY <1>t, <2>0, <2>1, EndKeepsInv, Zenon
  <2>2. CASE ~begun.ok /\ RetryOrFail(begun.session)
    <3>1. begun.session \in {session, To(session, "Expired")}
      BY <2>2, Zenon DEF begun, BeginConnect, Ok, Err
    <3>2. To(session, "Expired").state # "Reconnecting"
      BY <1>t, ToFields, Zenon DEF ClientState
    <3> QED BY <1>s, <2>0, <2>2, <3>1, <3>2, RetryOrFailKeepsInv, Zenon
  <2>3. CASE begun.ok /\ pc' = "reconnecting" /\ session' = begun.session
    <3>1. begun.session = To(session, "Connecting")
      BY <2>3, Zenon DEF begun, BeginConnect, Ok, Err
    <3>2. /\ session'.state = "Connecting" /\ session'.established_at = session.established_at
          /\ session'.reconnect_deadline = session.reconnect_deadline
      BY <1>t, <2>3, <3>1, ToFields DEF ClientState
    <3> QED BY <1>s, <1>t, <2>0, <2>3, <3>2, Zenon DEF SessionInv, Built
  <2> QED BY <1>11, <2>1, <2>2, <2>3, Zenon DEF Retry, begun
<1>12. CASE ReconnectCancelled
  BY <1>12, <1>t, EndKeepsInv, Zenon DEF ReconnectCancelled, Unused, NoLoss
<1>13. CASE ReconnectFails
  <2>0. UNCHANGED <<now, firstConnected, lostAt>> /\ pc = "reconnecting"
        /\ RetryOrFail(ReconnectAttemptFailed(session, now).session)
    BY <1>13, Zenon DEF ReconnectFails, Unused, NoLoss
  <2>1. ReconnectAttemptFailed(session, now).session
          \in {session, Expired(session), To(session, "Reconnecting")}
    BY Zenon DEF ReconnectAttemptFailed, Ok, Err
  <2>2. Expired(session).state # "Reconnecting"
    BY <1>t, Zenon DEF Expired, Session
  <2>3. /\ To(session, "Reconnecting").established_at = session.established_at
        /\ To(session, "Reconnecting").reconnect_deadline = session.reconnect_deadline
    BY <1>t, ToFields, Zenon DEF ClientState
  <2> QED BY <1>s, <2>0, <2>1, <2>2, <2>3, RetryOrFailKeepsInv, Zenon
<1>14. CASE Reconnects
  <2>0. UNCHANGED <<now, firstConnected, lostAt>> /\ pc = "reconnecting"
    BY <1>14, Zenon DEF Reconnects, Unused, NoLoss
  <2>1. CASE ~joined.ok /\ RetryOrFail(joined.session)
    <3>1. joined.session \in {session, To(session, "Expired")}
      BY <2>1, Zenon DEF joined, Connected, Ok, Err
    <3>2. To(session, "Expired").state # "Reconnecting"
      BY <1>t, ToFields, Zenon DEF ClientState
    <3> QED BY <1>s, <2>0, <2>1, <3>1, <3>2, RetryOrFailKeepsInv, Zenon
  <2>2. CASE FailClosed(joined.session)
    BY <1>s, <1>t, <2>0, <2>2, EndKeepsInv, Zenon
  <2>3. CASE joined.ok /\ pc' = "running" /\ session' = joined.session
    <3>1. firstConnected \in Nat /\ session.established_at = firstConnected
      BY <2>0, Zenon DEF SessionInv, Built
    <3>2. session'.state = "Connected" /\ session'.established_at = firstConnected
      <4>1. /\ joined.session.state = "Connected"
            /\ joined.session.established_at
                 = IF session.established_at = None THEN now ELSE session.established_at
        BY <1>t, <2>3, ConnectedOk, Zenon DEF joined
      <4>2. firstConnected # None
        BY <3>1, PolicyAssumption, Zenon
      <4> QED BY <2>3, <3>1, <4>1, <4>2, Zenon
    <3>3. session' \in Session
      BY <1>s, <2>3, Zenon
    <3> QED BY <1>t, <2>0, <2>3, <3>1, <3>2, <3>3, Zenon DEF SessionInv, Built
  <2> QED BY <1>14, <2>1, <2>2, <2>3, Zenon DEF Reconnects, joined
<1>15. CASE BackoffEnds
  BY <1>15, Zenon DEF BackoffEnds, sessionVars, SessionInv, Built
<1>16. CASE Environment \/ UNCHANGED vars
  <2>1. CASE Tick
    BY <2>1, <1>t, QuietKeepsInv DEF Tick
  <2>2. CASE ConnectionEnds \/ Cancel \/ CloseEvent \/ InputEvent \/ UNCHANGED vars
    BY <2>2, <1>t, QuietKeepsInv, Zenon DEF ConnectionEnds, Cancel, CloseEvent, InputEvent, vars,
                                     sessionVars
  <2>3. CASE FocusEvent
    <3>1. UNCHANGED <<pc, sessionVars>>
      BY <2>3, Zenon DEF FocusEvent
    <3> QED BY <3>1, <1>t, QuietKeepsInv, Zenon DEF sessionVars
  <2> QED BY <1>16, <2>1, <2>2, <2>3, Zenon DEF Environment
<1> QED BY <1>1, <1>2, <1>3, <1>4, <1>5, <1>6, <1>7, <1>8, <1>9, <1>10, <1>11, <1>12, <1>13,
           <1>14, <1>15, <1>16, Zenon DEF Next, Runtime

\* The invariant holds throughout.
THEOREM SessionInvariant == Spec => []SessionInv
  BY InitSessionInv, StepSessionInv, PTL DEF Spec

\* However often the client reconnects, it accepts frames and sends controls only within
\* the claims and within max_duration of its first connection (ensure_active is called
\* before either, and connected keeps established_at).
THEOREM UseWithinLimitsHolds == Spec => UseWithinLimits
<1>1. SessionInv /\ [Next]_vars
      => [received_frames' # received_frames \/ sent_input_messages' # sent_input_messages
          => /\ session.state = "Connected" /\ conn.state = "open"
             /\ ClaimsValid(setup, now)
             /\ firstConnected # None /\ now < firstConnected + MaxDuration]_vars
  <2> SUFFICES ASSUME SessionInv, Next,
                      received_frames' # received_frames
                        \/ sent_input_messages' # sent_input_messages
               PROVE  /\ session.state = "Connected" /\ conn.state = "open"
                      /\ ClaimsValid(setup, now)
                      /\ firstConnected # None /\ now < firstConnected + MaxDuration
    BY Zenon DEF vars, dataVars
  <2>1. RunDatagram \/ RunPoll
    BY Zenon DEF Next, Runtime, Environment, Start, ConnectFails, ConnectCancelled, Connects,
           RunCancelled, RunTransportLost, RunTransportFailed, RunPipelineError, Retry,
           ReconnectCancelled, ReconnectFails, Reconnects, BackoffEnds, Tick, ConnectionEnds,
           Cancel, FocusEvent, CloseEvent, InputEvent, NotSent, dataVars
  <2>2. /\ EnsureActive(session, setup, now).ok /\ conn.state = "open" /\ pc = "running"
    <3>1. CASE RunDatagram
      BY <3>1, Zenon DEF RunDatagram, NotSent
    <3>2. CASE RunPoll
      <4> DEFINE pumped == PumpWindowEvents
                 drained == IF setup.control THEN pumped.input ELSE ClearPending(pumped.input)
                 sends == drained.queue # <<>>
      <4> HIDE DEF sends
      <4>1. pc = "running" /\ EnsureActive(session, setup, now).ok
            /\ (sends => conn.state = "open")
            /\ received_frames' = received_frames
            /\ (~sends => sent_input_messages' = sent_input_messages)
        BY <3>2, Zenon DEF RunPoll, NotSent, sends
      <4>2. CASE sends
        BY <4>1, <4>2, Zenon
      <4>3. CASE ~sends
        BY <4>1, <4>3, Zenon
      <4> QED BY <4>2, <4>3, Zenon
    <3> QED BY <2>1, <3>1, <3>2, Zenon
  <2>3. session \in Session /\ now \in Nat
        /\ firstConnected \in Nat /\ session.established_at = firstConnected
    BY <2>2, Zenon DEF SessionInv, Built
  <2>4. session.state = "Connected" /\ ClaimsValid(setup, now) /\ ~DurationExpired(session, now)
    BY <2>2, <2>3, EnsureActiveOk, Zenon
  <2>5. firstConnected # None /\ MaxDuration \in Nat
    BY <2>3, PolicyAssumption, Zenon
  <2>6. now < firstConnected + MaxDuration
    BY <2>3, <2>4, <2>5 DEF DurationExpired
  <2> QED BY <2>2, <2>4, <2>5, <2>6, Zenon
<1> QED BY <1>1, SessionInvariant, PTL DEF Spec, UseWithinLimits

\* A lost session is connected again only within the window that its loss opened,
\* whatever attempts failed in between (reconnect_deadline is set by transport_lost and
\* by nothing else).
THEOREM ReconnectInWindowHolds == Spec => ReconnectInWindow
<1>1. SessionInv /\ [Next]_vars
      => [session'.state = "Connected" /\ session.state # "Connected" /\ lostAt # None
          => now <= lostAt + Window]_vars
  <2> SUFFICES ASSUME SessionInv, Next, session'.state = "Connected",
                      session.state # "Connected", lostAt # None
               PROVE  now <= lostAt + Window
    BY Zenon DEF vars, sessionVars
  <2>t. session \in Session /\ now \in Nat
    BY Zenon DEF SessionInv
  <2>1. \A s \in Session : Expire(s).session.state = "Expired"
    BY Zenon DEF Expire, Expired, Ok, Err, Session
  <2>2. \A s \in Session : ~FailClosed(s)
    BY <2>1, Zenon DEF FailClosed
  <2>3. pc \notin {"start", "connecting", "running"}
    BY Zenon DEF SessionInv
  <2>4. pc' = pc => session' # session
    BY Zenon
  <2>5. Reconnects
    <3>1. ~(Retry \/ ReconnectFails)
      <4>1. \A s \in Session : ~RetryOrFail(s)
        BY <2>2, Zenon DEF RetryOrFail
      <4>2. BeginConnect(session, setup, now).session.state # "Connected"
        <5>1. BeginConnect(session, setup, now).session
                \in {session, To(session, "Expired"), To(session, "Connecting")}
          BY Zenon DEF BeginConnect, Ok, Err
        <5> QED BY <2>t, <5>1, ToFields, Zenon DEF ClientState
      <4> QED BY <2>t, <2>2, <4>1, <4>2, MethodTypes, Zenon DEF Retry, ReconnectFails
    <3>2. ~ReconnectCancelled
      BY <2>t, <2>2, Zenon DEF ReconnectCancelled
    <3> QED BY <2>3, <2>4, <3>1, <3>2, Zenon
        DEF Next, Runtime, Environment, Start, ConnectFails, ConnectCancelled, Connects,
            RunCancelled, RunDatagram, RunTransportLost, RunTransportFailed, RunPoll,
            RunPipelineError, BackoffEnds, Tick, ConnectionEnds, Cancel, FocusEvent, CloseEvent,
            InputEvent, sessionVars
  <2>6. pc = "reconnecting" /\ Connected(session, setup, now).ok
    <3>1. \A s \in Session : ~RetryOrFail(s)
      BY <2>2, Zenon DEF RetryOrFail
    <3> QED BY <2>5, <2>t, <3>1, MethodTypes, Zenon DEF Reconnects
  <2>7. lostAt \in Nat /\ session.reconnect_deadline = lostAt + Window
        /\ firstConnected \in Nat /\ session.established_at = firstConnected
    BY <2>6, Zenon DEF SessionInv, Built
  <2>8. lostAt + Window \in Nat /\ session.established_at # None
        /\ session.reconnect_deadline # None
    BY <2>7, PolicyAssumption
  <2> QED BY <2>t, <2>6, <2>7, <2>8, ConnectedOk
<1> QED BY <1>1, SessionInvariant, PTL DEF Spec, ReconnectInWindow

=============================================================================
