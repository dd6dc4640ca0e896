---------------------------- MODULE ClientSession ----------------------------
(***************************************************************************)
(* ClientSession of nexus-client: the lifecycle of one authorized session  *)
(* on the client.  Each method is a function of the session, the           *)
(* capability it was built with and the clock's reading; it returns the    *)
(* session it leaves behind and whether it succeeded.  Signatures and      *)
(* identities never change during a session, so `verifies` stands for all  *)
(* of them.                                                                *)
(***************************************************************************)
EXTENDS Integers

CONSTANTS
  MaxDuration,          \* SessionPolicy.max_duration
  Window,               \* SessionPolicy.reconnect_window
  NotBefore,            \* SessionCapability.not_before
  ExpiresAt,            \* the earlier of the capability's and the relay token's expires_at
  None

ASSUME PolicyAssumption ==
  /\ MaxDuration \in Nat \ {0} /\ Window \in Nat \ {0}
  /\ NotBefore \in Nat /\ ExpiresAt \in Nat
  /\ None \notin Nat

ClientState == {"Disconnected", "Connecting", "Connected", "Reconnecting", "Expired"}

Session == [state : ClientState,
            reconnect_deadline : Nat \union {None},
            established_at : Nat \union {None}]

NewSession == [state |-> "Disconnected", reconnect_deadline |-> None, established_at |-> None]

Ok(s) == [session |-> s, ok |-> TRUE]
Err(s) == [session |-> s, ok |-> FALSE]

To(s, st) == [s EXCEPT !.state = st]
Expired(s) == [s EXCEPT !.state = "Expired", !.reconnect_deadline = None]

ClaimsValid(c, t) == c.verifies /\ NotBefore <= t /\ t < ExpiresAt

DurationExpired(s, t) == s.established_at # None /\ t - s.established_at >= MaxDuration

CanReconnect(s, t) == /\ s.reconnect_deadline # None /\ t <= s.reconnect_deadline
                      /\ ~DurationExpired(s, t)

EnsureActive(s, c, t) ==
  IF s.state # "Connected" \/ ~ClaimsValid(c, t) THEN Err(s)
  ELSE IF DurationExpired(s, t) THEN Err(Expired(s))
  ELSE Ok(s)

\* A session whose claims lapsed while reconnecting stays Reconnecting.
BeginConnect(s, c, t) ==
  IF s.state = "Reconnecting" /\ ~CanReconnect(s, t) THEN Err(To(s, "Expired"))
  ELSE IF s.state \in {"Disconnected", "Reconnecting"} /\ ClaimsValid(c, t)
       THEN Ok(To(s, "Connecting"))
  ELSE Err(s)

\* Faulty variant: every connection starts the session's duration again.
ConnectedRestarts(s, c, t) ==
  IF \/ s.state # "Connecting" \/ ~ClaimsValid(c, t)
     \/ s.reconnect_deadline # None /\ t > s.reconnect_deadline
  THEN Err(s)
  ELSE Ok([state |-> "Connected", reconnect_deadline |-> None, established_at |-> t])

Connected(s, c, t) ==
  IF s.state # "Connecting" THEN Err(s)
  ELSE IF /\ s.established_at # None /\ s.reconnect_deadline # None
          /\ t > s.reconnect_deadline
       THEN Err(To(s, "Expired"))
  ELSE IF ~ClaimsValid(c, t) THEN Err(s)
  ELSE IF DurationExpired(s, t) THEN Err(To(s, "Expired"))
  ELSE Ok([state |-> "Connected", reconnect_deadline |-> None,
           established_at |-> IF s.established_at = None THEN t ELSE s.established_at])

\* Faulty variant: a failed attempt opens a new window.
ReconnectAttemptFailedExtends(s, t) ==
  IF s.state # "Connecting" THEN Err(s)
  ELSE IF DurationExpired(s, t) \/ s.reconnect_deadline = None \/ t > s.reconnect_deadline
       THEN Err(Expired(s))
  ELSE Ok([s EXCEPT !.state = "Reconnecting", !.reconnect_deadline = t + Window])

ReconnectAttemptFailed(s, t) ==
  IF s.state # "Connecting" THEN Err(s)
  ELSE IF DurationExpired(s, t) \/ s.reconnect_deadline = None \/ t > s.reconnect_deadline
       THEN Err(Expired(s))
  ELSE Ok(To(s, "Reconnecting"))

TransportLost(s, t) ==
  IF s.state # "Connected" THEN Err(s)
  ELSE IF DurationExpired(s, t) THEN Err(To(s, "Expired"))
  ELSE Ok([s EXCEPT !.state = "Reconnecting", !.reconnect_deadline = t + Window])

Expire(s) == IF s.state = "Expired" THEN Err(s) ELSE Ok(Expired(s))

=============================================================================
