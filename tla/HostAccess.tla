------------------------------ MODULE HostAccess ------------------------------
(***************************************************************************)
(* Session access on an enrolled host: nexusd issues capabilities with an  *)
(* establishment window, clients present them, late, again or with a       *)
(* signature that does not verify, and AgentSessionManager admits them     *)
(* through CapabilityVerifier and its NonceReplayCache.                    *)
(*                                                                         *)
(* Time is in ticks.  The window is in whole seconds of the wall clock;    *)
(* the cache measures elapsed time, which the wall clock need not follow.  *)
(***************************************************************************)
EXTENDS AgentIdentity

CONSTANTS
  TicksPerSecond,
  CapabilityTtl,       \* ttl_secs: seconds (120)
  ReplayTtl,           \* AgentSessionManager's replay_ttl: seconds (120)
  ReplayCapacity,      \* its replay_capacity (10 000)
  Protocols,           \* the versions a connection may negotiate
  MaxCapabilities,     \* bound: capabilities issued
  MaxPresentations,    \* bound: capabilities presented
  MaxClock,            \* bound: ticks
  MaxClockSteps        \* bound: times the wall clock is set back by a second

VARIABLES
  clock,               \* Instant::now, in ticks
  behind,              \* ticks by which the wall clock has been set back
  capabilities,        \* session -> the capability issued for it
  cache,               \* NonceReplayCache.entries: nonce -> when it was seen
  active,              \* active_sessions
  verdict,             \* how the last presentation ended
  log                  \* the presentations to this run of the agent

accessVars == <<clock, behind, capabilities, cache, active, verdict, log>>
vars == <<identityVars, accessVars>>

ASSUME AccessAssumption ==
  /\ {TicksPerSecond, CapabilityTtl, ReplayTtl, ReplayCapacity} \subseteq Nat \ {0}
  /\ {MaxClock, MaxClockSteps} \subseteq Nat /\ Protocols \subseteq Nat

\* SystemClock.now, in seconds.
WallSecs == (clock - behind + TicksPerSecond * MaxClockSteps) \div TicksPerSecond

Init ==
  /\ IdentityInit
  /\ clock = 0 /\ behind = 0 /\ capabilities = <<>>
  /\ cache = <<>> /\ active = {} /\ verdict = None /\ log = {}

----------------------------------------------------------------------------
(* nexusd *)

\* SessionCapability::validate, of the fields that may differ here.
ValidCapability(c) == c.not_before < c.expires_at /\ c.min_protocol <= c.max_protocol

\* request_session_handler for a registered device.  The session's number stands for its
\* random nonce.
Issues ==
  LET session == Cardinality(DOMAIN capabilities) + 1 IN
  /\ device # None /\ session <= MaxCapabilities
  /\ capabilities' = [s \in DOMAIN capabilities \union {session} |->
       IF s # session THEN capabilities[s]
       ELSE [not_before |-> WallSecs, expires_at |-> WallSecs + CapabilityTtl,
             target |-> device.device, min_protocol |-> 1, max_protocol |-> 1]]
  /\ UNCHANGED <<identityVars, clock, behind, cache, active, verdict, log>>

----------------------------------------------------------------------------
(* NonceReplayCache::accept *)

\* Faulty variant: nothing is pruned.
NeverPruned == DOMAIN cache

\* prune
Fresh == {n \in DOMAIN cache : clock - cache[n] < ReplayTtl * TicksPerSecond}

Accepts(nonce) == nonce \notin Fresh /\ Cardinality(Fresh) < ReplayCapacity

\* The entries after accept; a refused nonce still prunes.
CacheAfter(nonce) ==
  [n \in Fresh \union (IF Accepts(nonce) THEN {nonce} ELSE {}) |-> IF n \in Fresh THEN cache[n] ELSE clock]

----------------------------------------------------------------------------
(* CapabilityVerifier::verify and verify_and_accept_session *)

\* Faulty variant: the window has no end.
PrecheckNeverExpires(c, protocol) ==
  IF ~ValidCapability(c) THEN "ProtocolValidation"
  ELSE IF c.target # agent.credential.device THEN "TargetDeviceMismatch"
  ELSE IF WallSecs < c.not_before THEN "NotYetActive"
  ELSE IF protocol < c.min_protocol \/ protocol > c.max_protocol THEN "ProtocolRangeViolation"
  ELSE "ok"

\* The checks before the replay cache, in their order; "ok" when the cache is asked.
Precheck(c, protocol) ==
  IF ~ValidCapability(c) THEN "ProtocolValidation"
  ELSE IF c.target # agent.credential.device THEN "TargetDeviceMismatch"
  ELSE IF WallSecs < c.not_before THEN "NotYetActive"
  ELSE IF WallSecs > c.expires_at THEN "Expired"
  ELSE IF protocol < c.min_protocol \/ protocol > c.max_protocol THEN "ProtocolRangeViolation"
  ELSE "ok"

Verdict(session, protocol, intact) ==
  LET pre == Precheck(capabilities[session], protocol) IN
  IF pre # "ok" THEN pre
  ELSE IF ~Accepts(session) THEN "ReplayDetected"
  ELSE IF ~intact THEN "InvalidSignature"
  ELSE IF session \in active THEN "SessionAlreadyActive"
  ELSE "accepted"

\* The manager is bound to the device of the agent's credential.
Presents(session, protocol, intact) ==
  LET v == Verdict(session, protocol, intact) IN
  /\ agent # None /\ agent.credential # None
  /\ Cardinality(log) < MaxPresentations
  /\ verdict' = [session |-> session, result |-> v, protocol |-> protocol, at |-> clock]
  /\ cache' = IF Precheck(capabilities[session], protocol) = "ok" THEN CacheAfter(session) ELSE cache
  /\ active' = IF v = "accepted" THEN active \union {session} ELSE active
  /\ log' = log \union {[session |-> session, at |-> clock, secs |-> WallSecs, result |-> v]}
  /\ UNCHANGED <<identityVars, clock, behind, capabilities>>

TerminatesSession(session) ==
  /\ session \in active /\ active' = active \ {session}
  /\ UNCHANGED <<identityVars, clock, behind, capabilities, cache, verdict, log>>

\* A run of the agent ends, and with it its manager's cache and sessions.
AgentStops ==
  /\ Stops
  /\ cache' = <<>> /\ active' = {} /\ verdict' = None /\ log' = {}
  /\ UNCHANGED <<clock, behind, capabilities>>

----------------------------------------------------------------------------
(* Clocks; nothing reads them before the first capability is issued *)

Ticks ==
  /\ capabilities # <<>> /\ clock < MaxClock /\ clock' = clock + 1
  /\ UNCHANGED <<identityVars, behind, capabilities, cache, active, verdict, log>>

WallClockSetBack ==
  /\ capabilities # <<>> /\ behind < MaxClockSteps * TicksPerSecond /\ behind' = behind + TicksPerSecond
  /\ UNCHANGED <<identityVars, clock, capabilities, cache, active, verdict, log>>

Next ==
  \/ IdentityNext /\ UNCHANGED accessVars
  \/ Issues \/ AgentStops \/ Ticks \/ WallClockSetBack
  \/ \E s \in DOMAIN capabilities, p \in Protocols, i \in BOOLEAN : Presents(s, p, i)
  \/ \E s \in active : TerminatesSession(s)

Spec == Init /\ [][Next]_vars

----------------------------------------------------------------------------
(* Properties *)

Results == {"ProtocolValidation", "TargetDeviceMismatch", "NotYetActive", "Expired",
            "ProtocolRangeViolation", "ReplayDetected", "InvalidSignature",
            "SessionAlreadyActive", "accepted"}

TypeOK ==
  /\ IdentityTypeOK
  /\ clock \in 0..MaxClock /\ behind \in 0..(MaxClockSteps * TicksPerSecond)
  /\ DOMAIN cache \subseteq DOMAIN capabilities /\ Cardinality(DOMAIN cache) <= ReplayCapacity
  /\ active \subseteq DOMAIN capabilities
  /\ \A l \in log : l.result \in Results

Accepted(session) == {l \in log : l.session = session /\ l.result = "accepted"}

\* One run of the agent accepts a capability twice only when the whole replay period lies
\* between the two: with the two periods equal, as configured, and a wall clock that is never
\* set back, that takes the first second of the capability's window and its last, and the
\* session of the first must have been terminated (replay.rs, verifier.rs).
AcceptedTwiceOnlyAtTheEdges ==
  \A s \in DOMAIN capabilities : \A first, second \in Accepted(s) :
    first.at < second.at =>
      /\ second.at - first.at >= ReplayTtl * TicksPerSecond
      /\ behind = 0 /\ ReplayTtl >= CapabilityTtl =>
           first.secs = capabilities[s].not_before /\ second.secs = capabilities[s].expires_at

\* A capability is refused as a replay only when the same nonce was presented within the
\* replay period, whatever became of it, or as many others as the cache holds were: a full
\* cache refuses newcomers for no longer than that.
ReplayRefusalExplained ==
  verdict # None /\ verdict.result = "ReplayDetected" =>
    LET recent == {l.session : l \in {l \in log : /\ verdict.at - l.at < ReplayTtl * TicksPerSecond
                                                   /\ l.result \in {"accepted", "InvalidSignature",
                                                                    "SessionAlreadyActive"}}} IN
    verdict.session \in recent \/ Cardinality(recent) >= ReplayCapacity

\* A registration that finds its session already active is never the first use of the
\* capability, and has spent the nonce a second time: it takes an acceptance a whole replay
\* period ago whose session still lives.
AlreadyActiveOnlyAfterPeriod ==
  \A l \in log : l.result = "SessionAlreadyActive" =>
    \E first \in Accepted(l.session) : l.at - first.at >= ReplayTtl * TicksPerSecond

\* Both refusals of a capability that is otherwise valid are explained by earlier uses.
RefusalsExplained == TypeOK /\ ReplayRefusalExplained /\ AlreadyActiveOnlyAfterPeriod

=============================================================================
