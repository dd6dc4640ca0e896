---------------------------- MODULE AgentIdentity ----------------------------
(***************************************************************************)
(* The host agent's identity file and its enrollment with nexusd:          *)
(* load_or_generate, save, enroll and set_credential, with a file write    *)
(* that may fail or be cut short, an HTTP answer that may be lost, and an  *)
(* agent that may stop between any two steps.  nexusd's handler, whose     *)
(* interleavings are ControlPlane's subject, is one step here.             *)
(***************************************************************************)
EXTENDS Integers, FiniteSets

CONSTANTS
  MaxCalls,            \* bound: enrollment requests sent
  MaxFaults,           \* bound: writes, answers and audit records that fail
  MaxStops,            \* bound: stops of the agent
  TokenUses,           \* EnrollmentToken.max_uses
  None, Absent, Torn, Rejected

\* DeviceCredential and StoredIdentity.
Credentials == [device : {"dev-host"}, key : Nat]
IdentityRecords == [key : Nat, credential : {None} \union Credentials]

ASSUME IdentityAssumption ==
  /\ TokenUses \in Nat
  /\ Absent # Torn /\ None # Rejected
  /\ \A s \in {None, Absent, Torn, Rejected} : s \notin IdentityRecords \union Credentials

VARIABLES
  file,                \* the file at storage_path: absent, torn or a StoredIdentity
  agent,               \* the AgentIdentity of the running agent, or None
  generated,           \* keys generated so far; the key of the next one is its number
  request,             \* the request on its way to nexusd, or None
  waiting,             \* the agent waits for an answer
  answer,              \* nexusd's answer on its way back, or None
  uses_count,          \* enrollment_tokens.uses_count of the agent's token
  device,              \* the credential of the device's row, or None
  calls, faults, stops

idVars == <<file, agent, generated>>
netVars == <<request, waiting, answer>>
cpVars == <<uses_count, device>>
boundVars == <<calls, faults, stops>>
identityVars == <<idVars, netVars, cpVars, boundVars>>

IdentityInit ==
  /\ file = Absent /\ agent = None /\ generated = 0
  /\ request = None /\ waiting = FALSE /\ answer = None
  /\ uses_count = 0 /\ device = None
  /\ calls = 0 /\ faults = 0 /\ stops = 0

Fault == faults < MaxFaults /\ faults' = faults + 1

----------------------------------------------------------------------------
(* save: create_dir_all, then fs::write, which truncates the file first *)

Stored(key, credential) == [key |-> key, credential |-> credential]

Saved(key, credential) == file' = Stored(key, credential) /\ UNCHANGED faults

\* The directory cannot be made, and the file stays as it was; or the write fails after the
\* truncation.
SaveFailed == Fault /\ file' \in {file, Torn}

----------------------------------------------------------------------------
(* AgentIdentity::load_or_generate *)

\* A file that does not parse ends the start with an error.
Loads ==
  /\ agent = None /\ file \notin {Absent, Torn}
  /\ agent' = file
  /\ UNCHANGED <<file, generated, netVars, cpVars, boundVars>>

\* Faulty variant: a file that does not parse counts as absent.
GeneratesOverTorn ==
  /\ agent = None /\ file \in {Absent, Torn}
  /\ generated' = generated + 1
  /\ Saved(generated + 1, None) /\ agent' = Stored(generated + 1, None)
  /\ UNCHANGED <<netVars, cpVars, calls, stops>>

Generates ==
  /\ agent = None /\ file = Absent
  /\ generated' = generated + 1
  /\ \/ Saved(generated + 1, None) /\ agent' = Stored(generated + 1, None)
     \/ SaveFailed /\ UNCHANGED agent
  /\ UNCHANGED <<netVars, cpVars, calls, stops>>

----------------------------------------------------------------------------
(* EnrollmentClient::enroll *)

\* sign_proof over the token and the time, with the identity's key.
Request(key) == [key |-> key, proof |-> key]

VerifyProof(r) == r.proof = r.key

SendsRequest ==
  /\ agent # None /\ ~waiting /\ request = None /\ calls < MaxCalls
  /\ calls' = calls + 1 /\ waiting' = TRUE
  /\ request' = Request(agent.key)
  /\ UNCHANGED <<idVars, answer, cpVars, faults, stops>>

\* DeviceCredential as the builder makes it and sign signs it.
Credential(r) == [device |-> "dev-host", key |-> r.key]

\* The answer reaches a caller that still waits.
Answers(a) == answer' = IF waiting THEN a ELSE None

\* enroll_device_handler: the token's budget is spent and the device inserted in one
\* transaction; the answer is the credential, or an error when the audit record fails.
Enrolls ==
  /\ request # None /\ request' = None
  /\ VerifyProof(request) /\ uses_count < TokenUses /\ device = None
  /\ uses_count' = uses_count + 1 /\ device' = Credential(request)
  /\ \/ Answers(Credential(request)) /\ UNCHANGED faults
     \/ Fault /\ Answers(Rejected)
  /\ UNCHANGED <<idVars, waiting, calls, stops>>

\* The token is exhausted, or the device's id, derived from the token, is already taken.
RefusesRequest ==
  /\ request # None /\ request' = None
  /\ ~VerifyProof(request) \/ uses_count >= TokenUses \/ device # None
  /\ Answers(Rejected)
  /\ UNCHANGED <<idVars, waiting, cpVars, boundVars>>

\* EnrollmentClientError::Http: the request or the answer is lost, or only the connection,
\* with the request still to be handled.
CallLost ==
  /\ waiting /\ waiting' = FALSE
  /\ Fault /\ request' \in {request, None} /\ answer' = None
  /\ UNCHANGED <<idVars, cpVars, calls, stops>>

ReceivesRejection ==
  /\ waiting /\ answer = Rejected /\ answer' = None /\ waiting' = FALSE
  /\ UNCHANGED <<idVars, request, cpVars, boundVars>>

\* set_credential: the identity holds the credential before the file does, and keeps it when
\* the file cannot be written.
ReceivesCredential ==
  /\ waiting /\ answer \notin {None, Rejected} /\ answer' = None /\ waiting' = FALSE
  /\ agent' = [agent EXCEPT !.credential = answer]
  /\ Saved(agent.key, answer) \/ SaveFailed
  /\ UNCHANGED <<generated, request, cpVars, calls, stops>>

\* The agent stops; while it saves, the file may be cut short.
Stops ==
  /\ agent # None /\ stops < MaxStops /\ stops' = stops + 1
  /\ agent' = None /\ answer' = None /\ waiting' = FALSE
  /\ \/ UNCHANGED <<file, faults>>
     \/ answer \notin {None, Rejected} /\ Fault /\ file' = Torn
  /\ UNCHANGED <<generated, request, cpVars, calls>>

IdentityNext ==
  \/ Loads \/ Generates \/ SendsRequest \/ Enrolls \/ RefusesRequest
  \/ CallLost \/ ReceivesRejection \/ ReceivesCredential

----------------------------------------------------------------------------
(* Properties *)

IdentityTypeOK ==
  /\ file \in {Absent, Torn} \union IdentityRecords
  /\ agent \in {None} \union IdentityRecords
  /\ device \in {None} \union Credentials
  /\ uses_count \in 0..TokenUses /\ generated \in Nat /\ waiting \in BOOLEAN
  /\ waiting => agent # None

\* A credential that the agent or its file holds is the one nexusd registered, for the key
\* held next to it: retries after lost answers, stops and reloads never pair a credential
\* with another key (enroll, set_credential and load_or_generate).
CredentialMatchesKey ==
  \A identity \in {agent, file} \ {None, Absent, Torn} :
    identity.credential # None => identity.credential = device /\ identity.key = device.key

\* Once nexusd has registered a device, the agent's file holds the registered key or was torn
\* by a write: no restart makes a new identity for a registered device, because a new key is
\* saved before it is used and a file that does not parse is an error, not an absent one.
RegisteredKeyKept ==
  device # None => file = Torn \/ (file # Absent /\ file.key = device.key)

\* A registered device whose agent has no credential, neither in memory nor on disk nor on
\* its way, got there through a fault or a stop; from there every retry is refused, because
\* the token's budget is spent and the device id taken.
OrphanOnlyByFault ==
  /\ device # None /\ answer = None
  /\ agent = None \/ agent.credential = None
  /\ file = Torn \/ file.credential = None
  => faults + stops > 0

\* Key, credential and registration stay together through stops, failed writes and lost
\* answers, and only those separate a registered device from its credential.
IdentityKept ==
  IdentityTypeOK /\ CredentialMatchesKey /\ RegisteredKeyKept /\ OrphanOnlyByFault

=============================================================================
