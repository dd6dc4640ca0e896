-------------------------- MODULE HostAccess_proofs --------------------------
(***************************************************************************)
(* The identity of an enrolled host and the capabilities it accepts, for   *)
(* every number of calls, faults, stops, capabilities and clock ticks.     *)
(***************************************************************************)
EXTENDS HostAccess, FiniteSetTheorems, TLAPS

----------------------------------------------------------------------------
(* Identity.  There is one key: the file, the agent, a request on its way,  *)
(* and nexusd's row hold the same one.  An answer is awaited, and follows   *)
(* the request it answers.                                                  *)

IdTypes == IdentityTypeOK /\ faults \in Nat /\ stops \in Nat

OneKey ==
  /\ file = Absent => agent = None /\ request = None /\ device = None
  /\ agent # None /\ file # Torn => file.key = agent.key
  /\ request # None => /\ request.key \in Nat
                       /\ file # Torn => request.key = file.key
                       /\ agent # None => request.key = agent.key
  /\ device # None => /\ file # Torn => file.key = device.key
                      /\ agent # None => agent.key = device.key

AnswerInv ==
  /\ answer # None => waiting /\ request = None
  /\ answer \notin {None, Rejected} => answer = device /\ device # None

NoCredential == /\ agent = None \/ agent.credential = None
                /\ file = Torn \/ file.credential = None

Blamed ==
  /\ file = Torn => faults > 0
  /\ request # None /\ ~waiting => faults + stops > 0
  /\ device # None /\ answer \in {None, Rejected} /\ NoCredential => faults + stops > 0

IdentityInv == IdTypes /\ OneKey /\ AnswerInv /\ CredentialMatchesKey /\ Blamed

\* A fresh host has no file, no agent and no device.
LEMMA IdentityStarts == IdentityInit => IdentityInv
<1> SUFFICES ASSUME IdentityInit PROVE IdentityInv
    BY Zenon
<1> USE IdentityAssumption DEF IdentityInit
<1>1. IdTypes
  <2>1. waiting \in BOOLEAN /\ ~waiting
    BY Zenon
  <2> QED BY <2>1 DEF IdTypes, IdentityTypeOK
<1>2. OneKey /\ AnswerInv
  BY Zenon DEF OneKey, AnswerInv
<1>3. CredentialMatchesKey
  BY Zenon DEF CredentialMatchesKey
<1>4. Blamed
  BY Zenon DEF Blamed
<1> QED BY <1>1, <1>2, <1>3, <1>4, Zenon DEF IdentityInv

\* Loading the file keeps them: the agent gets the file's key and credential.
LEMMA LoadsKeeps == IdentityInv /\ Loads => IdentityInv'
<1> SUFFICES ASSUME IdentityInv, Loads PROVE IdentityInv'
    BY Zenon
<1> USE IdentityAssumption DEF IdentityInv
<1>1. IdTypes'
  BY Zenon
     DEF Loads, netVars, cpVars, boundVars, IdTypes, IdentityTypeOK, OneKey, AnswerInv,
         IdentityRecords
<1>2. OneKey'
  BY Zenon
     DEF Loads, netVars, cpVars, boundVars, IdTypes, IdentityTypeOK, OneKey, AnswerInv,
         IdentityRecords
<1>3. AnswerInv'
  BY Zenon
     DEF Loads, netVars, cpVars, boundVars, IdTypes, IdentityTypeOK, OneKey, AnswerInv,
         IdentityRecords
<1>4. CredentialMatchesKey'
  BY Zenon
     DEF Loads, netVars, cpVars, boundVars, IdTypes, IdentityTypeOK, OneKey, AnswerInv,
         CredentialMatchesKey, IdentityRecords
<1>5. Blamed'
  BY Zenon
     DEF Loads, netVars, cpVars, boundVars, IdTypes, IdentityTypeOK, OneKey, AnswerInv,
         CredentialMatchesKey, NoCredential, Blamed, IdentityRecords
<1> QED BY <1>1, <1>2, <1>3, <1>4, <1>5, Zenon

\* A new key is made only while no file exists, and is saved before it is used.
LEMMA GeneratesKeeps == IdentityInv /\ Generates => IdentityInv'
<1> SUFFICES ASSUME IdentityInv, Generates PROVE IdentityInv'
    BY Zenon
<1> USE IdentityAssumption DEF IdentityInv
<1>1. IdTypes'
  BY
     DEF Generates, Saved, SaveFailed, Stored, Fault, netVars, cpVars, IdTypes, IdentityTypeOK,
         OneKey, AnswerInv, IdentityRecords
<1>2. OneKey'
  BY
     DEF Generates, Saved, SaveFailed, Stored, Fault, netVars, cpVars, IdTypes, IdentityTypeOK,
         OneKey, AnswerInv, IdentityRecords
<1>3. AnswerInv'
  BY Zenon
     DEF Generates, Saved, SaveFailed, Stored, Fault, netVars, cpVars, IdTypes, IdentityTypeOK,
         OneKey, AnswerInv, IdentityRecords
<1>4. CredentialMatchesKey'
  BY
     DEF Generates, Saved, SaveFailed, Stored, Fault, netVars, cpVars, IdTypes, IdentityTypeOK,
         OneKey, AnswerInv, CredentialMatchesKey, IdentityRecords
<1>5. Blamed'
  BY
     DEF Generates, Saved, SaveFailed, Stored, Fault, netVars, cpVars, IdTypes, IdentityTypeOK,
         OneKey, AnswerInv, CredentialMatchesKey, NoCredential, Blamed, IdentityRecords
<1> QED BY <1>1, <1>2, <1>3, <1>4, <1>5, Zenon

\* A request carries the agent's key.
LEMMA SendsKeeps == IdentityInv /\ SendsRequest => IdentityInv'
<1> SUFFICES ASSUME IdentityInv, SendsRequest PROVE IdentityInv'
    BY Zenon
<1> USE IdentityAssumption DEF IdentityInv
<1>1. IdTypes'
  BY Zenon
     DEF SendsRequest, Request, idVars, cpVars, IdTypes, IdentityTypeOK, OneKey, AnswerInv,
         IdentityRecords
<1>2. OneKey'
  BY Zenon
     DEF SendsRequest, Request, idVars, cpVars, IdTypes, IdentityTypeOK, OneKey, AnswerInv,
         IdentityRecords
<1>3. AnswerInv'
  BY Zenon
     DEF SendsRequest, Request, idVars, cpVars, IdTypes, IdentityTypeOK, OneKey, AnswerInv,
         IdentityRecords
<1>4. CredentialMatchesKey'
  BY Zenon
     DEF SendsRequest, Request, idVars, cpVars, IdTypes, IdentityTypeOK, OneKey, AnswerInv,
         CredentialMatchesKey, IdentityRecords
<1>5. Blamed'
  BY Zenon
     DEF SendsRequest, Request, idVars, cpVars, IdTypes, IdentityTypeOK, OneKey, AnswerInv,
         CredentialMatchesKey, NoCredential, Blamed, IdentityRecords
<1> QED BY <1>1, <1>2, <1>3, <1>4, <1>5, Zenon

\* nexusd registers the key of the request and answers a caller that waits.
LEMMA EnrollsKeeps == IdentityInv /\ Enrolls => IdentityInv'
<1> SUFFICES ASSUME IdentityInv, Enrolls PROVE IdentityInv'
    BY Zenon
<1> USE IdentityAssumption DEF IdentityInv
<1>1. IdTypes'
  BY
     DEF Enrolls, Credential, Answers, Fault, idVars, IdTypes, IdentityTypeOK, OneKey,
         AnswerInv, Credentials
<1>2. OneKey'
  BY Zenon
     DEF Enrolls, Credential, Answers, Fault, idVars, IdTypes, IdentityTypeOK, OneKey,
         AnswerInv, Credentials
<1>3. AnswerInv'
  BY Zenon
     DEF Enrolls, Credential, Answers, Fault, idVars, IdTypes, IdentityTypeOK, OneKey,
         AnswerInv, Credentials
<1>4. CredentialMatchesKey'
  BY Zenon
     DEF Enrolls, Credential, Answers, Fault, idVars, IdTypes, IdentityTypeOK, OneKey,
         AnswerInv, CredentialMatchesKey, Credentials
<1>5. Blamed'
  BY
     DEF Enrolls, Credential, Answers, Fault, idVars, IdTypes, IdentityTypeOK, OneKey,
         AnswerInv, CredentialMatchesKey, NoCredential, Blamed, Credentials
<1> QED BY <1>1, <1>2, <1>3, <1>4, <1>5, Zenon

\* A refusal changes nothing but the answer.
LEMMA RefusesKeeps == IdentityInv /\ RefusesRequest => IdentityInv'
<1> SUFFICES ASSUME IdentityInv, RefusesRequest PROVE IdentityInv'
    BY Zenon
<1> USE IdentityAssumption DEF IdentityInv
<1>1. IdTypes'
  BY Zenon
     DEF RefusesRequest, Answers, idVars, cpVars, boundVars, IdTypes, IdentityTypeOK, OneKey,
         AnswerInv
<1>2. OneKey'
  BY Zenon
     DEF RefusesRequest, Answers, idVars, cpVars, boundVars, IdTypes, IdentityTypeOK, OneKey,
         AnswerInv
<1>3. AnswerInv'
  BY Zenon
     DEF RefusesRequest, Answers, idVars, cpVars, boundVars, IdTypes, IdentityTypeOK, OneKey,
         AnswerInv
<1>4. CredentialMatchesKey'
  BY Zenon
     DEF RefusesRequest, Answers, idVars, cpVars, boundVars, IdTypes, IdentityTypeOK, OneKey,
         AnswerInv, CredentialMatchesKey
<1>5. Blamed'
  BY Zenon
     DEF RefusesRequest, Answers, idVars, cpVars, boundVars, IdTypes, IdentityTypeOK, OneKey,
         AnswerInv, CredentialMatchesKey, NoCredential, Blamed
<1> QED BY <1>1, <1>2, <1>3, <1>4, <1>5, Zenon

\* A lost call is a fault.
LEMMA LostKeeps == IdentityInv /\ CallLost => IdentityInv'
<1> SUFFICES ASSUME IdentityInv, CallLost PROVE IdentityInv'
    BY Zenon
<1> USE IdentityAssumption DEF IdentityInv
<1>1. IdTypes'
  <2>1. waiting' \in BOOLEAN /\ (waiting' => agent' # None)
    BY Zenon DEF CallLost
  <2>2. file' \in {Absent, Torn} \union IdentityRecords /\ agent' \in {None} \union IdentityRecords
    BY Zenon DEF CallLost, Fault, idVars, cpVars, AnswerInv, IdTypes, IdentityTypeOK
  <2>3. /\ device' \in {None} \union Credentials /\ uses_count' \in 0..TokenUses
        /\ generated' \in Nat /\ faults' \in Nat /\ stops' \in Nat
    BY DEF CallLost, Fault, idVars, cpVars, idVars, boundVars, IdTypes, IdentityTypeOK
  <2> QED BY <2>1, <2>2, <2>3, Zenon DEF IdTypes, IdentityTypeOK
<1>2. OneKey'
  BY Zenon DEF CallLost, Fault, idVars, cpVars, IdTypes, IdentityTypeOK, OneKey, AnswerInv
<1>3. AnswerInv'
  BY Zenon DEF CallLost, Fault, idVars, cpVars, IdTypes, IdentityTypeOK, OneKey, AnswerInv
<1>4. CredentialMatchesKey'
  BY Zenon
     DEF CallLost, Fault, idVars, cpVars, IdTypes, IdentityTypeOK, OneKey, AnswerInv,
         CredentialMatchesKey
<1>5. Blamed'
  BY
     DEF CallLost, Fault, idVars, cpVars, IdTypes, IdentityTypeOK, OneKey, AnswerInv,
         CredentialMatchesKey, NoCredential, Blamed
<1> QED BY <1>1, <1>2, <1>3, <1>4, <1>5, Zenon

\* A rejection is dropped.
LEMMA RejectionKeeps == IdentityInv /\ ReceivesRejection => IdentityInv'
<1> SUFFICES ASSUME IdentityInv, ReceivesRejection PROVE IdentityInv'
    BY Zenon
<1> USE IdentityAssumption DEF IdentityInv
<1>1. IdTypes'
  <2>1. waiting' \in BOOLEAN /\ (waiting' => agent' # None)
    BY Zenon DEF ReceivesRejection
  <2>2. file' \in {Absent, Torn} \union IdentityRecords /\ agent' \in {None} \union IdentityRecords
    BY Zenon DEF ReceivesRejection, idVars, cpVars, boundVars, AnswerInv, IdTypes, IdentityTypeOK
  <2>3. /\ device' \in {None} \union Credentials /\ uses_count' \in 0..TokenUses
        /\ generated' \in Nat /\ faults' \in Nat /\ stops' \in Nat
    BY Zenon
       DEF ReceivesRejection, idVars, cpVars, boundVars, idVars, boundVars, IdTypes,
           IdentityTypeOK
  <2> QED BY <2>1, <2>2, <2>3, Zenon DEF IdTypes, IdentityTypeOK
<1>2. OneKey'
  BY Zenon
     DEF ReceivesRejection, idVars, cpVars, boundVars, IdTypes, IdentityTypeOK, OneKey,
         AnswerInv
<1>3. AnswerInv'
  BY Zenon
     DEF ReceivesRejection, idVars, cpVars, boundVars, IdTypes, IdentityTypeOK, OneKey,
         AnswerInv
<1>4. CredentialMatchesKey'
  BY Zenon
     DEF ReceivesRejection, idVars, cpVars, boundVars, IdTypes, IdentityTypeOK, OneKey,
         AnswerInv, CredentialMatchesKey
<1>5. Blamed'
  BY Zenon
     DEF ReceivesRejection, idVars, cpVars, boundVars, IdTypes, IdentityTypeOK, OneKey,
         AnswerInv, CredentialMatchesKey, NoCredential, Blamed
<1> QED BY <1>1, <1>2, <1>3, <1>4, <1>5, Zenon

\* set_credential stores the registered credential next to the agent's own key.
LEMMA CredentialKeeps == IdentityInv /\ ReceivesCredential => IdentityInv'
<1> SUFFICES ASSUME IdentityInv, ReceivesCredential PROVE IdentityInv'
    BY Zenon
<1> USE IdentityAssumption DEF IdentityInv
<1>1. IdTypes'
  <2>1. waiting' \in BOOLEAN /\ (waiting' => agent' # None)
    BY Zenon DEF ReceivesCredential
  <2>2. file' \in {Absent, Torn} \union IdentityRecords /\ agent' \in {None} \union IdentityRecords
    BY
       DEF ReceivesCredential, Saved, SaveFailed, Stored, Fault, cpVars, AnswerInv, IdTypes,
           IdentityTypeOK, IdentityRecords, Credentials
  <2>3. /\ device' \in {None} \union Credentials /\ uses_count' \in 0..TokenUses
        /\ generated' \in Nat /\ faults' \in Nat /\ stops' \in Nat
    BY
       DEF ReceivesCredential, Saved, SaveFailed, Stored, Fault, cpVars, idVars, boundVars,
           IdTypes, IdentityTypeOK
  <2> QED BY <2>1, <2>2, <2>3, Zenon DEF IdTypes, IdentityTypeOK
<1>2. OneKey'
  BY
     DEF ReceivesCredential, Saved, SaveFailed, Stored, Fault, cpVars, IdTypes, IdentityTypeOK,
         OneKey, AnswerInv, IdentityRecords, Credentials
<1>3. AnswerInv'
  BY Zenon
     DEF ReceivesCredential, Saved, SaveFailed, Stored, Fault, cpVars, IdTypes, IdentityTypeOK,
         OneKey, AnswerInv, IdentityRecords, Credentials
<1>4. CredentialMatchesKey'
  BY
     DEF ReceivesCredential, Saved, SaveFailed, Stored, Fault, cpVars, IdTypes, IdentityTypeOK,
         OneKey, AnswerInv, CredentialMatchesKey, IdentityRecords, Credentials
<1>5. Blamed'
  BY
     DEF ReceivesCredential, Saved, SaveFailed, Stored, Fault, cpVars, IdTypes, IdentityTypeOK,
         OneKey, AnswerInv, CredentialMatchesKey, NoCredential, Blamed, IdentityRecords, Credentials
<1> QED BY <1>1, <1>2, <1>3, <1>4, <1>5, Zenon

\* A stop forgets the agent and the answer, and may tear the file.
LEMMA StopsKeeps == IdentityInv /\ Stops => IdentityInv'
<1> SUFFICES ASSUME IdentityInv, Stops PROVE IdentityInv'
    BY Zenon
<1> USE IdentityAssumption DEF IdentityInv
<1>1. IdTypes'
  <2>1. waiting' \in BOOLEAN /\ (waiting' => agent' # None)
    BY Zenon DEF Stops
  <2>2. file' \in {Absent, Torn} \union IdentityRecords /\ agent' \in {None} \union IdentityRecords
    BY Zenon DEF Stops, Fault, cpVars, AnswerInv, IdTypes, IdentityTypeOK
  <2>3. /\ device' \in {None} \union Credentials /\ uses_count' \in 0..TokenUses
        /\ generated' \in Nat /\ faults' \in Nat /\ stops' \in Nat
    BY DEF Stops, Fault, cpVars, idVars, boundVars, IdTypes, IdentityTypeOK
  <2> QED BY <2>1, <2>2, <2>3, Zenon DEF IdTypes, IdentityTypeOK
<1>2. OneKey'
  BY Zenon DEF Stops, Fault, cpVars, IdTypes, IdentityTypeOK, OneKey, AnswerInv
<1>3. AnswerInv'
  BY Zenon DEF Stops, Fault, cpVars, IdTypes, IdentityTypeOK, OneKey, AnswerInv
<1>4. CredentialMatchesKey'
  BY Zenon
     DEF Stops, Fault, cpVars, IdTypes, IdentityTypeOK, OneKey, AnswerInv, CredentialMatchesKey
<1>5. Blamed'
  BY
     DEF Stops, Fault, cpVars, IdTypes, IdentityTypeOK, OneKey, AnswerInv, CredentialMatchesKey,
         NoCredential, Blamed
<1> QED BY <1>1, <1>2, <1>3, <1>4, <1>5, Zenon

\* The one key and the blame for every separation say what IdentityKept does.
LEMMA IdentityImplies == IdentityInv => IdentityKept
<1> SUFFICES ASSUME IdentityInv PROVE IdentityKept
    BY Zenon
<1>1. IdentityTypeOK /\ CredentialMatchesKey
  BY Zenon DEF IdentityInv, IdTypes
<1>2. RegisteredKeyKept
  BY Zenon DEF IdentityInv, OneKey, RegisteredKeyKept
<1>3. OrphanOnlyByFault
  BY Zenon DEF IdentityInv, Blamed, NoCredential, OrphanOnlyByFault
<1> QED BY <1>1, <1>2, <1>3, Zenon DEF IdentityKept

\* Key, credential and registration stay together through any number of retries, stops,
\* failed writes and lost answers (load_or_generate, enroll, set_credential), and only a
\* fault or a stop separates a registered device from its credential.
THEOREM IdentityKeptHolds == Spec => []IdentityKept
<1>1. Init => IdentityInv
  BY IdentityStarts, Zenon DEF Init
<1>2. IdentityInv /\ [Next]_vars => IdentityInv'
  <2> SUFFICES ASSUME IdentityInv, [Next]_vars PROVE IdentityInv'
      BY Zenon
  <2>1. CASE IdentityNext
    BY <2>1, LoadsKeeps, GeneratesKeeps, SendsKeeps, EnrollsKeeps, RefusesKeeps, LostKeeps,
       RejectionKeeps, CredentialKeeps, Zenon DEF IdentityNext
  <2>2. CASE AgentStops
    BY <2>2, StopsKeeps, Zenon DEF AgentStops
  <2>3. CASE UNCHANGED identityVars
    BY <2>3 DEF identityVars, idVars, netVars, cpVars, boundVars, IdentityInv, IdTypes,
                IdentityTypeOK, OneKey, AnswerInv, CredentialMatchesKey, Blamed, NoCredential
  <2> QED BY <2>1, <2>2, <2>3, Zenon DEF Next, Issues, Ticks, WallClockSetBack, Presents,
                                  TerminatesSession, vars
<1> QED BY <1>1, <1>2, IdentityImplies, PTL DEF Spec

----------------------------------------------------------------------------
(* Arithmetic of the two clocks. *)

\* b lies R whole seconds of T ticks after a: so do the seconds they fall into.
LEMMA SecondsApart ==
  ASSUME NEW a \in Nat, NEW b \in Nat, NEW R \in Nat, NEW T \in Nat \ {0}, b - a >= R * T
  PROVE  /\ a \div T \in Nat /\ b \div T \in Nat
         /\ b \div T >= a \div T + R
<1>1. a \div T \in Nat /\ T * (a \div T) <= a /\ a < T * (a \div T) + T
  OBVIOUS
<1>2. b \div T \in Nat /\ T * (b \div T) <= b /\ b < T * (b \div T) + T
  OBVIOUS
<1>3. ASSUME NEW x \in Nat, NEW y \in Nat, T * x <= a, b < T * y + T, y < x + R PROVE FALSE
  <2>1. y + 1 <= x + R
    BY <1>3
  <2>2. T * (y + 1) <= T * (x + R)
    BY <2>1
  <2>3. T * (y + 1) = T * y + T /\ T * (x + R) = T * x + R * T
    OBVIOUS
  <2> QED BY <1>3, <2>2, <2>3
<1> QED BY <1>1, <1>2, <1>3

\* A multiple of T below another is at least one T below it.
LEMMA NextMultiple ==
  ASSUME NEW k \in Nat, NEW m \in Nat, NEW T \in Nat \ {0}, k * T < m * T
  PROVE  k < m /\ (k + 1) * T = k * T + T
<1>1. k >= m => k * T >= m * T
  OBVIOUS
<1> QED BY <1>1

----------------------------------------------------------------------------
(* Access.  Every use that passed the replay cache is remembered there for  *)
(* the whole period, and every entry of the cache stems from such a use.    *)

Spent == {"accepted", "InvalidSignature", "SessionAlreadyActive"}
Period == ReplayTtl * TicksPerSecond
Epoch == TicksPerSecond * MaxClockSteps

ClockInv == /\ clock \in 0..MaxClock
            /\ \E k \in 0..MaxClockSteps : behind = k * TicksPerSecond

IssuedInv == /\ \E n \in Nat : DOMAIN capabilities = 1..n
             /\ \A s \in DOMAIN capabilities :
                  /\ capabilities[s].not_before \in Nat
                  /\ capabilities[s].expires_at = capabilities[s].not_before + CapabilityTtl

CacheInv == /\ DOMAIN cache \subseteq DOMAIN capabilities
            /\ Cardinality(DOMAIN cache) <= ReplayCapacity
            /\ \A n \in DOMAIN cache :
                 /\ cache[n] \in 0..clock
                 /\ \E l \in log : l.session = n /\ l.at = cache[n] /\ l.result \in Spent

LogInv == \A l \in log :
  /\ l.session \in DOMAIN capabilities /\ l.at \in 0..clock /\ l.result \in Results
  /\ behind = 0 => l.secs = (l.at + Epoch) \div TicksPerSecond
  /\ l.result \in Spent => l.secs \in capabilities[l.session].not_before..capabilities[l.session].expires_at

Remembered == \A l \in log :
  l.result \in Spent /\ clock - l.at < Period => l.session \in DOMAIN cache /\ cache[l.session] >= l.at

ActiveInv == \A s \in active : s \in DOMAIN capabilities /\ Accepted(s) # {}

GapInv == \A first, second \in log :
  /\ first.session = second.session /\ first.at < second.at
  /\ first.result = "accepted" /\ second.result = "accepted"
  => second.at - first.at >= Period

AccessInv == /\ ClockInv /\ IssuedInv /\ CacheInv /\ LogInv /\ Remembered /\ ActiveInv /\ GapInv
             /\ ReplayRefusalExplained /\ AlreadyActiveOnlyAfterPeriod

\* The constants are numbers, and so are their products.
LEMMA Numbers ==
  /\ TicksPerSecond \in Nat \ {0} /\ CapabilityTtl \in Nat /\ ReplayTtl \in Nat
  /\ ReplayCapacity \in Nat \ {0} /\ MaxClock \in Nat /\ MaxClockSteps \in Nat
  /\ Period \in Nat /\ Epoch \in Nat
<1>1. /\ TicksPerSecond \in Nat \ {0} /\ CapabilityTtl \in Nat /\ ReplayTtl \in Nat
      /\ ReplayCapacity \in Nat \ {0} /\ MaxClock \in Nat /\ MaxClockSteps \in Nat
  BY AccessAssumption, Zenon
<1>2. Period \in Nat /\ Epoch \in Nat
  BY <1>1 DEF Period, Epoch
<1> QED BY <1>1, <1>2, Zenon

\* The wall clock shows whole seconds, and follows the ticks until it is set back.
LEMMA WallClock ==
  ASSUME ClockInv
  PROVE  /\ WallSecs \in Nat /\ behind \in 0..(MaxClockSteps * TicksPerSecond)
         /\ behind = 0 => WallSecs = (clock + Epoch) \div TicksPerSecond
<1>1. PICK k \in 0..MaxClockSteps : behind = k * TicksPerSecond
  BY Zenon DEF ClockInv
<1>2. k * TicksPerSecond \in Nat /\ k * TicksPerSecond <= MaxClockSteps * TicksPerSecond
  BY <1>1, Numbers
<1>3. MaxClockSteps * TicksPerSecond = Epoch
  BY Numbers DEF Epoch
<1>4. clock - behind + Epoch \in Nat /\ clock \in Nat
  BY <1>1, <1>2, <1>3, Numbers DEF ClockInv
<1>5. (clock - behind + Epoch) \div TicksPerSecond \in Nat
  BY <1>4, Numbers
<1>6. behind = 0 => clock - behind + Epoch = clock + Epoch
  BY <1>4
<1> QED BY <1>1, <1>2, <1>3, <1>5, <1>6, Numbers DEF WallSecs, Epoch

\* The checks before the cache let a capability pass only within its window.
LEMMA PrecheckPasses ==
  ASSUME NEW c, NEW protocol
  PROVE  /\ Precheck(c, protocol) = "ok" => ~(WallSecs < c.not_before) /\ ~(WallSecs > c.expires_at)
         /\ Precheck(c, protocol) \in {"ok", "ProtocolValidation", "TargetDeviceMismatch",
                                       "NotYetActive", "Expired", "ProtocolRangeViolation"}
BY Zenon DEF Precheck

\* What a verdict says of the cache and of the active sessions.
LEMMA VerdictMeans ==
  ASSUME NEW s, NEW protocol, NEW intact
  PROVE  LET v == Verdict(s, protocol, intact)
             ok == Precheck(capabilities[s], protocol) = "ok" IN
         /\ v \in Results
         /\ v \in Spent <=> ok /\ Accepts(s)
         /\ v = "ReplayDetected" => ok /\ ~Accepts(s)
         /\ v = "SessionAlreadyActive" => s \in active
<1> DEFINE pre == Precheck(capabilities[s], protocol)
<1>1. pre \in {"ok", "ProtocolValidation", "TargetDeviceMismatch",
                                       "NotYetActive", "Expired", "ProtocolRangeViolation"}
  BY PrecheckPasses, Zenon
<1>2. Verdict(s, protocol, intact) =
        IF pre # "ok" THEN pre
        ELSE IF ~Accepts(s) THEN "ReplayDetected"
        ELSE IF ~intact THEN "InvalidSignature"
        ELSE IF s \in active THEN "SessionAlreadyActive"
        ELSE "accepted"
  BY Zenon DEF Verdict
<1> HIDE DEF pre
<1>3. /\ Verdict(s, protocol, intact) \in Results
      /\ Verdict(s, protocol, intact) \in Spent <=> pre = "ok" /\ Accepts(s)
      /\ Verdict(s, protocol, intact) = "ReplayDetected" => pre = "ok" /\ ~Accepts(s)
      /\ Verdict(s, protocol, intact) = "SessionAlreadyActive" => s \in active
  BY <1>1, <1>2, Zenon DEF Results, Spent
<1> QED BY <1>3, Zenon DEF pre

\* The cache accepts a nonce again only after the whole period.
LEMMA AcceptsAfterPeriod ==
  ASSUME ClockInv, CacheInv, LogInv, Remembered, NEW s, Accepts(s),
         NEW l \in log, l.session = s, l.result \in Spent
  PROVE  clock - l.at >= Period
<1>1. clock \in Nat /\ l.at \in 0..clock /\ Period \in Nat
  BY Numbers DEF ClockInv, LogInv
<1> SUFFICES ASSUME clock - l.at < Period PROVE FALSE
    BY <1>1
<1>2. s \in DOMAIN cache /\ cache[s] >= l.at
  BY Zenon DEF Remembered
<1>3. cache[s] \in 0..clock
  BY <1>2, Zenon DEF CacheInv
<1>4. clock - cache[s] < Period
  BY <1>1, <1>2, <1>3
<1> QED BY <1>2, <1>4, Zenon DEF Accepts, Fresh, Period

\* The cache after a nonce was presented: the fresh entries, and the nonce if it was accepted.
LEMMA CacheAfterNonce ==
  ASSUME ClockInv, IssuedInv, CacheInv, NEW s \in DOMAIN capabilities
  PROVE  /\ DOMAIN CacheAfter(s) \subseteq DOMAIN capabilities
         /\ Cardinality(DOMAIN CacheAfter(s)) <= ReplayCapacity
         /\ \A n \in DOMAIN CacheAfter(s) :
              \/ n \in DOMAIN cache /\ CacheAfter(s)[n] = cache[n]
              \/ n = s /\ Accepts(s) /\ CacheAfter(s)[n] = clock
         /\ Accepts(s) => s \in DOMAIN CacheAfter(s) /\ CacheAfter(s)[s] = clock
         /\ \A n \in Fresh : n \in DOMAIN CacheAfter(s) /\ CacheAfter(s)[n] = cache[n]
<1>1. Fresh \subseteq DOMAIN cache /\ DOMAIN cache \subseteq DOMAIN capabilities
  BY Zenon DEF Fresh, CacheInv
<1>2. IsFiniteSet(DOMAIN capabilities)
  BY FS_Interval DEF IssuedInv
<1>3. IsFiniteSet(DOMAIN cache) /\ IsFiniteSet(Fresh)
  BY <1>1, <1>2, FS_Subset, Zenon
<1>4. Cardinality(Fresh) \in Nat /\ Cardinality(DOMAIN cache) \in Nat
      /\ Cardinality(Fresh) <= Cardinality(DOMAIN cache)
  BY <1>1, <1>3, FS_Subset, FS_CardinalityType, Zenon
<1>5. CASE Accepts(s)
  <2>1. s \notin Fresh /\ Cardinality(Fresh) < ReplayCapacity
    BY <1>5, Zenon DEF Accepts
  <2>2. DOMAIN CacheAfter(s) = Fresh \union {s}
    BY <1>5, Zenon DEF CacheAfter
  <2>3. Cardinality(Fresh \union {s}) = Cardinality(Fresh) + 1
    BY <1>3, <2>1, FS_AddElement, Zenon
  <2>4. Cardinality(DOMAIN CacheAfter(s)) <= ReplayCapacity
    BY <1>4, <2>1, <2>2, <2>3, Numbers
  <2> QED BY <1>1, <1>5, <2>1, <2>2, <2>4, Zenon DEF CacheAfter
<1>6. CASE ~Accepts(s)
  <2>1. DOMAIN CacheAfter(s) = Fresh
    BY <1>6, Zenon DEF CacheAfter
  <2>2. Cardinality(DOMAIN CacheAfter(s)) <= ReplayCapacity
    BY <1>4, <2>1, Numbers DEF CacheInv
  <2> QED BY <1>1, <1>6, <2>1, <2>2, Zenon DEF CacheAfter
<1> QED BY <1>5, <1>6, Zenon

\* A presentation keeps the access invariant.
LEMMA PresentsKeeps ==
  ASSUME AccessInv, NEW s \in DOMAIN capabilities, NEW protocol \in Protocols,
         NEW intact \in BOOLEAN, Presents(s, protocol, intact)
  PROVE  AccessInv'
<1> DEFINE v == Verdict(s, protocol, intact)
           ok == Precheck(capabilities[s], protocol) = "ok"
           new == [session |-> s, at |-> clock, secs |-> WallSecs, result |-> v]
<1>1. /\ UNCHANGED <<clock, behind, capabilities>>
      /\ log' = log \union {new}
      /\ cache' = IF ok THEN CacheAfter(s) ELSE cache
      /\ active' = IF v = "accepted" THEN active \union {s} ELSE active
      /\ verdict' = [session |-> s, result |-> v, protocol |-> protocol, at |-> clock]
  BY Zenon DEF Presents
<1>2. /\ v \in Results
      /\ v \in Spent <=> ok /\ Accepts(s)
      /\ v = "ReplayDetected" => ok /\ ~Accepts(s)
      /\ v = "SessionAlreadyActive" => s \in active
  BY VerdictMeans, Zenon
<1>3. ok => ~(WallSecs < capabilities[s].not_before) /\ ~(WallSecs > capabilities[s].expires_at)
  BY PrecheckPasses, Zenon
<1> HIDE DEF v, ok
<1>4. new.session = s /\ new.at = clock /\ new.secs = WallSecs /\ new.result = v
  BY Zenon
<1> HIDE DEF new
<1>5. ClockInv /\ IssuedInv /\ CacheInv /\ LogInv /\ Remembered /\ ActiveInv /\ GapInv
  BY Zenon DEF AccessInv
<1>6. clock \in Nat /\ WallSecs \in Nat
  BY <1>5, WallClock, Numbers DEF ClockInv
<1>7. ClockInv' /\ IssuedInv'
  BY <1>1, <1>5, Zenon DEF ClockInv, IssuedInv
<1>8. CacheInv'
  <2>1. CASE ok
    <3>1. /\ DOMAIN cache' \subseteq DOMAIN capabilities
          /\ Cardinality(DOMAIN cache') <= ReplayCapacity
      BY <1>1, <1>5, <2>1, CacheAfterNonce, Zenon
    <3>2. ASSUME NEW n \in DOMAIN cache'
          PROVE  /\ cache'[n] \in 0..clock
                 /\ \E l \in log' : l.session = n /\ l.at = cache'[n] /\ l.result \in Spent
      <4>1. CASE n \in DOMAIN cache /\ cache'[n] = cache[n]
        BY <1>1, <1>5, <4>1, Zenon DEF CacheInv
      <4>2. CASE n = s /\ Accepts(s) /\ cache'[n] = clock
        BY <1>1, <1>2, <1>4, <1>6, <2>1, <4>2
      <4> QED BY <1>1, <1>5, <2>1, <4>1, <4>2, CacheAfterNonce, Zenon
    <3> QED BY <1>1, <3>1, <3>2, Zenon DEF CacheInv
  <2>2. CASE ~ok
    BY <1>1, <1>5, <2>2, Zenon DEF CacheInv
  <2> QED BY <2>1, <2>2, Zenon
<1>9. LogInv'
  <2> SUFFICES ASSUME NEW l \in log'
               PROVE  (/\ l.session \in DOMAIN capabilities /\ l.at \in 0..clock /\ l.result \in Results
                       /\ behind = 0 => l.secs = (l.at + Epoch) \div TicksPerSecond
                       /\ l.result \in Spent =>
                            l.secs \in capabilities[l.session].not_before..capabilities[l.session].expires_at)
      BY <1>1, Zenon DEF LogInv
  <2>1. CASE l \in log
    BY <1>5, <2>1, Zenon DEF LogInv
  <2>2. CASE l = new
    <3>1. behind = 0 => l.secs = (l.at + Epoch) \div TicksPerSecond
      BY <1>4, <1>5, <2>2, WallClock, Zenon
    <3>2. capabilities[s].not_before \in Nat /\ capabilities[s].expires_at \in Nat
      BY <1>5, Numbers DEF IssuedInv
    <3>3. ok => WallSecs \in capabilities[s].not_before..capabilities[s].expires_at
      BY <1>3, <1>6, <3>2
    <3> QED BY <1>2, <1>4, <1>6, <2>2, <3>1, <3>3
  <2> QED BY <1>1, <2>1, <2>2, Zenon
<1>10. Remembered'
  <2> SUFFICES ASSUME NEW l \in log', l.result \in Spent, clock - l.at < Period
               PROVE  l.session \in DOMAIN cache' /\ cache'[l.session] >= l.at
      BY <1>1, Zenon DEF Remembered
  <2>1. CASE l \in log
    <3>1. l.session \in DOMAIN cache /\ cache[l.session] >= l.at
      BY <1>5, <2>1, Zenon DEF Remembered
    <3>2. cache[l.session] \in 0..clock /\ l.at \in 0..clock /\ Period \in Nat
      BY <1>5, <2>1, <3>1, Numbers, Zenon DEF CacheInv, LogInv
    <3>3. clock - cache[l.session] < Period
      <4> DEFINE c == cache[l.session]
                 t == l.at
      <4>1. c \in Nat /\ t \in Nat /\ Period \in Nat /\ c >= t /\ clock - t < Period
        BY <1>6, <3>1, <3>2
      <4> HIDE DEF c, t
      <4>2. clock - c < Period
        BY <1>6, <4>1
      <4> QED BY <4>2, Zenon DEF c
    <3>4. l.session \in Fresh
      BY <3>1, <3>3, Zenon DEF Fresh, Period
    <3>5. CASE ok
      BY <1>1, <1>5, <3>1, <3>4, <3>5, CacheAfterNonce
    <3>6. CASE ~ok
      BY <1>1, <3>1, <3>6, Zenon
    <3> QED BY <3>5, <3>6, Zenon
  <2>2. CASE l = new
    <3>1. ok /\ Accepts(s)
      BY <1>2, <1>4, <2>2, Zenon
    <3>2. s \in DOMAIN cache' /\ cache'[s] = clock
      BY <1>1, <1>5, <3>1, CacheAfterNonce, Zenon
    <3> QED BY <1>4, <1>6, <2>2, <3>2
  <2> QED BY <1>1, <2>1, <2>2, Zenon
<1>11. ActiveInv'
  <2> SUFFICES ASSUME NEW x \in active'
               PROVE  x \in DOMAIN capabilities /\ \E l \in log' : l.session = x /\ l.result = "accepted"
      BY <1>1 DEF ActiveInv, Accepted
  <2>1. CASE x \in active
    BY <1>1, <1>5, <2>1, Zenon DEF ActiveInv, Accepted
  <2>2. CASE x = s /\ v = "accepted"
    BY <1>1, <1>4, <2>2, Zenon
  <2> QED BY <1>1, <2>1, <2>2, Zenon
<1>12. GapInv'
  <2> SUFFICES ASSUME NEW first \in log', NEW second \in log',
                      first.session = second.session, first.at < second.at,
                      first.result = "accepted", second.result = "accepted"
               PROVE  second.at - first.at >= Period
      BY Zenon DEF GapInv
  <2>1. CASE first \in log /\ second \in log
    BY <1>5, <2>1, Zenon DEF GapInv
  <2>2. CASE first \in log /\ second = new
    <3>1. Accepts(s) /\ first.session = s /\ first.result \in Spent
      BY <1>2, <1>4, <2>2, Zenon DEF Spent
    <3> QED BY <1>4, <1>5, <2>2, <3>1, AcceptsAfterPeriod, Zenon
  <2>3. CASE first = new
    <3>1. second.at \in 0..clock
      BY <1>1, <1>9, Zenon DEF LogInv
    <3> QED BY <1>4, <1>6, <2>3, <3>1
  <2> QED BY <1>1, <2>1, <2>2, <2>3, Zenon
<1>13. ReplayRefusalExplained'
  <2> DEFINE recent == {l.session : l \in {l \in log' : /\ verdict'.at - l.at < ReplayTtl * TicksPerSecond
                                                        /\ l.result \in Spent}}
  <2> SUFFICES ASSUME v = "ReplayDetected"
               PROVE  s \in recent \/ Cardinality(recent) >= ReplayCapacity
      BY <1>1, Zenon DEF ReplayRefusalExplained, Spent
  <2>0. s \in Fresh \/ ~(Cardinality(Fresh) < ReplayCapacity)
    BY <1>2, Zenon DEF Accepts
  <2>1. verdict'.at = clock
    BY <1>1, Zenon
  <2>2. Fresh \subseteq recent
    <3> SUFFICES ASSUME NEW n \in Fresh PROVE n \in recent
        BY Zenon
    <3>1. n \in DOMAIN cache /\ clock - cache[n] < ReplayTtl * TicksPerSecond
      BY Zenon DEF Fresh
    <3>2. PICK l \in log : l.session = n /\ l.at = cache[n] /\ l.result \in Spent
      BY <1>5, <3>1, Zenon DEF CacheInv
    <3> QED BY <1>1, <2>1, <3>1, <3>2, Zenon
  <2>3. recent \subseteq DOMAIN capabilities
    BY <1>1, <1>9, Zenon DEF LogInv
  <2>4. IsFiniteSet(recent)
    <3>1. IsFiniteSet(DOMAIN capabilities)
      BY <1>5, FS_Interval DEF IssuedInv
    <3> HIDE DEF recent
    <3> QED BY <2>3, <3>1, FS_Subset, Zenon
  <2> HIDE DEF recent
  <2>5. Cardinality(Fresh) <= Cardinality(recent) /\ Cardinality(recent) \in Nat /\ Cardinality(Fresh) \in Nat
    BY <2>2, <2>4, FS_Subset, FS_CardinalityType, Zenon
  <2> QED BY <2>0, <2>2, <2>5, Numbers
<1>14. AlreadyActiveOnlyAfterPeriod'
  <2> SUFFICES ASSUME NEW l \in log', l.result = "SessionAlreadyActive"
               PROVE  \E first \in log' : /\ first.session = l.session /\ first.result = "accepted"
                                          /\ l.at - first.at >= Period
      BY Zenon DEF AlreadyActiveOnlyAfterPeriod, Accepted, Period
  <2>1. CASE l \in log
    BY <1>1, <2>1, Zenon DEF AccessInv, AlreadyActiveOnlyAfterPeriod, Accepted, Period
  <2>2. CASE l = new
    <3>1. s \in active /\ Accepts(s)
      BY <1>2, <1>4, <2>2, Zenon DEF Spent
    <3>2. PICK first \in log : first.session = s /\ first.result = "accepted"
      BY <1>5, <3>1, Zenon DEF ActiveInv, Accepted
    <3>3. clock - first.at >= Period
      BY <1>5, <3>1, <3>2, AcceptsAfterPeriod, Zenon DEF Spent
    <3> QED BY <1>1, <1>4, <2>2, <3>2, <3>3, Zenon
  <2> QED BY <1>1, <2>1, <2>2, Zenon
<1> QED BY <1>7, <1>8, <1>9, <1>10, <1>11, <1>12, <1>13, <1>14, Zenon DEF AccessInv

\* Issuing a capability, the passing of time, the end of a session and the end of the agent
\* keep it too.
LEMMA OthersKeep ==
  ASSUME AccessInv,
         \/ Issues \/ AgentStops \/ Ticks \/ WallClockSetBack
         \/ \E s \in active : TerminatesSession(s)
         \/ UNCHANGED accessVars
  PROVE  AccessInv'
<1>0. /\ ClockInv /\ IssuedInv /\ CacheInv /\ LogInv /\ Remembered /\ ActiveInv /\ GapInv
      /\ ReplayRefusalExplained /\ AlreadyActiveOnlyAfterPeriod
  BY Zenon DEF AccessInv
<1>1. CASE Issues
  <2> DEFINE session == Cardinality(DOMAIN capabilities) + 1
  <2>1. PICK n \in Nat : DOMAIN capabilities = 1..n
    BY <1>0, Zenon DEF IssuedInv
  <2>2. session = n + 1
    <3>1. Cardinality(1..n) = IF 1 > n THEN 0 ELSE n - 1 + 1
      BY <2>1, FS_Interval
    <3>2. (IF 1 > n THEN 0 ELSE n - 1 + 1) = n
      BY <2>1
    <3> QED BY <2>1, <3>1, <3>2, Zenon
  <2>3. /\ UNCHANGED <<clock, behind, cache, active, verdict, log>>
        /\ capabilities' = [s \in DOMAIN capabilities \union {session} |->
             IF s # session THEN capabilities[s]
             ELSE [not_before |-> WallSecs, expires_at |-> WallSecs + CapabilityTtl,
                   target |-> device.device, min_protocol |-> 1, max_protocol |-> 1]]
    BY <1>1, Zenon DEF Issues
  <2> HIDE DEF session
  <2>3a. /\ DOMAIN capabilities' = DOMAIN capabilities \union {session}
         /\ \A s \in DOMAIN capabilities : s # session => capabilities'[s] = capabilities[s]
         /\ capabilities'[session].not_before = WallSecs
         /\ capabilities'[session].expires_at = WallSecs + CapabilityTtl
    BY <2>3, Zenon
  <2>4. DOMAIN capabilities' = 1..(n + 1) /\ session \notin DOMAIN capabilities
    BY <2>1, <2>2, <2>3a
  <2>5. WallSecs \in Nat
    BY <1>0, WallClock, Zenon
  <2>6. IssuedInv'
    BY <1>0, <2>3a, <2>4, <2>5 DEF IssuedInv
  <2>7. ClockInv' /\ CacheInv' /\ Remembered' /\ GapInv'
    BY <1>0, <2>3, <2>3a, Zenon DEF ClockInv, CacheInv, Remembered, GapInv
  <2>8. LogInv'
    BY <1>0, <2>3, <2>3a, <2>4 DEF LogInv
  <2>9. ActiveInv' /\ ReplayRefusalExplained' /\ AlreadyActiveOnlyAfterPeriod'
    BY <1>0, <2>3, <2>3a, Zenon
       DEF ActiveInv, ReplayRefusalExplained, AlreadyActiveOnlyAfterPeriod, Accepted
  <2> QED BY <2>6, <2>7, <2>8, <2>9, Zenon DEF AccessInv
<1>2. CASE AgentStops
  <2>1. /\ DOMAIN cache' = {} /\ active' = {} /\ verdict' = None /\ log' = {}
        /\ UNCHANGED <<clock, behind, capabilities>>
    BY <1>2 DEF AgentStops
  <2>2. ClockInv' /\ IssuedInv' /\ LogInv' /\ Remembered' /\ ActiveInv' /\ GapInv'
    BY <1>0, <2>1, Zenon DEF ClockInv, IssuedInv, LogInv, Remembered, ActiveInv, GapInv
  <2>3. CacheInv'
    <3>1. Cardinality(DOMAIN cache') = 0
      BY <2>1, FS_EmptySet, Zenon
    <3>2. 0 <= ReplayCapacity
      BY Numbers
    <3> QED BY <2>1, <3>1, <3>2, Zenon DEF CacheInv
  <2>4. ReplayRefusalExplained' /\ AlreadyActiveOnlyAfterPeriod'
    BY <2>1, Zenon DEF ReplayRefusalExplained, AlreadyActiveOnlyAfterPeriod
  <2> QED BY <2>2, <2>3, <2>4, Zenon DEF AccessInv
<1>3. CASE Ticks
  <2>1. /\ clock < MaxClock /\ clock' = clock + 1
        /\ UNCHANGED <<behind, capabilities, cache, active, verdict, log>>
    BY <1>3, Zenon DEF Ticks
  <2>2. clock \in Nat /\ MaxClock \in Nat /\ Period \in Nat
    BY <1>0, Numbers DEF ClockInv
  <2>3. ClockInv' /\ IssuedInv'
    BY <1>0, <2>1, <2>2 DEF ClockInv, IssuedInv
  <2>4. CacheInv'
    BY <1>0, <2>1, <2>2 DEF CacheInv
  <2>5. LogInv'
    BY <1>0, <2>1, <2>2 DEF LogInv
  <2>6. Remembered'
    <3> SUFFICES ASSUME NEW l \in log, l.result \in Spent, clock' - l.at < Period
                 PROVE  l.session \in DOMAIN cache /\ cache[l.session] >= l.at
        BY <2>1, Zenon DEF Remembered
    <3>1. l.at \in 0..clock
      BY <1>0, Zenon DEF LogInv
    <3>2. clock - l.at < Period
      BY <2>1, <2>2, <3>1
    <3> QED BY <1>0, <3>2, Zenon DEF Remembered
  <2>7. ActiveInv' /\ GapInv' /\ ReplayRefusalExplained' /\ AlreadyActiveOnlyAfterPeriod'
    BY <1>0, <2>1, Zenon
       DEF ActiveInv, GapInv, ReplayRefusalExplained, AlreadyActiveOnlyAfterPeriod, Accepted
  <2> QED BY <2>3, <2>4, <2>5, <2>6, <2>7, Zenon DEF AccessInv
<1>4. CASE WallClockSetBack
  <2>1. /\ behind < MaxClockSteps * TicksPerSecond /\ behind' = behind + TicksPerSecond
        /\ UNCHANGED <<clock, capabilities, cache, active, verdict, log>>
    BY <1>4, Zenon DEF WallClockSetBack
  <2>2. PICK k \in 0..MaxClockSteps : behind = k * TicksPerSecond
    BY <1>0, Zenon DEF ClockInv
  <2>3. k < MaxClockSteps /\ (k + 1) * TicksPerSecond = k * TicksPerSecond + TicksPerSecond
    BY <2>1, <2>2, NextMultiple, Numbers
  <2>4. behind' = (k + 1) * TicksPerSecond /\ k + 1 \in 0..MaxClockSteps
    BY <2>1, <2>2, <2>3, Numbers
  <2>5. ClockInv'
    BY <1>0, <2>1, <2>4, Zenon DEF ClockInv
  <2>6. k * TicksPerSecond \in Nat
    BY <2>2, Numbers
  <2>7. behind' # 0
    BY <2>1, <2>2, <2>6, Numbers
  <2>8. LogInv'
    BY <1>0, <2>1, <2>7, Zenon DEF LogInv
  <2>9. IssuedInv' /\ CacheInv' /\ Remembered' /\ ActiveInv' /\ GapInv'
    BY <1>0, <2>1, Zenon DEF IssuedInv, CacheInv, Remembered, ActiveInv, GapInv, Accepted
  <2>10. ReplayRefusalExplained' /\ AlreadyActiveOnlyAfterPeriod'
    BY <1>0, <2>1, Zenon DEF ReplayRefusalExplained, AlreadyActiveOnlyAfterPeriod, Accepted
  <2> QED BY <2>5, <2>8, <2>9, <2>10, Zenon DEF AccessInv
<1>5. CASE (\E s \in active : TerminatesSession(s)) \/ UNCHANGED accessVars
  <2>1. active' \subseteq active /\ UNCHANGED <<clock, behind, capabilities, cache, verdict, log>>
    BY <1>5, Zenon DEF TerminatesSession, accessVars
  <2>2. ClockInv' /\ IssuedInv' /\ CacheInv' /\ LogInv' /\ Remembered' /\ ActiveInv' /\ GapInv'
    BY <1>0, <2>1 DEF ClockInv, IssuedInv, CacheInv, LogInv, Remembered, ActiveInv, GapInv, Accepted
  <2>3. ReplayRefusalExplained' /\ AlreadyActiveOnlyAfterPeriod'
    BY <1>0, <2>1, Zenon DEF ReplayRefusalExplained, AlreadyActiveOnlyAfterPeriod, Accepted
  <2> QED BY <2>2, <2>3, Zenon DEF AccessInv
<1> QED BY <1>1, <1>2, <1>3, <1>4, <1>5, Zenon

\* The access invariant holds in every reachable state.
LEMMA AccessAlways == Spec => []AccessInv
<1>1. Init => AccessInv
  <2> SUFFICES ASSUME Init PROVE AccessInv
      BY Zenon
  <2>1. /\ clock = 0 /\ behind = 0 /\ DOMAIN capabilities = {} /\ DOMAIN cache = {} /\ active = {}
        /\ verdict = None /\ log = {}
    BY DEF Init
  <2>2. ClockInv
    <3>1. 0 * TicksPerSecond = 0
      BY Numbers
    <3> QED BY <2>1, <3>1, Numbers DEF ClockInv
  <2>3. IssuedInv
    <3>1. DOMAIN capabilities = 1..0
      BY <2>1
    <3> QED BY <2>1, <3>1, Zenon DEF IssuedInv
  <2>4. CacheInv
    BY <2>1, FS_EmptySet, Numbers DEF CacheInv
  <2>5. LogInv /\ Remembered /\ ActiveInv /\ GapInv
    BY <2>1, Zenon DEF LogInv, Remembered, ActiveInv, GapInv
  <2>6. ReplayRefusalExplained /\ AlreadyActiveOnlyAfterPeriod
    BY <2>1, Zenon DEF ReplayRefusalExplained, AlreadyActiveOnlyAfterPeriod
  <2> QED BY <2>2, <2>3, <2>4, <2>5, <2>6, Zenon DEF AccessInv
<1>2. AccessInv /\ [Next]_vars => AccessInv'
  BY PresentsKeeps, OthersKeep, Zenon DEF Next, vars
<1> QED BY <1>1, <1>2, PTL DEF Spec

\* Within one run of the agent a capability is accepted twice only when the whole replay
\* period lies between the two; with the periods as configured and a wall clock that is never
\* set back, that takes the first and the last second of its window (replay.rs, verifier.rs).
THEOREM AcceptedTwiceHolds == Spec => []AcceptedTwiceOnlyAtTheEdges
<1>1. AccessInv => AcceptedTwiceOnlyAtTheEdges
  <2> SUFFICES ASSUME AccessInv, NEW s \in DOMAIN capabilities,
                      NEW first \in Accepted(s), NEW second \in Accepted(s), first.at < second.at
               PROVE  /\ second.at - first.at >= Period
                      /\ behind = 0 /\ ReplayTtl >= CapabilityTtl =>
                           first.secs = capabilities[s].not_before /\ second.secs = capabilities[s].expires_at
      BY Zenon DEF AcceptedTwiceOnlyAtTheEdges, Period
  <2>0. ClockInv /\ IssuedInv /\ LogInv /\ GapInv
    BY Zenon DEF AccessInv
  <2>1. /\ first \in log /\ first.session = s /\ first.result = "accepted"
        /\ second \in log /\ second.session = s /\ second.result = "accepted"
    BY Zenon DEF Accepted
  <2>2. second.at - first.at >= Period
    BY <2>0, <2>1, Zenon DEF GapInv
  <2>3. ASSUME behind = 0, ReplayTtl >= CapabilityTtl
        PROVE  first.secs = capabilities[s].not_before /\ second.secs = capabilities[s].expires_at
    <3>1. clock \in Nat
      BY <2>0, Numbers DEF ClockInv
    <3>2. first.at \in Nat /\ second.at \in Nat
      BY <2>0, <2>1, <3>1 DEF LogInv
    <3>3. /\ first.secs = (first.at + Epoch) \div TicksPerSecond
          /\ second.secs = (second.at + Epoch) \div TicksPerSecond
      BY <2>0, <2>1, <2>3, Zenon DEF LogInv
    <3>4. (second.at + Epoch) - (first.at + Epoch) >= ReplayTtl * TicksPerSecond
      BY <2>2, <3>2, Numbers DEF Period
    <3>5. first.secs \in Nat /\ second.secs \in Nat /\ second.secs >= first.secs + ReplayTtl
      <4> DEFINE a == first.at + Epoch
                 b == second.at + Epoch
      <4>1. a \in Nat /\ b \in Nat
        BY <3>2, Numbers
      <4> HIDE DEF a, b
      <4>2. b - a >= ReplayTtl * TicksPerSecond
        BY <3>4, Zenon DEF a, b
      <4>3. /\ a \div TicksPerSecond \in Nat /\ b \div TicksPerSecond \in Nat
            /\ b \div TicksPerSecond >= a \div TicksPerSecond + ReplayTtl
        BY <4>1, <4>2, SecondsApart, Numbers, Zenon
      <4> QED BY <3>3, <4>3, Zenon DEF a, b
    <3>6. /\ first.secs \in capabilities[s].not_before..capabilities[s].expires_at
          /\ second.secs \in capabilities[s].not_before..capabilities[s].expires_at
      BY <2>0, <2>1, Zenon DEF LogInv, Spent
    <3>7. capabilities[s].not_before \in Nat /\ capabilities[s].expires_at = capabilities[s].not_before + CapabilityTtl
      BY <2>0, Zenon DEF IssuedInv
    <3> QED BY <2>3, <3>5, <3>6, <3>7, Numbers
  <2> QED BY <2>2, <2>3, Zenon
<1> QED BY <1>1, AccessAlways, PTL

\* A valid capability is refused as a replay only after a use of its nonce, or of as many
\* others as the cache holds, within the period; and found already active only a whole period
\* after the acceptance whose session still lives (NonceReplayCache, verify_and_accept_session).
THEOREM RefusalsExplainedHolds == Spec => []RefusalsExplained
<1>1. AccessInv /\ IdentityKept => RefusalsExplained
  <2> SUFFICES ASSUME AccessInv, IdentityKept PROVE RefusalsExplained
      BY Zenon
  <2>1. clock \in 0..MaxClock /\ behind \in 0..(MaxClockSteps * TicksPerSecond)
    BY WallClock, Zenon DEF AccessInv, ClockInv
  <2>2. /\ DOMAIN cache \subseteq DOMAIN capabilities /\ Cardinality(DOMAIN cache) <= ReplayCapacity
        /\ active \subseteq DOMAIN capabilities /\ \A l \in log : l.result \in Results
    BY Zenon DEF AccessInv, CacheInv, ActiveInv, LogInv
  <2> QED BY <2>1, <2>2, Zenon DEF RefusalsExplained, TypeOK, IdentityKept, AccessInv
<1> QED BY <1>1, AccessAlways, IdentityKeptHolds, PTL
=============================================================================
