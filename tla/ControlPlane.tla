---------------------------- MODULE ControlPlane ----------------------------
(***************************************************************************)
(* nexusd: concurrent enrollment and session requests over one SQLite      *)
(* database and one in-memory audit chain.  Every await of a handler ends  *)
(* a step, so requests interleave between the statements of a transaction, *)
(* between the enrollment and its audit record, and inside record_audit.   *)
(*                                                                         *)
(* SQLite runs in its default rollback-journal mode with deferred          *)
(* transactions: a SELECT takes a shared lock until the transaction ends,  *)
(* the first write takes the one reserved lock, and a commit needs every   *)
(* other reader gone.  A write that already reads fails at once when the   *)
(* reserved lock is taken; one that does not waits for it.                 *)
(***************************************************************************)
EXTENDS AuditChain, FiniteSets, Functions

CONSTANTS
  Requests,             \* HTTP requests
  Ops,                  \* what a request may ask for
  Tokens,               \* enrollment tokens in the database
  MaxUses,              \* EnrollmentToken.max_uses
  OrgOf,                \* EnrollmentToken.organization_id
  DeviceOf,             \* the device id built from a token's type and id prefix
  PoolSize,             \* DatabaseConfig.max_connections
  MaxConcurrent,        \* bound: requests being handled at a time
  MaxFailures,          \* bound: database writes that fail
  MaxDisconnects,       \* bound: callers that go away before their answer
  MaxCrashes,           \* bound: restarts of nexusd
  None

ASSUME ConfigAssumption ==
  /\ MaxUses \in [Tokens -> Nat] /\ PoolSize \in Nat \ {0} /\ MaxConcurrent \in Nat
  /\ MaxFailures \in Nat /\ MaxDisconnects \in Nat /\ MaxCrashes \in Nat
  /\ None \notin Requests
  /\ \A o \in Ops : o.kind \in {"enroll", "session"}

VARIABLES
  pc,                   \* where each request's handler stands
  op,                   \* what it asks for
  status,               \* its HTTP status
  shared,               \* requests whose transaction holds a shared lock
  writer,               \* the request whose transaction holds the reserved lock
  uses_count,           \* enrollment_tokens.uses_count
  devices,              \* rows of devices with their device_credentials
  sessions,             \* rows of sessions
  audit_events,         \* rows of audit_events
  chain,                \* AppState.audit_chain
  previous,             \* record_audit's previous_chain
  chained,              \* record_audit's chained event
  sink,                 \* the events of MemoryAuditSink
  overtaken,            \* a chain was restored after others had appended to it
  failures, disconnects, crashes

dbVars == <<uses_count, devices, sessions, audit_events>>
lockVars == <<shared, writer>>
auditVars == <<chain, previous, chained, sink, overtaken>>
boundVars == <<failures, disconnects, crashes>>
vars == <<pc, op, status, lockVars, dbVars, auditVars, boundVars>>

\* The handler's position; "answered" and "dropped" are final.
Positions == {"idle", "enrolling", "read", "updated", "authorized", "persisting",
              "done", "chained", "auditing", "stored", "answered", "dropped"}
Final == {"idle", "answered", "dropped"}
Statuses == {"none", "200", "401", "403", "404", "500"}

Init == /\ pc = [r \in Requests |-> "idle"]
        /\ op = [r \in Requests |-> None]
        /\ status = [r \in Requests |-> "none"]
        /\ shared = {} /\ writer = None
        /\ uses_count = [t \in Tokens |-> 0]
        /\ devices = {} /\ sessions = {} /\ audit_events = {}
        /\ chain = NewChain
        /\ previous = [r \in Requests |-> NewChain]
        /\ chained = [r \in Requests |-> None]
        /\ sink = <<>> /\ overtaken = FALSE
        /\ failures = 0 /\ disconnects = 0 /\ crashes = 0

Goto(r, p) == pc' = [pc EXCEPT ![r] = p]

Answer(r, s) == Goto(r, "answered") /\ status' = [status EXCEPT ![r] = s]

\* Faulty variant: a failed transaction keeps its shared lock.
EndTxLeaks(r) == /\ shared' = shared
                 /\ writer' = IF writer = r THEN None ELSE writer

\* The connection returns to the pool, rolled back unless it committed.
EndTx(r) == /\ shared' = shared \ {r}
            /\ writer' = IF writer = r THEN None ELSE writer

InTx == shared \union ({writer} \ {None})

Reserve(r) == /\ writer = None
              /\ Cardinality(InTx \union {r}) <= PoolSize
              /\ writer' = r

\* A commit waits until no other transaction reads.
CanCommit(r) == writer = r /\ shared \subseteq {r}

Begin(r, o) ==
  /\ pc[r] = "idle"
  /\ Cardinality({q \in Requests : pc[q] \notin Final}) < MaxConcurrent
  /\ op' = [op EXCEPT ![r] = o]

----------------------------------------------------------------------------
(* enroll_device_handler *)

\* The token does not verify, or the proof of possession does not: no budget is spent.
EnrollRejected(r, o) ==
  /\ Begin(r, o) /\ o.kind = "enroll" /\ ~o.verifies
  /\ Answer(r, "401")
  /\ UNCHANGED <<lockVars, dbVars, auditVars, boundVars>>

EnrollVerified(r, o) ==
  /\ Begin(r, o) /\ o.kind = "enroll" /\ o.verifies
  /\ Goto(r, "enrolling")
  /\ UNCHANGED <<status, lockVars, dbVars, auditVars, boundVars>>

\* SELECT: NotFound, Exhausted, or the transaction goes on with its shared lock.
EnrollRead(r) ==
  LET t == op[r].token IN
  /\ pc[r] = "enrolling" /\ Cardinality(InTx) < PoolSize
  /\ IF t \in Tokens /\ uses_count[t] < MaxUses[t]
     THEN Goto(r, "read") /\ shared' = shared \union {r} /\ UNCHANGED status
     ELSE Answer(r, "403") /\ UNCHANGED shared
  /\ UNCHANGED <<op, writer, dbVars, auditVars, boundVars>>

\* UPDATE ... SET uses_count = uses_count + 1 WHERE uses_count < max_uses.
EnrollUpdate(r) ==
  /\ pc[r] = "read" /\ writer = None
  /\ IF uses_count[op[r].token] < MaxUses[op[r].token]
     THEN Goto(r, "updated") /\ writer' = r /\ UNCHANGED <<status, shared>>
     ELSE Answer(r, "403") /\ EndTx(r)
  /\ UNCHANGED <<op, dbVars, auditVars, boundVars>>

\* The UPDATE meets SQLITE_BUSY, which is answered as an exhausted token.
EnrollUpdateBusy(r) ==
  /\ pc[r] = "read" /\ writer # None
  /\ Answer(r, "403") /\ EndTx(r)
  /\ UNCHANGED <<op, dbVars, auditVars, boundVars>>

DeviceRow(r) == LET t == op[r].token IN
  [device |-> DeviceOf[t], token |-> t, org |-> OrgOf[t]]

\* Faulty variant: the use is counted although the device is not inserted.
EnrollConflictCounted(r) ==
  /\ pc[r] = "updated" /\ \E d \in devices : d.device = DeviceOf[op[r].token]
  /\ uses_count' = [uses_count EXCEPT ![op[r].token] = @ + 1]
  /\ Answer(r, "500") /\ EndTx(r)
  /\ UNCHANGED <<op, devices, sessions, audit_events, auditVars, boundVars>>

\* INSERT INTO devices meets its primary key; the transaction rolls back.
EnrollConflict(r) ==
  /\ pc[r] = "updated" /\ \E d \in devices : d.device = DeviceOf[op[r].token]
  /\ Answer(r, "500") /\ EndTx(r)
  /\ UNCHANGED <<op, dbVars, auditVars, boundVars>>

EnrollCommit(r) ==
  /\ pc[r] = "updated" /\ CanCommit(r)
  /\ \A d \in devices : d.device # DeviceOf[op[r].token]
  /\ uses_count' = [uses_count EXCEPT ![op[r].token] = @ + 1]
  /\ devices' = devices \union {DeviceRow(r)}
  /\ Goto(r, "done") /\ EndTx(r)
  /\ UNCHANGED <<op, status, sessions, audit_events, auditVars, boundVars>>

----------------------------------------------------------------------------
(* request_session_handler.  The subject's roles are fixed and the policy   *)
(* is asked for desktop.view with no active sessions, so it always allows   *)
(* and grants every action; no code ever deactivates a device.              *)

SessionNotFound(r, o) ==
  /\ Begin(r, o) /\ o.kind = "session"
  /\ \A d \in devices : d.device # o.device
  /\ Answer(r, "404")
  /\ UNCHANGED <<lockVars, dbVars, auditVars, boundVars>>

\* get_device finds the target, the policy allows, capability and tokens are signed.
SessionAuthorized(r, o) ==
  /\ Begin(r, o) /\ o.kind = "session"
  /\ \E d \in devices : d.device = o.device
  /\ Goto(r, "authorized")
  /\ UNCHANGED <<status, lockVars, dbVars, auditVars, boundVars>>

SessionInsert(r) ==
  /\ pc[r] = "authorized" /\ Reserve(r)
  /\ Goto(r, "persisting")
  /\ UNCHANGED <<op, status, shared, dbVars, auditVars, boundVars>>

SessionRow(r) == [session |-> r, device |-> op[r].device, org |-> op[r].org]

SessionCommit(r) ==
  /\ pc[r] = "persisting" /\ CanCommit(r)
  /\ sessions' = sessions \union {SessionRow(r)}
  /\ Goto(r, "done") /\ EndTx(r)
  /\ UNCHANGED <<op, status, uses_count, devices, audit_events, auditVars, boundVars>>

\* A statement of the enrollment or of the session fails: busy timeout, disk, lost file.
StorageFails(r) ==
  /\ failures < MaxFailures /\ failures' = failures + 1
  /\ pc[r] \in {"enrolling", "read", "updated", "authorized", "persisting"}
  /\ Answer(r, "500") /\ EndTx(r)
  /\ UNCHANGED <<op, dbVars, auditVars, disconnects, crashes>>

----------------------------------------------------------------------------
(* AppState::record_audit *)

\* evt-enroll-<device id> or evt-auth-<session id>, in the organization of the request.
AuditEvent(r) ==
  IF op[r].kind = "enroll"
  THEN [event_id |-> <<"enroll", DeviceOf[op[r].token]>>, org |-> OrgOf[op[r].token]]
  ELSE [event_id |-> <<"auth", r>>, org |-> op[r].org]

\* Under the mutex: keep the previous chain and append.
AuditAppend(r) ==
  /\ pc[r] = "done"
  /\ previous' = [previous EXCEPT ![r] = chain]
  /\ chained' = [chained EXCEPT ![r] = Chained(chain, AuditEvent(r))]
  /\ chain' = AppendEvent(chain, AuditEvent(r))
  /\ Goto(r, "chained")
  /\ UNCHANGED <<op, status, lockVars, dbVars, sink, overtaken, boundVars>>

AuditInsert(r) ==
  /\ pc[r] = "chained" /\ Reserve(r)
  /\ Goto(r, "auditing")
  /\ UNCHANGED <<op, status, shared, dbVars, auditVars, boundVars>>

AuditCommit(r) ==
  /\ pc[r] = "auditing" /\ CanCommit(r)
  /\ audit_events' = audit_events \union {chained[r]}
  /\ Goto(r, "stored") /\ EndTx(r)
  /\ UNCHANGED <<op, status, uses_count, devices, sessions, auditVars, boundVars>>

\* Faulty variant: the failed event stays in the chain.
AuditFailsKept(r) ==
  /\ failures < MaxFailures /\ failures' = failures + 1
  /\ pc[r] \in {"chained", "auditing"}
  /\ Answer(r, "500") /\ EndTx(r)
  /\ UNCHANGED <<op, dbVars, auditVars, disconnects, crashes>>

\* The insert fails: the chain is set back to what it was before this event.
AuditFails(r) ==
  /\ failures < MaxFailures /\ failures' = failures + 1
  /\ pc[r] \in {"chained", "auditing"}
  /\ chain' = previous[r]
  /\ overtaken' = (overtaken \/ chain # AppendEvent(previous[r], AuditEvent(r)))
  /\ Answer(r, "500") /\ EndTx(r)
  /\ UNCHANGED <<op, dbVars, previous, chained, sink, disconnects, crashes>>

\* Faulty variant: the answer is sent although the event was not stored.
AuditUnstored(r) ==
  /\ pc[r] \in {"chained", "stored"}
  /\ sink' = Append(sink, chained[r])
  /\ Answer(r, "200")
  /\ UNCHANGED <<op, lockVars, dbVars, chain, previous, chained, overtaken, boundVars>>

\* The durable event is given to the sink, and the handler answers.
SinkRecord(r) ==
  /\ pc[r] = "stored"
  /\ sink' = Append(sink, chained[r])
  /\ Answer(r, "200")
  /\ UNCHANGED <<op, lockVars, dbVars, chain, previous, chained, overtaken, boundVars>>

----------------------------------------------------------------------------
\* The caller goes away: the server drops the handler at its await, and with it the
\* transaction; nothing else is undone.
Disconnect(r) ==
  /\ disconnects < MaxDisconnects /\ disconnects' = disconnects + 1
  /\ pc[r] \notin Final
  /\ Goto(r, "dropped") /\ EndTx(r)
  /\ UNCHANGED <<op, status, dbVars, auditVars, failures, crashes>>

\* nexusd restarts: SQLite rolls back what was not committed, AppState::new starts over.
Restart ==
  /\ crashes < MaxCrashes /\ crashes' = crashes + 1
  /\ pc' = [r \in Requests |-> IF pc[r] \in Final THEN pc[r] ELSE "dropped"]
  /\ shared' = {} /\ writer' = None
  /\ chain' = NewChain /\ sink' = <<>>
  /\ UNCHANGED <<op, status, dbVars, previous, chained, overtaken, failures, disconnects>>

Step(r) == \/ EnrollRead(r) \/ EnrollUpdate(r) \/ EnrollUpdateBusy(r)
           \/ EnrollConflict(r) \/ EnrollCommit(r)
           \/ SessionInsert(r) \/ SessionCommit(r)
           \/ AuditAppend(r) \/ AuditInsert(r) \/ AuditCommit(r) \/ SinkRecord(r)

Next == \/ \E r \in Requests : \/ \E o \in Ops : \/ EnrollRejected(r, o) \/ EnrollVerified(r, o)
                                                 \/ SessionNotFound(r, o) \/ SessionAuthorized(r, o)
                               \/ Step(r) \/ StorageFails(r) \/ AuditFails(r) \/ Disconnect(r)
        \/ Restart

Spec == Init /\ [][Next]_vars

\* Every handler that can take its next step does: tokio polls it, and the lock it
\* waits for is released by a handler that is polled as well.
LiveSpec == Spec /\ \A r \in Requests : WF_vars(Step(r))

----------------------------------------------------------------------------
(* Properties. *)

IsChained(e) == e.sequence \in Nat \ {0} /\ e.event.event_id[1] \in {"enroll", "auth"}

\* Positions, rows, locks and the chain have the shape the code gives them.
TypeOK ==
  /\ pc \in [Requests -> Positions] /\ status \in [Requests -> Statuses]
  /\ op \in [Requests -> Ops \union {None}]
  /\ shared \subseteq Requests /\ writer \in Requests \union {None}
  /\ uses_count \in [Tokens -> Nat]
  /\ \A d \in devices : \E t \in Tokens : d = [device |-> DeviceOf[t], token |-> t, org |-> OrgOf[t]]
  /\ \A s \in sessions : s.session \in Requests
  /\ chain.sequence \in Nat
  /\ \A e \in audit_events \union Range(sink) : IsChained(e)
  /\ failures \in 0..MaxFailures /\ disconnects \in 0..MaxDisconnects /\ crashes \in 0..MaxCrashes

\* However enrollments race, fail, are dropped or are cut off by a restart, a token's
\* uses_count is exactly the number of devices it enrolled and never passes max_uses.
TokenBudget ==
  \A t \in Tokens : /\ uses_count[t] <= MaxUses[t]
                    /\ uses_count[t] = Cardinality({d \in devices : d.token = t})

\* A caller that was answered 200 holds a credential or a session whose row, and whose
\* audit record, is in the database, also after a restart.
OkIsDurable ==
  \A r \in Requests : status[r] = "200" =>
    /\ IF op[r].kind = "enroll" THEN DeviceRow(r) \in devices ELSE SessionRow(r) \in sessions
    /\ \E e \in audit_events : e.event = AuditEvent(r)

\* list_audit_events(org): the organization's rows, ORDER BY sequence.
OrderedBySequence(rows) ==
  {list \in [1..Cardinality(rows) -> rows] :
     \A i, j \in DOMAIN list : i < j => list[i] # list[j] /\ list[i].sequence <= list[j].sequence}

ListAuditEvents(org) ==
  CHOOSE list \in OrderedBySequence({e \in audit_events : e.event.org = org}) : TRUE

\* Whenever no record_audit is under way, the stored events of an organization pass
\* verify_chain, in whatever order concurrent requests appended and inserted them.
ChainVerifies ==
  (\A r \in Requests : pc[r] \notin {"chained", "auditing"})
  => \A e \in audit_events : VerifyChain(ListAuditEvents(e.event.org))

\* With one organization, the stored chain verifies also after failed inserts, until a
\* caller is dropped inside record_audit, nexusd restarts, or a failed insert restores
\* a chain to which another request has appended since.
ChainVerifiesUntilOvertaken ==
  /\ TypeOK
  /\ disconnects = 0 /\ crashes = 0 /\ ~overtaken => ChainVerifies

\* Every request is answered or dropped: no two handlers wait for each other's locks.
Answered == \A r \in Requests : pc[r] \notin Final ~> pc[r] \in Final
=============================================================================
