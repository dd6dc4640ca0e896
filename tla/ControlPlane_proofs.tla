------------------------ MODULE ControlPlane_proofs ------------------------
(***************************************************************************)
(* TokenBudget and OkIsDurable hold for every set of requests, tokens and  *)
(* operations, however often statements fail, callers leave and nexusd     *)
(* restarts; and the audit chain of an organization verifies until a       *)
(* restore has overtaken another append.                                   *)
(***************************************************************************)
EXTENDS ControlPlane, FiniteSetTheorems, WellFoundedInduction, TLAPS

\* Handlers that work on an enrollment have an enrollment to work on.
EnrollInv ==
  \A r \in Requests :
    /\ pc[r] \in {"enrolling", "read", "updated"} => op[r].kind = "enroll"
    /\ pc[r] \in {"read", "updated"} => op[r].token \in Tokens
    /\ pc[r] \in {"authorized", "persisting"} => op[r].kind = "session"

\* The reserved lock serialises the handlers between UPDATE and COMMIT, so the use
\* that the UPDATE tested is still there when it is committed.
LockInv ==
  \A r \in Requests :
    pc[r] = "updated" => writer = r /\ uses_count[op[r].token] < MaxUses[op[r].token]

DbType == /\ pc \in [Requests -> Positions] /\ status \in [Requests -> Statuses]
          /\ DOMAIN op = Requests /\ DOMAIN chained = Requests
          /\ uses_count \in [Tokens -> Nat]
          /\ IsFiniteSet(devices)

BudgetInv == DbType /\ EnrollInv /\ LockInv /\ TokenBudget

\* nexusd starts with every use of every token left and nobody holding the lock.
LEMMA BudgetInit == Init => BudgetInv
<1> SUFFICES ASSUME Init PROVE BudgetInv
    BY Zenon
<1>1. DbType
  BY FS_EmptySet, Zenon DEF Init, DbType, Positions, Statuses
<1>2. EnrollInv /\ LockInv
  BY Zenon DEF Init, EnrollInv, LockInv
<1>3. \A t \in Tokens : {d \in devices : d.token = t} = {}
  BY Zenon DEF Init
<1>4. TokenBudget
  BY <1>3, FS_EmptySet, ConfigAssumption DEF Init, TokenBudget
<1> QED BY <1>1, <1>2, <1>4, Zenon DEF BudgetInv

\* A step that moves one handler outside of the enrollment transaction.
LEMMA BudgetOther ==
  ASSUME BudgetInv, NEW r \in Requests, NEW p \in Positions,
         pc' = [pc EXCEPT ![r] = p], status' \in [Requests -> Statuses],
         DOMAIN op' = Requests, DOMAIN chained' = Requests,
         \A q \in Requests \ {r} : op'[q] = op[q],
         uses_count' = uses_count, devices' = devices,
         \A q \in Requests \ {r} : writer = q => writer' = q,
         p \in {"enrolling", "read", "updated"} => op'[r].kind = "enroll",
         p \in {"read", "updated"} => op'[r].token \in Tokens,
         p \in {"authorized", "persisting"} => op'[r].kind = "session",
         p = "updated" => writer' = r /\ uses_count[op'[r].token] < MaxUses[op'[r].token]
  PROVE  BudgetInv'
<1>1. DbType'
  BY Zenon DEF BudgetInv, DbType
<1>2. pc'[r] = p /\ \A q \in Requests \ {r} : pc'[q] = pc[q]
  BY Zenon DEF BudgetInv, DbType
<1>3. EnrollInv'
  BY <1>2, Zenon DEF BudgetInv, EnrollInv
<1>4. LockInv'
  BY <1>2, Zenon DEF BudgetInv, LockInv
<1>5. TokenBudget'
  BY Zenon DEF BudgetInv, TokenBudget
<1> QED BY <1>1, <1>3, <1>4, <1>5, Zenon DEF BudgetInv

\* The commit of an enrollment adds one use of its token and one row for it.
LEMMA BudgetCommit == ASSUME BudgetInv, NEW r \in Requests, EnrollCommit(r) PROVE BudgetInv'
<1> DEFINE t == op[r].token
<1>1. pc[r] = "updated" /\ writer = r /\ t \in Tokens /\ uses_count[t] < MaxUses[t] /\ MaxUses[t] \in Nat
  BY ConfigAssumption, Zenon DEF EnrollCommit, BudgetInv, EnrollInv, LockInv
<1>2. /\ pc' = [pc EXCEPT ![r] = "done"] /\ UNCHANGED <<op, status, chained>>
      /\ uses_count' = [uses_count EXCEPT ![t] = @ + 1]
      /\ devices' = devices \union {DeviceRow(r)} /\ DeviceRow(r) \notin devices
      /\ DeviceRow(r).token = t
  BY Zenon DEF EnrollCommit, Goto, auditVars, DeviceRow
<1>3. DbType'
  <2>1. IsFiniteSet(devices')
    BY <1>2, FS_AddElement, Zenon DEF BudgetInv, DbType
  <2>2. uses_count' \in [Tokens -> Nat]
    BY <1>1, <1>2 DEF BudgetInv, DbType
  <2> QED BY <1>2, <2>1, <2>2, Zenon DEF BudgetInv, DbType, Positions
<1>4. \A q \in Requests : pc'[q] = (IF q = r THEN "done" ELSE pc[q])
  BY <1>2, Zenon DEF BudgetInv, DbType
<1>5. EnrollInv'
  BY <1>2, <1>4 DEF BudgetInv, EnrollInv
<1>6. LockInv'
  BY <1>1, <1>2, <1>4 DEF BudgetInv, LockInv
<1>7. ASSUME NEW u \in Tokens
      PROVE  /\ uses_count'[u] <= MaxUses[u]
             /\ uses_count'[u] = Cardinality({d \in devices' : d.token = u})
  <2> DEFINE S == {d \in devices : d.token = u}
  <2>0. uses_count[u] <= MaxUses[u] /\ uses_count[u] = Cardinality(S) /\ uses_count[u] \in Nat
    BY Zenon DEF BudgetInv, TokenBudget, DbType
  <2>1. IsFiniteSet(S)
    BY FS_Subset, Zenon DEF BudgetInv, DbType
  <2>2. CASE u = t
    <3>1. {d \in devices' : d.token = u} = S \union {DeviceRow(r)} /\ DeviceRow(r) \notin S
      BY <1>2, <2>2, Zenon
    <3>2. Cardinality(S \union {DeviceRow(r)}) = Cardinality(S) + 1
      BY <2>1, <3>1, FS_AddElement, Zenon
    <3>3. uses_count'[u] = uses_count[u] + 1
      BY <1>1, <1>2, <2>2, Zenon DEF BudgetInv, DbType
    <3>4. uses_count[u] + 1 <= MaxUses[u]
      BY <1>1, <2>0, <2>2
    <3>5. uses_count'[u] = Cardinality({d \in devices' : d.token = u})
      BY <2>0, <3>1, <3>2, <3>3, Zenon
    <3> QED BY <3>3, <3>4, <3>5, Zenon
  <2>3. CASE u # t
    <3>1. {d \in devices' : d.token = u} = S
      BY <1>2, <2>3, Zenon
    <3>2. uses_count'[u] = uses_count[u]
      BY <1>2, <2>3, Zenon DEF BudgetInv, DbType
    <3> QED BY <2>0, <3>1, <3>2, Zenon
  <2> QED BY <2>2, <2>3, Zenon
<1>8. TokenBudget'
  BY <1>7, Zenon DEF TokenBudget
<1> QED BY <1>3, <1>5, <1>6, <1>8, Zenon DEF BudgetInv

\* Every other step of a handler keeps the uses, the rows and who holds the reserved lock.
LEMMA BudgetHandler ==
  ASSUME BudgetInv, NEW r \in Requests,
         \/ \E o \in Ops : \/ EnrollRejected(r, o) \/ EnrollVerified(r, o)
                           \/ SessionNotFound(r, o) \/ SessionAuthorized(r, o)
         \/ Step(r) \/ StorageFails(r) \/ AuditFails(r) \/ Disconnect(r)
  PROVE  BudgetInv'
<1> USE DEF Goto, Answer, EndTx, lockVars, dbVars, auditVars, boundVars, Positions, Statuses
<1>0. DbType /\ EnrollInv
  BY Zenon DEF BudgetInv
<1>1. ASSUME NEW o \in Ops, EnrollRejected(r, o) \/ SessionNotFound(r, o) PROVE BudgetInv'
  <2>1. /\ pc' = [pc EXCEPT ![r] = "answered"] /\ op' = [op EXCEPT ![r] = o]
        /\ \E s \in Statuses : status' = [status EXCEPT ![r] = s]
        /\ UNCHANGED <<writer, uses_count, devices, chained>>
    BY <1>1, Zenon DEF EnrollRejected, SessionNotFound, Begin
  <2>2. /\ status' \in [Requests -> Statuses] /\ DOMAIN op' = Requests /\ DOMAIN chained' = Requests
        /\ \A q \in Requests \ {r} : op'[q] = op[q]
    BY <1>0, <2>1 DEF DbType
  <2> QED BY <2>1, <2>2, BudgetOther, Zenon
<1>2. ASSUME NEW o \in Ops, EnrollVerified(r, o) PROVE BudgetInv'
  BY <1>0, <1>2, BudgetOther, Zenon DEF DbType, EnrollVerified, Begin
<1>3. ASSUME NEW o \in Ops, SessionAuthorized(r, o) PROVE BudgetInv'
  BY <1>0, <1>3, BudgetOther, Zenon DEF DbType, SessionAuthorized, Begin
<1>4. ASSUME EnrollRead(r) PROVE BudgetInv'
  <2>0. pc[r] = "enrolling" /\ UNCHANGED <<op, writer, uses_count, devices, chained>>
    BY <1>4, Zenon DEF EnrollRead
  <2>1. CASE op[r].token \in Tokens /\ uses_count[op[r].token] < MaxUses[op[r].token]
    <3>1. pc' = [pc EXCEPT ![r] = "read"] /\ status' = status
      BY <1>4, <2>1, Zenon DEF EnrollRead
    <3> QED BY <1>0, <2>0, <2>1, <3>1, BudgetOther, Zenon DEF DbType, EnrollInv
  <2>2. CASE ~(op[r].token \in Tokens /\ uses_count[op[r].token] < MaxUses[op[r].token])
    <3>1. pc' = [pc EXCEPT ![r] = "answered"] /\ status' = [status EXCEPT ![r] = "403"]
      BY <1>4, <2>2, Zenon DEF EnrollRead
    <3> QED BY <1>0, <2>0, <3>1, BudgetOther, Zenon DEF DbType
  <2> QED BY <2>1, <2>2, Zenon
<1>5. ASSUME EnrollUpdate(r) PROVE BudgetInv'
  <2>0. /\ pc[r] = "read" /\ writer = None /\ UNCHANGED <<op, uses_count, devices, chained>>
        /\ r # None /\ \A q \in Requests : q # None
    BY <1>5, ConfigAssumption, Zenon DEF EnrollUpdate
  <2>1. CASE uses_count[op[r].token] < MaxUses[op[r].token]
    <3>1. pc' = [pc EXCEPT ![r] = "updated"] /\ status' = status /\ writer' = r
      BY <1>5, <2>1, Zenon DEF EnrollUpdate
    <3> QED BY <1>0, <2>0, <2>1, <3>1, BudgetOther, Zenon DEF DbType, EnrollInv
  <2>2. CASE ~(uses_count[op[r].token] < MaxUses[op[r].token])
    <3>1. pc' = [pc EXCEPT ![r] = "answered"] /\ status' = [status EXCEPT ![r] = "403"]
      BY <1>5, <2>2, Zenon DEF EnrollUpdate
    <3> QED BY <1>0, <2>0, <3>1, BudgetOther, Zenon DEF DbType
  <2> QED BY <2>1, <2>2, Zenon
<1>6. ASSUME EnrollUpdateBusy(r) \/ EnrollConflict(r) PROVE BudgetInv'
  <2>1. /\ pc' = [pc EXCEPT ![r] = "answered"]
        /\ \E s \in Statuses : status' = [status EXCEPT ![r] = s]
        /\ writer' = (IF writer = r THEN None ELSE writer)
        /\ UNCHANGED <<op, uses_count, devices, chained>>
    BY <1>6, Zenon DEF EnrollUpdateBusy, EnrollConflict
  <2>2. /\ status' \in [Requests -> Statuses] /\ DOMAIN op' = Requests /\ DOMAIN chained' = Requests
        /\ \A q \in Requests \ {r} : writer = q => writer' = q
    BY <1>0, <2>1 DEF DbType
  <2> QED BY <2>1, <2>2, BudgetOther, Zenon
<1>7. ASSUME EnrollCommit(r) PROVE BudgetInv'
  BY <1>7, BudgetCommit, Zenon
<1>8. ASSUME SessionInsert(r) PROVE BudgetInv'
  BY <1>0, ConfigAssumption, <1>8, BudgetOther, Zenon DEF DbType, EnrollInv, SessionInsert, Reserve
<1>9. ASSUME SessionCommit(r) \/ AuditCommit(r) PROVE BudgetInv'
  BY <1>0, <1>9, BudgetOther DEF DbType, SessionCommit, AuditCommit
<1>10. ASSUME AuditAppend(r) PROVE BudgetInv'
  BY <1>0, <1>10, BudgetOther, Zenon DEF DbType, AuditAppend
<1>11. ASSUME AuditInsert(r) PROVE BudgetInv'
  BY <1>0, ConfigAssumption, <1>11, BudgetOther, Zenon DEF DbType, AuditInsert, Reserve
<1>12. ASSUME SinkRecord(r) PROVE BudgetInv'
  BY <1>0, <1>12, BudgetOther, Zenon DEF DbType, SinkRecord
<1>13. ASSUME StorageFails(r) \/ AuditFails(r) PROVE BudgetInv'
  BY <1>0, <1>13, BudgetOther DEF DbType, StorageFails, AuditFails
<1>14. ASSUME Disconnect(r) PROVE BudgetInv'
  BY <1>0, <1>14, BudgetOther, Zenon DEF DbType, Disconnect
<1> QED BY <1>1, <1>2, <1>3, <1>4, <1>5, <1>6, <1>7, <1>8, <1>9, <1>10, <1>11, <1>12, <1>13,
           <1>14 DEF Step

\* No step of nexusd, its restart included, separates the uses of a token from its devices.
LEMMA BudgetStep == BudgetInv /\ [Next]_vars => BudgetInv'
<1> SUFFICES ASSUME BudgetInv, [Next]_vars PROVE BudgetInv'
    BY Zenon
<1>1. CASE Restart
  <2>1. UNCHANGED <<op, status, uses_count, devices, chained>>
    BY <1>1, Zenon DEF Restart, dbVars
  <2>2. \A r \in Requests : pc'[r] \in {"idle", "answered", "dropped"}
    BY <1>1, Zenon DEF Restart, Final
  <2>3. pc' \in [Requests -> Positions]
    BY <1>1, Zenon DEF Restart, Final, Positions, BudgetInv, DbType
  <2> QED BY <2>1, <2>2, <2>3, Zenon DEF BudgetInv, DbType, EnrollInv, LockInv, TokenBudget
<1>2. CASE UNCHANGED vars
  BY <1>2, Zenon
     DEF vars, lockVars, dbVars, auditVars, BudgetInv, DbType, EnrollInv, LockInv, TokenBudget
<1> QED BY <1>1, <1>2, BudgetHandler, Zenon DEF Next

\* A token's uses_count is exactly the number of devices it enrolled, and never more than
\* max_uses: enroll_device consumes the token and inserts the device in one transaction.
THEOREM TokenBudgetHolds == Spec => []TokenBudget
<1>1. BudgetInv => TokenBudget
  BY Zenon DEF BudgetInv
<1> QED BY <1>1, BudgetInit, BudgetStep, PTL DEF Spec

----------------------------------------------------------------------------
(* OkIsDurable: what the 200 promises is true as soon as the handler has    *)
(* committed it, and rows are never removed.                                *)

Persisted(r) == IF op[r].kind = "enroll" THEN DeviceRow(r) \in devices ELSE SessionRow(r) \in sessions

Audited(r) == \E e \in audit_events : e.event = AuditEvent(r)

\* What is known of handler r.
Durable(r) ==
  /\ status[r] # "none" => pc[r] = "answered"
  /\ pc[r] \in {"done", "chained", "auditing", "stored"} \/ status[r] = "200" => Persisted(r)
  /\ pc[r] \in {"chained", "auditing", "stored"} => chained[r].event = AuditEvent(r)
  /\ pc[r] = "stored" \/ status[r] = "200" => Audited(r)

DurableInv == \A r \in Requests : Durable(r)

\* A handler that does not move keeps what is known of it.
LEMMA DurableKept ==
  ASSUME NEW q \in Requests, Durable(q), pc'[q] = pc[q] \/ pc'[q] \in Final,
         pc'[q] = pc[q] \/ pc[q] # "answered",
         status'[q] = status[q], op'[q] = op[q], chained'[q] = chained[q],
         devices \subseteq devices', sessions \subseteq sessions', audit_events \subseteq audit_events'
  PROVE  Durable(q)'
<1>1. Persisted(q) => Persisted(q)'
  BY Zenon DEF Persisted, DeviceRow, SessionRow
<1>2. AuditEvent(q)' = AuditEvent(q)
  BY Zenon DEF AuditEvent
<1>3. Audited(q) => Audited(q)'
  BY <1>2, Zenon DEF Audited
<1> QED BY <1>1, <1>2, <1>3, Zenon DEF Durable, Final

\* Every step of a handler keeps the rows and leaves the other handlers alone.
LEMMA HandlerFrame ==
  ASSUME BudgetInv, NEW r \in Requests,
         \/ \E o \in Ops : \/ EnrollRejected(r, o) \/ EnrollVerified(r, o)
                           \/ SessionNotFound(r, o) \/ SessionAuthorized(r, o)
         \/ Step(r) \/ StorageFails(r) \/ AuditFails(r) \/ Disconnect(r)
  PROVE  /\ \A q \in Requests \ {r} : /\ pc'[q] = pc[q] /\ status'[q] = status[q]
                                      /\ op'[q] = op[q] /\ chained'[q] = chained[q]
         /\ devices \subseteq devices' /\ sessions \subseteq sessions'
         /\ audit_events \subseteq audit_events'
<1> USE DEF Goto, Answer, dbVars, auditVars
<1>0. /\ DOMAIN pc = Requests /\ DOMAIN status = Requests
      /\ DOMAIN op = Requests /\ DOMAIN chained = Requests
  BY Zenon DEF BudgetInv, DbType
<1>1. ASSUME NEW o \in Ops, \/ EnrollRejected(r, o) \/ EnrollVerified(r, o)
                            \/ SessionNotFound(r, o) \/ SessionAuthorized(r, o)
      PROVE  /\ \A q \in Requests \ {r} : /\ pc'[q] = pc[q] /\ status'[q] = status[q] /\ op'[q] = op[q]
             /\ UNCHANGED <<chained, devices, sessions, audit_events>>
  BY <1>0, <1>1, Zenon DEF EnrollRejected, EnrollVerified, SessionNotFound, SessionAuthorized, Begin
<1>2. ASSUME EnrollRead(r) \/ EnrollUpdate(r) \/ EnrollUpdateBusy(r) \/ EnrollConflict(r) \/ EnrollCommit(r)
      PROVE  /\ \A q \in Requests \ {r} : pc'[q] = pc[q] /\ status'[q] = status[q]
             /\ UNCHANGED <<op, chained, sessions, audit_events>> /\ devices \subseteq devices'
  BY <1>0, <1>2, Zenon DEF EnrollRead, EnrollUpdate, EnrollUpdateBusy, EnrollConflict, EnrollCommit
<1>3. ASSUME SessionInsert(r) \/ SessionCommit(r) \/ AuditInsert(r) \/ AuditCommit(r)
      PROVE  /\ \A q \in Requests \ {r} : pc'[q] = pc[q]
             /\ UNCHANGED <<op, status, chained, devices>>
             /\ sessions \subseteq sessions' /\ audit_events \subseteq audit_events'
  BY <1>0, <1>3, Zenon DEF SessionInsert, SessionCommit, AuditInsert, AuditCommit
<1>4. ASSUME AuditAppend(r) \/ SinkRecord(r) \/ StorageFails(r) \/ AuditFails(r) \/ Disconnect(r)
      PROVE  /\ \A q \in Requests \ {r} : /\ pc'[q] = pc[q] /\ status'[q] = status[q]
                                          /\ chained'[q] = chained[q]
             /\ UNCHANGED <<op, devices, sessions, audit_events>>
  BY <1>0, <1>4, Zenon DEF AuditAppend, SinkRecord, StorageFails, AuditFails, Disconnect
<1> QED BY <1>1, <1>2, <1>3, <1>4, Zenon DEF Step

\* The handler that moves learns what its step did.
LEMMA HandlerDurable ==
  ASSUME BudgetInv, NEW r \in Requests, Durable(r),
         \/ \E o \in Ops : \/ EnrollRejected(r, o) \/ EnrollVerified(r, o)
                           \/ SessionNotFound(r, o) \/ SessionAuthorized(r, o)
         \/ Step(r) \/ StorageFails(r) \/ AuditFails(r) \/ Disconnect(r)
  PROVE  Durable(r)'
<1> USE DEF Goto, Answer, dbVars, auditVars
<1>0. /\ r \in DOMAIN pc /\ r \in DOMAIN status /\ r \in DOMAIN op /\ r \in DOMAIN chained
      /\ EnrollInv
  BY Zenon DEF BudgetInv, DbType
<1>1. ASSUME NEW o \in Ops, EnrollRejected(r, o) \/ SessionNotFound(r, o) PROVE Durable(r)'
  BY <1>0, <1>1 DEF EnrollRejected, SessionNotFound, Begin, Durable
<1>2. ASSUME NEW o \in Ops, EnrollVerified(r, o) \/ SessionAuthorized(r, o) PROVE Durable(r)'
  BY <1>0, <1>2, Zenon DEF EnrollVerified, SessionAuthorized, Begin, Durable
<1>3. ASSUME EnrollRead(r) \/ EnrollUpdate(r) \/ EnrollUpdateBusy(r) \/ EnrollConflict(r) PROVE Durable(r)'
  BY <1>0, <1>3, Zenon DEF EnrollRead, EnrollUpdate, EnrollUpdateBusy, EnrollConflict, Durable
<1>4. ASSUME EnrollCommit(r) PROVE Durable(r)'
  <2>1. Persisted(r)'
    BY <1>0, <1>4, Zenon DEF EnrollCommit, EnrollInv, Persisted, DeviceRow
  <2> QED BY <1>0, <1>4, <2>1, Zenon DEF EnrollCommit, Durable
<1>5. ASSUME SessionCommit(r) PROVE Durable(r)'
  <2>1. Persisted(r)'
    BY <1>0, <1>5, Zenon DEF SessionCommit, EnrollInv, Persisted, SessionRow
  <2> QED BY <1>0, <1>5, <2>1, Zenon DEF SessionCommit, Durable
<1>6. ASSUME SessionInsert(r) \/ AuditInsert(r) PROVE Durable(r)'
  BY <1>0, <1>6, Zenon
     DEF SessionInsert, AuditInsert, Durable, Persisted, DeviceRow, SessionRow, AuditEvent
<1>7. ASSUME AuditAppend(r) PROVE Durable(r)'
  <2>1. chained'[r].event = AuditEvent(r)'
    BY <1>0, <1>7, Zenon DEF AuditAppend, Chained, AuditEvent
  <2>2. Persisted(r)'
    BY <1>7, Zenon DEF AuditAppend, Durable, Persisted, DeviceRow, SessionRow
  <2> QED BY <1>0, <1>7, <2>1, <2>2, Zenon DEF AuditAppend, Durable
<1>8. ASSUME AuditCommit(r) PROVE Durable(r)'
  <2>1. chained[r] \in audit_events' /\ chained'[r] = chained[r] /\ chained[r].event = AuditEvent(r)'
    BY <1>8, Zenon DEF AuditCommit, Durable, AuditEvent
  <2>2. Persisted(r)'
    BY <1>8, Zenon DEF AuditCommit, Durable, Persisted, DeviceRow, SessionRow
  <2>3. Audited(r)'
    BY <2>1, Zenon DEF Audited
  <2> QED BY <1>0, <1>8, <2>1, <2>2, <2>3, Zenon DEF AuditCommit, Durable
<1>9. ASSUME SinkRecord(r) PROVE Durable(r)'
  BY <1>0, <1>9, Zenon
     DEF SinkRecord, Durable, Persisted, DeviceRow, SessionRow, Audited, AuditEvent
<1>10. ASSUME StorageFails(r) \/ AuditFails(r) PROVE Durable(r)'
  BY <1>0, <1>10, Zenon DEF StorageFails, AuditFails, Durable
<1>11. ASSUME Disconnect(r) PROVE Durable(r)'
  BY <1>0, <1>11, Zenon DEF Disconnect, Durable, Final
<1> QED BY <1>1, <1>2, <1>3, <1>4, <1>5, <1>6, <1>7, <1>8, <1>9, <1>10, <1>11 DEF Step

\* What a handler has stored by the time it has reached its position stays stored.
LEMMA DurableStep == BudgetInv /\ DurableInv /\ [Next]_vars => DurableInv'
<1> SUFFICES ASSUME BudgetInv, DurableInv, [Next]_vars, NEW q \in Requests PROVE Durable(q)'
    BY Zenon DEF DurableInv
<1>0. Durable(q)
  BY Zenon DEF DurableInv
<1>1. CASE Restart
  <2>1. pc'[q] = pc[q] \/ (pc'[q] = "dropped" /\ pc[q] # "answered")
    BY <1>1, Zenon DEF Restart, Final
  <2> QED BY <1>0, <1>1, <2>1, DurableKept, Zenon DEF Restart, dbVars, Final
<1>2. CASE UNCHANGED vars
  BY <1>0, <1>2, DurableKept, Zenon DEF vars, dbVars, auditVars
<1>3. ASSUME NEW r \in Requests,
             \/ \E o \in Ops : \/ EnrollRejected(r, o) \/ EnrollVerified(r, o)
                               \/ SessionNotFound(r, o) \/ SessionAuthorized(r, o)
             \/ Step(r) \/ StorageFails(r) \/ AuditFails(r) \/ Disconnect(r)
      PROVE  Durable(q)'
  <2>1. CASE q = r
    BY <1>0, <1>3, <2>1, HandlerDurable, Zenon
  <2>2. CASE q # r
    <3>1. /\ pc'[q] = pc[q] /\ status'[q] = status[q] /\ op'[q] = op[q] /\ chained'[q] = chained[q]
          /\ devices \subseteq devices' /\ sessions \subseteq sessions' /\ audit_events \subseteq audit_events'
      BY <1>3, <2>2, HandlerFrame, Zenon
    <3> QED BY <1>0, <3>1, DurableKept, Zenon
  <2> QED BY <2>1, <2>2, Zenon
<1> QED BY <1>1, <1>2, <1>3, Zenon DEF Next

\* A caller that was answered 200 has its row and its audit record in the database for
\* good, whatever fails and however often nexusd restarts.
THEOREM OkIsDurableHolds == Spec => []OkIsDurable
<1>1. Init => DurableInv
  BY Zenon DEF Init, DurableInv, Durable
<1>2. DurableInv => OkIsDurable
  BY Zenon DEF DurableInv, Durable, OkIsDurable, Persisted, Audited
<1> QED BY <1>1, <1>2, BudgetInit, BudgetStep, DurableStep, PTL DEF Spec

----------------------------------------------------------------------------
(* The audit chain: types first.                                            *)

HandlerTypes ==
  /\ pc \in [Requests -> Positions] /\ status \in [Requests -> Statuses]
  /\ op \in [Requests -> Ops \union {None}]
  /\ shared \subseteq Requests /\ writer \in Requests \union {None}

RowTypes ==
  /\ uses_count \in [Tokens -> Nat]
  /\ \A d \in devices : \E t \in Tokens : d = [device |-> DeviceOf[t], token |-> t, org |-> OrgOf[t]]
  /\ \A s \in sessions : s.session \in Requests

\* A request appends to a chain that has a length, and holds the event it appended.
AuditTypes ==
  /\ chain.sequence \in Nat
  /\ DOMAIN previous = Requests /\ DOMAIN chained = Requests
  /\ \A r \in Requests : previous[r].sequence \in Nat
  /\ \A r \in Requests : pc[r] \in {"chained", "auditing", "stored"} => IsChained(chained[r])
  /\ \A e \in audit_events : IsChained(e)
  /\ \A e \in Range(sink) : IsChained(e)
  /\ sink \in Seq(Range(sink))

CounterTypes ==
  failures \in 0..MaxFailures /\ disconnects \in 0..MaxDisconnects /\ crashes \in 0..MaxCrashes

TypeInv == HandlerTypes /\ RowTypes /\ AuditTypes /\ CounterTypes

\* The parts are the type invariant.
LEMMA TypesImply == TypeInv => TypeOK
BY Zenon DEF TypeInv, TypeOK, HandlerTypes, RowTypes, AuditTypes, CounterTypes

\* Nothing has been asked, stored or appended yet.
LEMMA TypesInit == Init => TypeInv
<1> SUFFICES ASSUME Init PROVE TypeInv
  BY Zenon
<1>1. HandlerTypes
  BY Zenon DEF Init, HandlerTypes, Positions, Statuses
<1>2. RowTypes /\ CounterTypes
  BY ConfigAssumption DEF Init, RowTypes, CounterTypes
<1>3. Range(sink) = {} /\ sink \in Seq(Range(sink))
  BY DEF Init, Range
<1>4. AuditTypes
  BY <1>3, Zenon DEF Init, AuditTypes, NewChain
<1> QED BY <1>1, <1>2, <1>4, Zenon DEF TypeInv

HandlerMoves(r) ==
  \/ \E o \in Ops : \/ EnrollRejected(r, o) \/ EnrollVerified(r, o)
                    \/ SessionNotFound(r, o) \/ SessionAuthorized(r, o)
  \/ Step(r) \/ StorageFails(r) \/ AuditFails(r) \/ Disconnect(r)

\* Handlers stay at positions, with the statuses and locks of requests.
LEMMA HandlerTypesKept ==
  ASSUME HandlerTypes, NEW r \in Requests, HandlerMoves(r)
  PROVE  HandlerTypes'
<1> USE DEF HandlerTypes, Goto, Answer, EndTx, lockVars, Positions, Statuses
<1>1. ASSUME NEW o \in Ops, EnrollRejected(r, o) \/ SessionNotFound(r, o) PROVE HandlerTypes'
  BY <1>1 DEF EnrollRejected, SessionNotFound, Begin
<1>2. ASSUME NEW o \in Ops, EnrollVerified(r, o) \/ SessionAuthorized(r, o) PROVE HandlerTypes'
  BY <1>2 DEF EnrollVerified, SessionAuthorized, Begin
<1>3. ASSUME EnrollRead(r) PROVE HandlerTypes'
  <2>1. CASE op[r].token \in Tokens /\ uses_count[op[r].token] < MaxUses[op[r].token]
    BY <1>3, <2>1, Zenon DEF EnrollRead
  <2>2. CASE ~(op[r].token \in Tokens /\ uses_count[op[r].token] < MaxUses[op[r].token])
    BY <1>3, <2>2, Zenon DEF EnrollRead
  <2> QED BY <2>1, <2>2, Zenon
<1>4. ASSUME EnrollUpdate(r) PROVE HandlerTypes'
  <2>1. CASE uses_count[op[r].token] < MaxUses[op[r].token]
    BY <1>4, <2>1, Zenon DEF EnrollUpdate
  <2>2. CASE ~(uses_count[op[r].token] < MaxUses[op[r].token])
    BY <1>4, <2>2, Zenon DEF EnrollUpdate
  <2> QED BY <2>1, <2>2, Zenon
<1>5. ASSUME EnrollUpdateBusy(r) \/ EnrollConflict(r) PROVE HandlerTypes'
  BY <1>5, Zenon DEF EnrollUpdateBusy, EnrollConflict
<1>6. ASSUME EnrollCommit(r) \/ SessionCommit(r) \/ AuditCommit(r) PROVE HandlerTypes'
  BY <1>6, Zenon DEF EnrollCommit, SessionCommit, AuditCommit
<1>7. ASSUME SessionInsert(r) \/ AuditInsert(r) PROVE HandlerTypes'
  BY <1>7, Zenon DEF SessionInsert, AuditInsert, Reserve
<1>8. ASSUME AuditAppend(r) \/ SinkRecord(r) PROVE HandlerTypes'
  BY <1>8, Zenon DEF AuditAppend, SinkRecord
<1>9. ASSUME StorageFails(r) \/ AuditFails(r) \/ Disconnect(r) PROVE HandlerTypes'
  BY <1>9, Zenon DEF StorageFails, AuditFails, Disconnect
<1> QED BY <1>1, <1>2, <1>3, <1>4, <1>5, <1>6, <1>7, <1>8, <1>9, Zenon DEF HandlerMoves, Step

\* Rows are those of tokens and of requests.
LEMMA RowTypesKept ==
  ASSUME RowTypes, EnrollInv, NEW r \in Requests, HandlerMoves(r)
  PROVE  RowTypes'
<1> USE DEF dbVars
<1>1. ASSUME EnrollCommit(r) PROVE RowTypes'
  <2>1. op[r].token \in Tokens
    BY <1>1, Zenon DEF EnrollCommit, EnrollInv
  <2>2. /\ uses_count' = [uses_count EXCEPT ![op[r].token] = @ + 1]
        /\ devices' = devices \union {DeviceRow(r)} /\ UNCHANGED sessions
    BY <1>1, Zenon DEF EnrollCommit
  <2>3. uses_count' \in [Tokens -> Nat]
    BY <2>1, <2>2 DEF RowTypes
  <2> QED BY <2>1, <2>2, <2>3, Zenon DEF RowTypes, DeviceRow
<1>2. ASSUME SessionCommit(r) PROVE RowTypes'
  <2>1. sessions' = sessions \union {SessionRow(r)} /\ UNCHANGED <<uses_count, devices>>
    BY <1>2, Zenon DEF SessionCommit
  <2>2. SessionRow(r).session = r
    BY Zenon DEF SessionRow
  <2> QED BY <2>1, <2>2, Zenon DEF RowTypes
<1>3. CASE ~EnrollCommit(r) /\ ~SessionCommit(r)
  <2>1. UNCHANGED <<uses_count, devices, sessions>>
    BY <1>3, Zenon
       DEF HandlerMoves, Step, EnrollRejected, EnrollVerified, SessionNotFound,
           SessionAuthorized, EnrollRead, EnrollUpdate, EnrollUpdateBusy, EnrollConflict,
           SessionInsert, AuditAppend, AuditInsert, AuditCommit, SinkRecord, StorageFails,
           AuditFails, Disconnect
  <2> QED BY <2>1, Zenon DEF RowTypes
<1> QED BY <1>1, <1>2, <1>3, Zenon

\* Failures, callers that leave and restarts are counted up to their bounds.
LEMMA CounterTypesKept ==
  ASSUME CounterTypes, NEW r \in Requests, HandlerMoves(r)
  PROVE  CounterTypes'
<1> USE DEF boundVars
<1>1. CASE StorageFails(r) \/ AuditFails(r) \/ Disconnect(r)
  <2>1. \/ failures < MaxFailures /\ failures' = failures + 1 /\ UNCHANGED <<disconnects, crashes>>
        \/ disconnects < MaxDisconnects /\ disconnects' = disconnects + 1 /\ UNCHANGED <<failures, crashes>>
    BY <1>1, Zenon DEF StorageFails, AuditFails, Disconnect
  <2> QED BY <2>1, ConfigAssumption DEF CounterTypes
<1>2. CASE ~(StorageFails(r) \/ AuditFails(r) \/ Disconnect(r))
  <2>1. UNCHANGED <<failures, disconnects, crashes>>
    BY <1>2, Zenon
       DEF HandlerMoves, Step, EnrollRejected, EnrollVerified, SessionNotFound,
           SessionAuthorized, EnrollRead, EnrollUpdate, EnrollUpdateBusy, EnrollConflict,
           EnrollCommit, SessionInsert, SessionCommit, AuditAppend, AuditInsert, AuditCommit,
           SinkRecord
  <2> QED BY <2>1, Zenon DEF CounterTypes
<1> QED BY <1>1, <1>2, Zenon
\* The chain, its copies and the events made of it keep their shapes.
LEMMA AuditTypesKept ==
  ASSUME AuditTypes, HandlerTypes, NEW r \in Requests, HandlerMoves(r)
  PROVE  AuditTypes'
<1> USE DEF Goto, Answer, auditVars, dbVars
<1>0. DOMAIN pc = Requests /\ DOMAIN previous = Requests /\ DOMAIN chained = Requests
  BY Zenon DEF HandlerTypes, AuditTypes
<1>1. ASSUME AuditAppend(r) PROVE AuditTypes'
  <2>1. IsChained(Chained(chain, AuditEvent(r))) /\ AppendEvent(chain, AuditEvent(r)).sequence \in Nat
    BY DEF IsChained, Chained, AppendEvent, AuditEvent, AuditTypes
  <2> QED BY <1>0, <1>1, <2>1, Zenon DEF AuditAppend, AuditTypes
<1>2. ASSUME AuditCommit(r) PROVE AuditTypes'
  BY <1>0, <1>2, Zenon DEF AuditCommit, AuditTypes
<1>3. ASSUME SinkRecord(r) PROVE AuditTypes'
  <2>1. /\ sink' = Append(sink, chained[r]) /\ IsChained(chained[r])
        /\ UNCHANGED <<chain, previous, chained, audit_events>>
        /\ pc' = [pc EXCEPT ![r] = "answered"]
    BY <1>3, Zenon DEF SinkRecord, AuditTypes
  <2>2. sink \in Seq(Range(sink) \union {chained[r]})
    BY DEF AuditTypes
  <2>3. Range(Append(sink, chained[r])) = Range(sink) \union {chained[r]}
    <3>1. DOMAIN sink = 1..Len(sink) /\ Len(sink) \in Nat
      BY <2>2
    <3>2. /\ DOMAIN Append(sink, chained[r]) = 1..(Len(sink) + 1)
          /\ \A i \in 1..Len(sink) : Append(sink, chained[r])[i] = sink[i]
          /\ Append(sink, chained[r])[Len(sink) + 1] = chained[r]
      BY <2>2
    <3> QED BY <3>1, <3>2 DEF Range
  <2>4. sink' \in Seq(Range(sink'))
    BY <2>1, <2>2, <2>3
  <2>5. \A e \in Range(sink') : IsChained(e)
    BY <2>1, <2>3, Zenon DEF AuditTypes
  <2> QED BY <1>0, <2>1, <2>4, <2>5, Zenon DEF AuditTypes
<1>4. ASSUME AuditFails(r) PROVE AuditTypes'
  BY <1>0, <1>4, Zenon DEF AuditFails, AuditTypes
<1>5. ASSUME AuditInsert(r) PROVE AuditTypes'
  BY <1>0, <1>5, Zenon DEF AuditInsert, AuditTypes
<1>6. CASE ~(AuditAppend(r) \/ AuditCommit(r) \/ SinkRecord(r) \/ AuditFails(r) \/ AuditInsert(r))
  <2>1. /\ UNCHANGED <<chain, previous, chained, sink, audit_events>>
        /\ \A q \in Requests : pc'[q] \in {"chained", "auditing", "stored"} => pc[q] = pc'[q]
    BY <1>0, <1>6, Zenon
       DEF HandlerMoves, Step, EnrollRejected, EnrollVerified, SessionNotFound,
           SessionAuthorized, EnrollRead, EnrollUpdate, EnrollUpdateBusy, EnrollConflict,
           EnrollCommit, SessionInsert, SessionCommit, StorageFails, Disconnect
  <2> QED BY <2>1, Zenon DEF AuditTypes
<1> QED BY <1>1, <1>2, <1>3, <1>4, <1>5, <1>6, Zenon

\* Every step keeps the types.
LEMMA TypesStep == BudgetInv /\ TypeInv /\ [Next]_vars => TypeInv'
<1> SUFFICES ASSUME BudgetInv, TypeInv, [Next]_vars PROVE TypeInv'
  BY Zenon
<1>1. ASSUME NEW r \in Requests, HandlerMoves(r) PROVE TypeInv'
  BY <1>1, HandlerTypesKept, RowTypesKept, AuditTypesKept, CounterTypesKept, Zenon
     DEF TypeInv, BudgetInv
<1>2. CASE Restart
  <2>1. HandlerTypes'
    BY <1>2, Zenon DEF Restart, TypeInv, HandlerTypes, Final, Positions
  <2>2. RowTypes' /\ CounterTypes'
    BY <1>2, ConfigAssumption DEF Restart, TypeInv, RowTypes, CounterTypes, dbVars
  <2>3. Range(sink') = {} /\ sink' \in Seq(Range(sink'))
    BY <1>2 DEF Restart, Range
  <2>4. \A r \in Requests : pc'[r] \notin {"chained", "auditing", "stored"}
    BY <1>2, Zenon DEF Restart, Final
  <2>5. AuditTypes'
    BY <1>2, <2>3, <2>4, Zenon DEF Restart, TypeInv, AuditTypes, NewChain, dbVars
  <2> QED BY <2>1, <2>2, <2>5, Zenon DEF TypeInv
<1>3. CASE UNCHANGED vars
  <2>1. HandlerTypes' /\ RowTypes' /\ CounterTypes'
    BY <1>3, Zenon
       DEF vars, lockVars, dbVars, boundVars, TypeInv, HandlerTypes, RowTypes, CounterTypes
  <2>2. AuditTypes'
    BY <1>3, Zenon DEF vars, auditVars, dbVars, TypeInv, AuditTypes
  <2> QED BY <2>1, <2>2, Zenon DEF TypeInv
<1> QED BY <1>1, <1>2, <1>3, Zenon DEF Next, HandlerMoves
----------------------------------------------------------------------------
(* The audit chain: what is stored and what is under way form one chain.    *)

InFlight == {r \in Requests : pc[r] \in {"chained", "auditing"}}
Live == audit_events \union {chained[r] : r \in InFlight}

\* The live events have the numbers 1 to chain.sequence, each once, and no event under way is
\* stored or shared.
Numbered ==
  /\ \A e \in Live : e.sequence \in 1..chain.sequence
  /\ \A k \in 1..chain.sequence : \E e \in Live : e.sequence = k
  /\ \A e, f \in Live : e.sequence = f.sequence => e = f
  /\ \A r, q \in InFlight : chained[r].sequence = chained[q].sequence => r = q
  /\ \A r \in InFlight : \A e \in audit_events : e.sequence # chained[r].sequence

\* Each live event carries its own hash and that of its predecessor, the chain that of the last.
Linked ==
  /\ \A e \in Live : e.hash = ComputeHash(e.sequence, e.event, e.previous_hash)
  /\ \A e \in Live : e.sequence = 1 => e.previous_hash = GENESIS_HASH
  /\ \A e, f \in Live : f.sequence = e.sequence + 1 => f.previous_hash = e.hash
  /\ chain.sequence = 0 => chain.last_hash = GENESIS_HASH
  /\ \A e \in Live : e.sequence = chain.sequence => chain.last_hash = e.hash

\* An event under way was appended to the chain that its handler would restore.
Restorable == \A r \in InFlight : chained[r] = Chained(previous[r], AuditEvent(r))

\* Until a caller leaves, nexusd restarts, or a restored chain had been appended to.
Undisturbed == disconnects = 0 /\ crashes = 0 /\ ~overtaken

ChainInv == overtaken \in BOOLEAN /\ (Undisturbed => Numbered /\ Linked /\ Restorable)

\* The fields of a chained event and of the chain after it.
LEMMA ChainedFields ==
  ASSUME NEW c, NEW event
  PROVE  /\ Chained(c, event).sequence = c.sequence + 1 /\ Chained(c, event).event = event
         /\ Chained(c, event).previous_hash = c.last_hash
         /\ Chained(c, event).hash = ComputeHash(c.sequence + 1, event, c.last_hash)
         /\ AppendEvent(c, event).sequence = c.sequence + 1
         /\ AppendEvent(c, event).last_hash = ComputeHash(c.sequence + 1, event, c.last_hash)
BY Zenon DEF Chained, AppendEvent

\* A step that leaves the chain and the live events alone.
LEMMA ChainSame ==
  ASSUME ChainInv, UNCHANGED <<chain, previous, chained, overtaken>>, Live' = Live, InFlight' = InFlight,
         audit_events' = audit_events, \A r \in InFlight : AuditEvent(r)' = AuditEvent(r),
         Undisturbed' => Undisturbed
  PROVE  ChainInv'
BY DEF ChainInv, Numbered, Linked, Restorable

\* AuditChain::append, under the mutex: the new event is the last one.
LEMMA AppendKeeps ==
  ASSUME TypeInv, ChainInv, NEW r \in Requests, AuditAppend(r)
  PROVE  ChainInv'
<1> DEFINE new == Chained(chain, AuditEvent(r))
           n == chain.sequence
<1>1. /\ pc[r] = "done" /\ previous' = [previous EXCEPT ![r] = chain]
      /\ chained' = [chained EXCEPT ![r] = new] /\ chain' = AppendEvent(chain, AuditEvent(r))
      /\ pc' = [pc EXCEPT ![r] = "chained"]
      /\ UNCHANGED <<op, audit_events, overtaken, disconnects, crashes>>
  BY Zenon DEF AuditAppend, Goto, dbVars, boundVars
<1>2. /\ DOMAIN pc = Requests /\ DOMAIN previous = Requests /\ DOMAIN chained = Requests /\ n \in Nat
  BY Zenon DEF TypeInv, HandlerTypes, AuditTypes
<1>3. InFlight' = InFlight \union {r} /\ r \notin InFlight
  BY <1>1, <1>2, Zenon DEF InFlight
<1>4. /\ chained'[r] = new /\ previous'[r] = chain
      /\ \A q \in InFlight : q \in Requests /\ chained'[q] = chained[q] /\ previous'[q] = previous[q]
  BY <1>1, <1>2, <1>3, Zenon DEF InFlight
<1>5. Live' = Live \union {new}
  BY <1>1, <1>3, <1>4, Zenon DEF Live
<1>6. /\ new.sequence = n + 1 /\ new.event = AuditEvent(r) /\ new.previous_hash = chain.last_hash
      /\ new.hash = ComputeHash(n + 1, AuditEvent(r), chain.last_hash)
      /\ chain'.sequence = n + 1 /\ chain'.last_hash = new.hash
  BY <1>1, ChainedFields
<1>7. \A q \in Requests : AuditEvent(q)' = AuditEvent(q)
  BY <1>1, Zenon DEF AuditEvent
<1>8. Undisturbed' = Undisturbed /\ overtaken' = overtaken
  BY <1>1, Zenon DEF Undisturbed
<1> SUFFICES ASSUME Numbered, Linked, Restorable PROVE Numbered' /\ Linked' /\ Restorable'
  BY <1>8, Zenon DEF ChainInv
<1>9. Restorable'
  BY <1>3, <1>4, <1>7, Zenon DEF Restorable, InFlight
<1> HIDE DEF new, n
<1>10. \A e \in Live : e.sequence \in 1..n /\ e.sequence # n + 1
  BY <1>2 DEF Numbered, n
<1>11. Numbered'
  <2>1. \A e \in Live' : e.sequence \in 1..chain'.sequence
    BY <1>2, <1>5, <1>6, <1>10
  <2>2. \A k \in 1..chain'.sequence : \E e \in Live' : e.sequence = k
    <3>1. \A k \in 1..(n + 1) : k \in 1..n \/ k = n + 1
      BY <1>2
    <3> QED BY <1>5, <1>6, <3>1, Zenon DEF Numbered, n
  <2>3. \A e, f \in Live' : e.sequence = f.sequence => e = f
    BY <1>5, <1>6, <1>10 DEF Numbered
  <2>4. \A q, p \in InFlight' : chained'[q].sequence = chained'[p].sequence => q = p
    <3>1. \A q \in InFlight : chained'[q].sequence # n + 1
      BY <1>4, <1>10, Zenon DEF Live
    <3> QED BY <1>3, <1>4, <1>6, <3>1 DEF Numbered
  <2>5. \A q \in InFlight' : \A e \in audit_events' : e.sequence # chained'[q].sequence
    BY <1>1, <1>3, <1>4, <1>6, <1>10 DEF Numbered, Live
  <2> QED BY <2>1, <2>2, <2>3, <2>4, <2>5, Zenon DEF Numbered
<1>12. Linked'
  <2>1. \A e \in Live' : e.hash = ComputeHash(e.sequence, e.event, e.previous_hash)
    BY <1>5, <1>6, Zenon DEF Linked
  <2>2. \A e \in Live' : e.sequence = 1 => e.previous_hash = GENESIS_HASH
    <3>1. n + 1 = 1 => n = 0
      BY <1>2
    <3> QED BY <1>5, <1>6, <3>1 DEF Linked, n
  <2>3. \A e, f \in Live' : f.sequence = e.sequence + 1 => f.previous_hash = e.hash
    <3>1. \A e \in Live : /\ n + 1 = e.sequence + 1 => e.sequence = n
                          /\ e.sequence # (n + 1) + 1
      BY <1>2, <1>10
    <3>2. n + 1 # (n + 1) + 1
      BY <1>2
    <3> QED BY <1>5, <1>6, <3>1, <3>2 DEF Linked, n
  <2>4. chain'.sequence # 0
    BY <1>2, <1>6
  <2>5. \A e \in Live' : e.sequence = chain'.sequence => chain'.last_hash = e.hash
    BY <1>5, <1>6, <1>10, Zenon
  <2> QED BY <2>1, <2>2, <2>3, <2>4, <2>5, Zenon DEF Linked
<1> QED BY <1>9, <1>11, <1>12, Zenon

\* The failed event is the last of the chain, unless another was appended after it: setting the
\* chain back takes it out and nothing else.
LEMMA RestoreKeeps ==
  ASSUME TypeInv, ChainInv, NEW r \in Requests, AuditFails(r)
  PROVE  ChainInv'
<1> DEFINE old == chained[r]
           n == chain.sequence
<1>1. /\ r \in InFlight /\ chain' = previous[r]
      /\ overtaken' = (overtaken \/ chain # AppendEvent(previous[r], AuditEvent(r)))
      /\ pc' = [pc EXCEPT ![r] = "answered"]
      /\ UNCHANGED <<op, audit_events, previous, chained, disconnects, crashes>>
  BY Zenon DEF AuditFails, Answer, Goto, InFlight, dbVars
<1>2. DOMAIN pc = Requests /\ n \in Nat /\ previous[r].sequence \in Nat
  BY Zenon DEF TypeInv, HandlerTypes, AuditTypes
<1>3. InFlight' = InFlight \ {r}
  BY <1>1, <1>2, Zenon DEF InFlight
<1>4. overtaken' \in BOOLEAN
  BY <1>1, Zenon
<1> SUFFICES ASSUME Undisturbed' PROVE Numbered' /\ Linked' /\ Restorable'
  BY <1>4, Zenon DEF ChainInv
<1>5. ~overtaken /\ chain = AppendEvent(previous[r], AuditEvent(r)) /\ Numbered /\ Linked /\ Restorable
  BY <1>1, Zenon DEF Undisturbed, ChainInv
<1>6. old = Chained(previous[r], AuditEvent(r))
  BY <1>1, <1>5, Zenon DEF Restorable
<1>7. /\ old.sequence = n /\ n = previous[r].sequence + 1 /\ old.previous_hash = previous[r].last_hash
      /\ chain'.sequence = n - 1 /\ chain'.last_hash = old.previous_hash
  <2>1. /\ old.sequence = previous[r].sequence + 1 /\ old.previous_hash = previous[r].last_hash
        /\ n = previous[r].sequence + 1
    BY <1>5, <1>6, ChainedFields
  <2>2. chain'.sequence = previous[r].sequence /\ chain'.last_hash = previous[r].last_hash
    BY <1>1, Zenon
  <2>3. \A a, b \in Nat : b = a + 1 => a = b - 1
    OBVIOUS
  <2> HIDE DEF old, n
  <2> QED BY <1>2, <2>1, <2>2, <2>3, Zenon
<1>8. old \in Live
  BY <1>1, Zenon DEF Live
<1>9. Live' = Live \ {old}
  <2>1. \A q \in InFlight \ {r} : chained[q] # old
    BY <1>1, <1>5, Zenon DEF Numbered
  <2>2. \A e \in audit_events : e # old
    BY <1>1, <1>5, Zenon DEF Numbered
  <2> QED BY <1>1, <1>3, <2>1, <2>2, Zenon DEF Live
<1>10. \A q \in Requests : AuditEvent(q)' = AuditEvent(q)
  BY <1>1, Zenon DEF AuditEvent
<1>11. Restorable'
  BY <1>1, <1>3, <1>5, <1>10, Zenon DEF Restorable, InFlight
<1> HIDE DEF old, n
<1>12. \A e \in Live : e.sequence \in 1..n /\ (e # old => e.sequence # n)
  <2>1. \A e \in Live : e.sequence \in 1..n
    BY <1>5, Zenon DEF Numbered, n
  <2>2. \A e \in Live : e.sequence = old.sequence => e = old
    BY <1>5, <1>8, Zenon DEF Numbered
  <2> QED BY <1>7, <2>1, <2>2, Zenon
<1>13. Numbered'
  <2>1. \A e \in Live' : e.sequence \in 1..chain'.sequence
    BY <1>2, <1>7, <1>9, <1>12
  <2>2. \A k \in 1..chain'.sequence : \E e \in Live' : e.sequence = k
    <3>1. \A k \in 1..(n - 1) : k \in 1..n /\ k # n
      BY <1>2
    <3> QED BY <1>5, <1>7, <1>9, <3>1 DEF Numbered, n
  <2>3. \A e, f \in Live' : e.sequence = f.sequence => e = f
    BY <1>5, <1>9 DEF Numbered
  <2>4. /\ \A q, p \in InFlight' : chained'[q].sequence = chained'[p].sequence => q = p
        /\ \A q \in InFlight' : \A e \in audit_events' : e.sequence # chained'[q].sequence
    BY <1>1, <1>3, <1>5 DEF Numbered
  <2> QED BY <2>1, <2>2, <2>3, <2>4 DEF Numbered
<1>14. Linked'
  <2>1. /\ \A e \in Live' : e.hash = ComputeHash(e.sequence, e.event, e.previous_hash)
        /\ \A e \in Live' : e.sequence = 1 => e.previous_hash = GENESIS_HASH
        /\ \A e, f \in Live' : f.sequence = e.sequence + 1 => f.previous_hash = e.hash
    BY <1>5, <1>9 DEF Linked
  <2>2. chain'.sequence = 0 => chain'.last_hash = GENESIS_HASH
    <3>1. n - 1 = 0 => old.sequence = 1
      BY <1>2, <1>7
    <3> QED BY <1>5, <1>7, <1>8, <3>1 DEF Linked
  <2>3. \A e \in Live' : e.sequence = chain'.sequence => chain'.last_hash = e.hash
    <3>1. \A e \in Live : e.sequence = n - 1 => old.sequence = e.sequence + 1
      BY <1>2, <1>7
    <3> QED BY <1>5, <1>7, <1>8, <1>9, <3>1 DEF Linked
  <2> QED BY <2>1, <2>2, <2>3, Zenon DEF Linked
<1> QED BY <1>11, <1>13, <1>14, Zenon
\* The stored event was live before, and is.
LEMMA CommitKeeps ==
  ASSUME TypeInv, ChainInv, NEW r \in Requests, AuditCommit(r)
  PROVE  ChainInv'
<1>1. /\ r \in InFlight /\ pc' = [pc EXCEPT ![r] = "stored"]
      /\ audit_events' = audit_events \union {chained[r]}
      /\ UNCHANGED <<op, chain, previous, chained, overtaken, disconnects, crashes>>
  BY Zenon DEF AuditCommit, Goto, InFlight, auditVars, boundVars
<1>2. DOMAIN pc = Requests
  BY Zenon DEF TypeInv, HandlerTypes
<1>3. InFlight' = InFlight \ {r}
  BY <1>1, <1>2, Zenon DEF InFlight
<1>4. Live' = Live
  BY <1>1, <1>3 DEF Live
<1>5. \A q \in Requests : AuditEvent(q)' = AuditEvent(q)
  BY <1>1, Zenon DEF AuditEvent
<1>6. Undisturbed' = Undisturbed
  BY <1>1, Zenon DEF Undisturbed
<1> SUFFICES ASSUME Numbered, Linked, Restorable PROVE Numbered' /\ Linked' /\ Restorable'
  BY <1>1, <1>6, Zenon DEF ChainInv
<1>7. Restorable'
  BY <1>1, <1>3, <1>5, Zenon DEF Restorable, InFlight
<1>8. Linked'
  BY <1>1, <1>4 DEF Linked
<1>9. Numbered'
  <2>1. /\ \A e \in Live' : e.sequence \in 1..chain'.sequence
        /\ \A k \in 1..chain'.sequence : \E e \in Live' : e.sequence = k
        /\ \A e, f \in Live' : e.sequence = f.sequence => e = f
    BY <1>1, <1>4, Zenon DEF Numbered
  <2>2. \A q, p \in InFlight' : chained'[q].sequence = chained'[p].sequence => q = p
    BY <1>1, <1>3, Zenon DEF Numbered
  <2>3. \A q \in InFlight' : \A e \in audit_events' : e.sequence # chained'[q].sequence
    BY <1>1, <1>3 DEF Numbered
  <2> QED BY <2>1, <2>2, <2>3 DEF Numbered
<1> QED BY <1>7, <1>8, <1>9, Zenon

\* Every step keeps the chain, until the first disturbance.
LEMMA ChainStep == TypeInv /\ ChainInv /\ [Next]_vars => ChainInv'
<1> SUFFICES ASSUME TypeInv, ChainInv, [Next]_vars PROVE ChainInv'
  BY Zenon
<1>0. DOMAIN pc = Requests /\ DOMAIN op = Requests
  BY Zenon DEF TypeInv, HandlerTypes
<1>1. ASSUME NEW r \in Requests, HandlerMoves(r),
             ~(AuditAppend(r) \/ AuditFails(r) \/ AuditCommit(r) \/ Disconnect(r))
      PROVE  ChainInv'
  <2>1. UNCHANGED <<chain, previous, chained, overtaken, audit_events, disconnects, crashes>>
    BY <1>1, Zenon
       DEF HandlerMoves, Step, EnrollRejected, EnrollVerified, SessionNotFound,
           SessionAuthorized, EnrollRead, EnrollUpdate, EnrollUpdateBusy, EnrollConflict,
           EnrollCommit, SessionInsert, SessionCommit, AuditInsert, SinkRecord, StorageFails,
           auditVars, dbVars, boundVars
  <2>2. /\ \A q \in Requests : q \in InFlight' <=> q \in InFlight
        /\ \A q \in InFlight : op'[q] = op[q]
    BY <1>0, <1>1, Zenon
       DEF HandlerMoves, Step, EnrollRejected, EnrollVerified, SessionNotFound,
           SessionAuthorized, EnrollRead, EnrollUpdate, EnrollUpdateBusy, EnrollConflict,
           EnrollCommit, SessionInsert, SessionCommit, AuditInsert, SinkRecord, StorageFails, Begin,
           Goto, Answer, InFlight
  <2>3. InFlight' = InFlight /\ InFlight \subseteq Requests
    BY <2>2, Zenon DEF InFlight
  <2>4. Live' = Live /\ Undisturbed' = Undisturbed
    BY <2>1, <2>3, Zenon DEF Live, Undisturbed
  <2>5. \A q \in InFlight : AuditEvent(q)' = AuditEvent(q)
    BY <2>2, Zenon DEF AuditEvent
  <2> QED BY <2>1, <2>3, <2>4, <2>5, ChainSame, Zenon
<1>2. ASSUME NEW r \in Requests, Disconnect(r) PROVE ChainInv'
  <2>1. disconnects' # 0 /\ overtaken' = overtaken
    BY <1>2 DEF Disconnect, auditVars, TypeInv, CounterTypes
  <2> QED BY <2>1, Zenon DEF ChainInv, Undisturbed
<1>3. CASE Restart
  <2>1. crashes' # 0 /\ overtaken' = overtaken
    BY <1>3 DEF Restart, TypeInv, CounterTypes
  <2> QED BY <2>1, Zenon DEF ChainInv, Undisturbed
<1>4. CASE UNCHANGED vars
  <2>1. UNCHANGED <<pc, op, chain, previous, chained, overtaken, audit_events, disconnects, crashes>>
    BY <1>4, Zenon DEF vars, auditVars, dbVars, boundVars
  <2>2. Live' = Live /\ InFlight' = InFlight /\ Undisturbed' = Undisturbed
    BY <2>1, Zenon DEF Live, InFlight, Undisturbed
  <2>3. \A q \in InFlight : AuditEvent(q)' = AuditEvent(q)
    BY <2>1, Zenon DEF AuditEvent
  <2> QED BY <2>1, <2>2, <2>3, ChainSame, Zenon
<1> QED BY <1>1, <1>2, <1>3, <1>4, AppendKeeps, RestoreKeeps, CommitKeeps, Zenon
           DEF Next, HandlerMoves

----------------------------------------------------------------------------
(* The audit chain: reading it back in order.                               *)

NatLess == {ss \in Nat \X Nat : ss[1] < ss[2]}

\* The order of the naturals is well founded, as a relation.
LEMMA NatLessWellFounded == IsWellFoundedOn(NatLess, Nat)
BY NatLessThanWellFounded, Zenon DEF NatLess, OpToRel

\* A set of naturals that is not empty has a least member.
LEMMA LeastOf ==
  ASSUME NEW S \in SUBSET Nat, S # {}
  PROVE  \E x \in S : \A y \in S : x <= y
<1>1. PICK x \in S : \A y \in S : ~(<<y, x>> \in NatLess)
  BY NatLessWellFounded, WFMin, Zenon
<1>2. \A y \in S : x <= y
  <2> TAKE y \in S
  <2>1. x \in Nat /\ y \in Nat
    BY Zenon
  <2>2. y < x => <<y, x>> \in NatLess
    BY <2>1 DEF NatLess
  <2> QED BY <1>1, <2>1, <2>2
<1> QED BY <1>2, Zenon

\* A list of n numbers from 1 to n that grows at each place counts the places.
LEMMA GrowingCounts ==
  ASSUME NEW n \in Nat, NEW s \in [1..n -> 1..n], \A i, j \in 1..n : i < j => s[i] < s[j]
  PROVE  \A i \in 1..n : s[i] = i
<1> DEFINE Low == {i \in 1..n : s[i] < i}
           High == {k \in 0..n : \E i \in 1..n : i = n - k /\ s[i] > i}
<1>0. \A i \in 1..n : s[i] \in Nat /\ s[i] >= 1 /\ s[i] <= n /\ i \in Nat
  OBVIOUS
<1>1. Low = {}
  <2> SUFFICES ASSUME Low # {} PROVE FALSE
    BY Zenon
  <2>1. Low \in SUBSET Nat
    OBVIOUS
  <2>2. PICK i \in Low : \A j \in Low : i <= j
    BY <2>1, LeastOf, Zenon
  <2>3. i \in 1..n /\ s[i] < i
    BY Zenon
  <2>4. i - 1 \in 1..n /\ i - 1 \notin Low
    <3>1. i # 1
      BY <1>0, <2>3
    <3> HIDE DEF Low
    <3> QED BY <2>2, <2>3, <3>1
  <2>5. s[i - 1] >= i - 1
    BY <1>0, <2>4
  <2>6. s[i - 1] < s[i]
    BY <2>3, <2>4
  <2> QED BY <1>0, <2>3, <2>4, <2>5, <2>6
<1>2. High = {}
  <2> SUFFICES ASSUME High # {} PROVE FALSE
    BY Zenon
  <2>1. High \in SUBSET Nat
    OBVIOUS
  <2>2. PICK k \in High : \A m \in High : k <= m
    BY <2>1, LeastOf, Zenon
  <2>3. PICK i \in 1..n : i = n - k /\ s[i] > i
    BY Zenon
  <2>4. k \in 0..n
    BY Zenon
  <2> HIDE DEF High
  <2>5. i < n
    BY <1>0, <2>3
  <2>6. i + 1 \in 1..n /\ k - 1 \in 0..n /\ i + 1 = n - (k - 1) /\ k - 1 \notin High
    BY <2>2, <2>3, <2>4, <2>5
  <2>7. s[i + 1] <= i + 1
    <3>1. ~(s[i + 1] > i + 1)
      BY <2>6, Zenon DEF High
    <3> QED BY <1>0, <2>6, <3>1
  <2>8. s[i] < s[i + 1]
    BY <2>3, <2>6
  <2> QED BY <1>0, <2>3, <2>6, <2>7, <2>8
<1>3. ASSUME NEW i \in 1..n PROVE s[i] = i
  <2>1. ~(s[i] < i)
    BY <1>1, Zenon
  <2>2. ~(s[i] > i)
    <3>1. n - i \in 0..n /\ i = n - (n - i)
      OBVIOUS
    <3> QED BY <1>2, <3>1, Zenon
  <2> QED BY <1>0, <2>1, <2>2
<1> QED BY <1>3, Zenon
\* Every token and every session request is of one organization.
OneOrganization(org) ==
  /\ \A t \in Tokens : OrgOf[t] = org
  /\ \A o \in Ops : o.kind = "session" => o.org = org

OrgInv(org) ==
  /\ \A r \in Requests :
       /\ pc[r] \in {"authorized", "persisting"} => op[r].org = org
       /\ pc[r] \in {"done", "chained", "auditing", "stored"} => AuditEvent(r).org = org
       /\ pc[r] \in {"chained", "auditing", "stored"} => chained[r].event.org = org
  /\ \A e \in audit_events : e.event.org = org

\* With one organization, all audit events are of that organization.
LEMMA OrgStep ==
  ASSUME NEW org, OneOrganization(org), BudgetInv, OrgInv(org), [Next]_vars
  PROVE  OrgInv(org)'
<1> USE DEF Goto, Answer, dbVars, auditVars
<1>0. /\ DOMAIN pc = Requests /\ DOMAIN op = Requests /\ DOMAIN chained = Requests /\ EnrollInv
  BY Zenon DEF BudgetInv, DbType
<1>1. ASSUME NEW r \in Requests, HandlerMoves(r) PROVE OrgInv(org)'
  <2>1. \A q \in Requests \ {r} : pc'[q] = pc[q] /\ op'[q] = op[q] /\ chained'[q] = chained[q]
    BY <1>1, HandlerFrame, Zenon DEF HandlerMoves
  <2>2. \A q \in Requests : op'[q] = op[q] => AuditEvent(q)' = AuditEvent(q)
    BY Zenon DEF AuditEvent
  <2> SUFFICES /\ pc'[r] \in {"authorized", "persisting"} => op'[r].org = org
               /\ pc'[r] \in {"done", "chained", "auditing", "stored"} => AuditEvent(r)'.org = org
               /\ pc'[r] \in {"chained", "auditing", "stored"} => chained'[r].event.org = org
               /\ \A e \in audit_events' : e.event.org = org
    BY <2>1, <2>2 DEF OrgInv
  <2>3. CASE \E o \in Ops : \/ EnrollRejected(r, o) \/ EnrollVerified(r, o)
                            \/ SessionNotFound(r, o) \/ SessionAuthorized(r, o)
    BY <1>0, <2>3 DEF OrgInv, EnrollRejected, EnrollVerified, SessionNotFound, SessionAuthorized,
                      Begin, OneOrganization
  <2>4. CASE EnrollRead(r) \/ EnrollUpdate(r) \/ EnrollUpdateBusy(r) \/ EnrollConflict(r)
    BY <1>0, <2>4, Zenon DEF OrgInv, EnrollRead, EnrollUpdate, EnrollUpdateBusy, EnrollConflict
  <2>5. CASE EnrollCommit(r)
    <3>1. op[r].kind = "enroll" /\ op[r].token \in Tokens /\ op' = op
      BY <1>0, <2>5, Zenon DEF EnrollCommit, EnrollInv
    <3>2. AuditEvent(r)'.org = org
      BY <3>1, Zenon DEF AuditEvent, OneOrganization
    <3> QED BY <1>0, <2>5, <3>2, Zenon DEF EnrollCommit, OrgInv
  <2>6. CASE SessionInsert(r)
    BY <1>0, <2>6, Zenon DEF SessionInsert, OrgInv
  <2>7. CASE SessionCommit(r)
    <3>1. op[r].kind = "session" /\ op[r].org = org /\ op' = op
      BY <1>0, <2>7, Zenon DEF SessionCommit, EnrollInv, OrgInv
    <3>2. AuditEvent(r)'.org = org
      BY <3>1, Zenon DEF AuditEvent
    <3> QED BY <1>0, <2>7, <3>2 DEF SessionCommit, OrgInv
  <2>8. CASE AuditAppend(r)
    <3>1. chained'[r].event = AuditEvent(r)
      BY <1>0, <2>8, ChainedFields DEF AuditAppend
    <3>2. AuditEvent(r)' = AuditEvent(r)
      BY <2>2, <2>8, Zenon DEF AuditAppend
    <3> QED BY <1>0, <2>8, <3>1, <3>2, Zenon DEF AuditAppend, OrgInv
  <2>9. CASE AuditInsert(r) \/ AuditCommit(r) \/ SinkRecord(r)
    <3>1. AuditEvent(r)' = AuditEvent(r)
      BY <2>2, <2>9, Zenon DEF AuditInsert, AuditCommit, SinkRecord
    <3> QED BY <1>0, <2>9, <3>1, Zenon DEF AuditInsert, AuditCommit, SinkRecord, OrgInv
  <2>10. CASE StorageFails(r) \/ AuditFails(r) \/ Disconnect(r)
    BY <1>0, <2>10, Zenon DEF StorageFails, AuditFails, Disconnect, OrgInv
  <2> QED BY <1>1, <2>3, <2>4, <2>5, <2>6, <2>7, <2>8, <2>9, <2>10 DEF HandlerMoves, Step
<1>2. CASE Restart
  <2>1. \A r \in Requests : pc'[r] \in {"idle", "answered", "dropped"}
    BY <1>2, Zenon DEF Restart, Final
  <2> QED BY <1>2, <2>1, Zenon DEF Restart, OrgInv
<1>3. CASE UNCHANGED vars
  BY <1>3, Zenon DEF vars, OrgInv, AuditEvent
<1> QED BY <1>1, <1>2, <1>3 DEF Next, HandlerMoves

\* Read in the order of their numbers, the stored events verify.
LEMMA OrderedVerifies ==
  ASSUME NEW org, OrgInv(org), Numbered, Linked, InFlight = {}, chain.sequence \in Nat
  PROVE  VerifyChain(ListAuditEvents(org))
<1> DEFINE rows == {e \in audit_events : e.event.org = org}
           n == Cardinality(rows)
           list == ListAuditEvents(org)
           m == chain.sequence
           f == [k \in 1..m |-> CHOOSE e \in rows : e.sequence = k]
<1>1. rows = Live
  BY Zenon DEF Live, OrgInv
<1>2. /\ \A e \in rows : e.sequence \in 1..m
      /\ \A k \in 1..m : \E e \in rows : e.sequence = k
      /\ \A e, g \in rows : e.sequence = g.sequence => e = g
  BY <1>1, Zenon DEF Numbered
<1>3. list = CHOOSE l \in OrderedBySequence(rows) : TRUE
  BY Zenon DEF ListAuditEvents
<1> HIDE DEF rows, list
<1>4. f \in [1..m -> rows] /\ \A k \in 1..m : f[k].sequence = k
  BY <1>2, Zenon
<1>5. n = m
  <2>1. f \in Bijection(1..m, rows)
    <3>1. \A a, b \in 1..m : f[a] = f[b] => a = b
      BY <1>4, Zenon
    <3>2. \A e \in rows : f[e.sequence] = e
      BY <1>2, <1>4, Zenon
    <3> HIDE DEF f, m
    <3> QED BY <1>2, <1>4, <3>1, <3>2 DEF Bijection, Injection, Surjection, IsInjective
  <2>2. IsFiniteSet(1..m) /\ Cardinality(1..m) = IF 1 > m THEN 0 ELSE m - 1 + 1
    BY FS_Interval
  <2>3. Cardinality(1..m) = m
    BY <2>2
  <2> HIDE DEF m, f
  <2> QED BY <2>1, <2>2, <2>3, FS_Bijection, Zenon DEF ExistsBijection
<1>5a. n \in Nat
  BY <1>5, Zenon
<1>5b. /\ \A e \in rows : e.sequence \in 1..n
       /\ f \in [1..n -> rows] /\ \A k \in 1..n : f[k].sequence = k
  BY <1>2, <1>4, <1>5
<1> HIDE DEF m, f
<1>6. list \in [1..n -> rows] /\ \A i, j \in 1..n : i < j => list[i] # list[j] /\ list[i].sequence <= list[j].sequence
  <2>1. f \in OrderedBySequence(rows)
    BY <1>5a, <1>5b DEF OrderedBySequence
  <2>2. list \in OrderedBySequence(rows)
    BY <1>3, <2>1, Zenon
  <2> QED BY <2>2, Zenon DEF OrderedBySequence
<1> HIDE DEF n
<1>7. \A i \in 1..n : list[i] \in rows /\ list[i].sequence = i
  <2> DEFINE s == [i \in 1..n |-> list[i].sequence]
  <2>1. s \in [1..n -> 1..n]
    BY <1>5b, <1>6, Zenon
  <2>2. n \in Nat
    BY <1>5a, Zenon
  <2>3. ASSUME NEW i \in 1..n, NEW j \in 1..n, i < j PROVE s[i] < s[j]
    <3>1. list[i].sequence <= list[j].sequence /\ list[i] # list[j]
      BY <1>6, <2>3, Zenon
    <3>2. list[i].sequence # list[j].sequence
      BY <1>2, <1>6, <3>1, Zenon
    <3>3. list[i].sequence \in Nat /\ list[j].sequence \in Nat
      BY <1>5b, <1>6, <2>2
    <3> QED BY <3>1, <3>2, <3>3
  <2>4. \A i \in 1..n : s[i] = i
    <3> HIDE DEF s
    <3> QED BY <2>1, <2>2, <2>3, GrowingCounts, Zenon
  <2> QED BY <1>6, <2>4, Zenon
<1>8. n \in Nat /\ Len(list) = n
  BY <1>5a, <1>6
<1>9. ASSUME NEW i \in 1..n
      PROVE  /\ list[i].sequence = i
             /\ list[i].previous_hash = (IF i = 1 THEN GENESIS_HASH ELSE list[i - 1].hash)
             /\ list[i].hash = ComputeHash(list[i].sequence, list[i].event, list[i].previous_hash)
  <2>1. list[i] \in Live /\ list[i].sequence = i
    BY <1>1, <1>7, Zenon
  <2>2. list[i].hash = ComputeHash(list[i].sequence, list[i].event, list[i].previous_hash)
    BY <2>1, Zenon DEF Linked
  <2>3. i = 1 => list[i].previous_hash = GENESIS_HASH
    BY <2>1, Zenon DEF Linked
  <2>4. i # 1 => list[i].previous_hash = list[i - 1].hash
    <3> SUFFICES ASSUME i # 1 PROVE list[i].previous_hash = list[i - 1].hash
      BY Zenon
    <3>1. i - 1 \in 1..n /\ i = (i - 1) + 1
      BY <1>8
    <3>2. list[i - 1] \in Live /\ list[i - 1].sequence = i - 1
      BY <1>1, <1>7, <3>1, Zenon
    <3> QED BY <2>1, <3>1, <3>2 DEF Linked
  <2> QED BY <2>1, <2>2, <2>3, <2>4, Zenon
<1> QED BY <1>8, <1>9, Zenon DEF VerifyChain, list

\* With one organization, the stored audit events verify whenever no record_audit is under way,
\* in whatever order requests appended and inserted them and however many inserts failed, until
\* a caller is dropped, nexusd restarts, or a restored chain had been appended to.
THEOREM ChainVerifiesHolds ==
  ASSUME NEW CONSTANT org, OneOrganization(org)
  PROVE  Spec => []ChainVerifiesUntilOvertaken
<1> DEFINE Inv == BudgetInv /\ TypeInv /\ ChainInv /\ OrgInv(org)
<1>1. Init => Inv
  <2> SUFFICES ASSUME Init PROVE ChainInv /\ OrgInv(org)
    BY BudgetInit, TypesInit, Zenon
  <2>1. InFlight = {} /\ audit_events = {} /\ chain.sequence = 0 /\ chain.last_hash = GENESIS_HASH
        /\ overtaken = FALSE
    BY Zenon DEF Init, InFlight, NewChain
  <2>2. Live = {}
    BY <2>1, Zenon DEF Live
  <2>3. ChainInv
    <3>1. Numbered
      BY <2>1, <2>2 DEF Numbered
    <3>2. Linked
      BY <2>1, <2>2, Zenon DEF Linked
    <3>3. Restorable
      BY <2>1, Zenon DEF Restorable
    <3> QED BY <2>1, <3>1, <3>2, <3>3, Zenon DEF ChainInv
  <2>4. OrgInv(org)
    BY Zenon DEF Init, OrgInv
  <2> QED BY <2>3, <2>4, Zenon
<1>2. Inv /\ [Next]_vars => Inv'
  BY BudgetStep, TypesStep, ChainStep, OrgStep
<1>3. Inv => ChainVerifiesUntilOvertaken
  <2> SUFFICES ASSUME Inv, Undisturbed, InFlight = {}, NEW e \in audit_events
               PROVE  VerifyChain(ListAuditEvents(e.event.org))
    BY TypesImply, Zenon DEF ChainVerifiesUntilOvertaken, ChainVerifies, Undisturbed, InFlight
  <2>1. e.event.org = org
    BY Zenon DEF OrgInv
  <2>2. Numbered /\ Linked /\ chain.sequence \in Nat
    BY Zenon DEF ChainInv, TypeInv, AuditTypes
  <2>3. VerifyChain(ListAuditEvents(org))
    BY <2>2, OrderedVerifies, Zenon
  <2> QED BY <2>1, <2>3, Zenon
<1> QED BY <1>1, <1>2, <1>3, PTL DEF Spec
=============================================================================
