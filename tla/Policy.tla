------------------------------- MODULE Policy -------------------------------
(***************************************************************************)
(* The policy engine of crates/nexus-policy: roles with allowed actions,   *)
(* device label selectors and conditions; evaluate, which decides a        *)
(* request for one action on one device and merges the roles that match;   *)
(* and validate_policy_narrowing, which every later policy push to a live  *)
(* session has to pass.  The machine below is a service that uses them:    *)
(* roles are added or replaced, sessions requested, narrowed and ended.    *)
(***************************************************************************)
EXTENDS Integers, Sequences, FiniteSetsExt

CONSTANTS
  RoleDefs,            \* the roles that may be configured, records
  Subjects,            \* the subject contexts that may ask, records
  DeviceLabels,        \* the labels of each device: device -> (key -> value)
  Proposals,           \* the updates that may be pushed to a session
  AddressBits,         \* the width of an address of each family (32 and 128)
  DefaultDuration,     \* DEFAULT_MAX_DURATION_SECONDS
  MaxSessions,         \* bound: sessions granted
  MaxUpdates,          \* bound: roles added or replaced, and policies pushed
  None

VARIABLES
  roles,               \* PolicyEngine::roles: name -> role
  sessions,            \* the sessions granted so far, ended ones included
  updates

vars == <<roles, sessions, updates>>

Control == "desktop.control"

\* Action
AllActions == {"desktop.view", Control, "clipboard.read", "clipboard.write", "file.upload",
               "file.download", "audio.listen", "audio.send", "session.record",
               "session.request", "session.approve"}
Devices == DOMAIN DeviceLabels

Selectors == SUBSET (STRING \X STRING)
IpRanges == [family : DOMAIN AddressBits, net : Nat, prefix : Nat]

\* Role, with the fields of its PolicyConditions.
RoleRecords ==
  [name : STRING, allowed_actions : SUBSET AllActions, selectors : SUBSET Selectors,
   require_mfa : BOOLEAN, managed_client_device : BOOLEAN, allowed_ip_ranges : SUBSET IpRanges,
   clipboard : BOOLEAN, files : BOOLEAN, audio : BOOLEAN,
   max_duration : Nat \union {None}, width : Nat \union {None}, height : Nat \union {None}]

\* SubjectContext.
SubjectRecords ==
  [roles : Seq(STRING), mfa : BOOLEAN, managed : BOOLEAN,
   ip : [family : DOMAIN AddressBits, addr : Nat] \union {None}]

\* SessionRestrictions.
Restrictions ==
  [clipboard : BOOLEAN, files : BOOLEAN, audio : BOOLEAN, duration : Nat,
   resolution : (Nat \X Nat) \union {None}]

ASSUME PolicyAssumption ==
  /\ {DefaultDuration, MaxSessions, MaxUpdates} \subseteq Nat
  /\ None \notin Nat \union (Nat \X Nat)
  /\ \A family \in DOMAIN AddressBits : AddressBits[family] \in Nat
  /\ RoleDefs \subseteq RoleRecords /\ Subjects \subseteq SubjectRecords
  /\ Proposals \subseteq [actions : SUBSET AllActions, restrictions : Restrictions]
  /\ \A s \in Subjects : s.ip # None => s.ip.addr < 2^AddressBits[s.ip.family]
  /\ \A r \in RoleDefs : \A range \in r.allowed_ip_ranges : range.net < 2^AddressBits[range.family]

----------------------------------------------------------------------------
(* Matching *)

\* An address without the bits its prefix leaves open: addr & mask.
Masked(addr, family, prefix) == addr - (addr % 2^(AddressBits[family] - prefix))

\* Faulty variant: the prefix counts the open bits.
IpMatchesSuffix(ip, range) ==
  /\ ip.family = range.family /\ range.prefix <= AddressBits[range.family]
  /\ range.prefix = 0 \/ ip.addr \div 2^(range.prefix) = range.net \div 2^(range.prefix)

\* ip_matches_range; a single address is a range whose prefix is the whole width.
IpMatchesRange(ip, range) ==
  /\ ip.family = range.family /\ range.prefix <= AddressBits[range.family]
  /\ \/ range.prefix = 0
     \/ Masked(ip.addr, ip.family, range.prefix) = Masked(range.net, range.family, range.prefix)

\* One key-value pair of a selector, either of which may be "*".
PairMatches(pair, labels) ==
  LET key == pair[1]
      value == pair[2] IN
  CASE key = "*" /\ value = "*" -> TRUE
    [] key # "*" /\ value = "*" -> key \in DOMAIN labels
    [] key = "*" /\ value # "*" -> value \in Range(labels)
    [] OTHER -> key \in DOMAIN labels /\ labels[key] = value

\* A selector is the set of its pairs: Exact has one, and Wildcard none.
SelectorMatches(selector, labels) == \A pair \in selector : PairMatches(pair, labels)

\* Role::matches_device: a role without selectors applies everywhere.
MatchesDevice(role, labels) ==
  role.selectors = {} \/ \E selector \in role.selectors : SelectorMatches(selector, labels)

\* evaluate_role_abac: the first condition that fails, or "ok".
EvaluateRoleAbac(role, subject) ==
  IF role.require_mfa /\ ~subject.mfa THEN "MfaRequired"
  ELSE IF role.managed_client_device /\ ~subject.managed THEN "ManagedClientDeviceRequired"
  ELSE IF role.allowed_ip_ranges # {} /\ ~\E range \in role.allowed_ip_ranges :
            subject.ip # None /\ IpMatchesRange(subject.ip, range) THEN "IpAddressNotAllowed"
  ELSE "ok"

----------------------------------------------------------------------------
(* Restrictions *)

\* PolicyConditions::max_resolution: a bound only when both dimensions are set.
MaxResolution(role) ==
  IF role.width # None /\ role.height # None THEN <<role.width, role.height>> ELSE None

Duration(role) == IF role.max_duration = None THEN DefaultDuration ELSE role.max_duration

\* SessionRestrictions::from_conditions.
FromConditions(role) ==
  [clipboard |-> role.clipboard, files |-> role.files, audio |-> role.audio,
   duration |-> Duration(role), resolution |-> MaxResolution(role)]

\* The merged restrictions of several roles, the most permissive of each.
Merged(granted) ==
  [clipboard |-> \E r \in granted : r.clipboard,
   files |-> \E r \in granted : r.files,
   audio |-> \E r \in granted : r.audio,
   duration |-> Max({Duration(r) : r \in granted}),
   resolution |-> IF \E r \in granted : MaxResolution(r) = None THEN None
                  ELSE <<Max({r.width : r \in granted}), Max({r.height : r \in granted})>>]

----------------------------------------------------------------------------
(* evaluate *)

Denied(reason) == [allowed |-> FALSE, reason |-> reason]
Allowed(actions, restrictions, matched) ==
  [allowed |-> TRUE, actions |-> actions, restrictions |-> restrictions, matched |-> matched]

\* Faulty variant: only sessions that asked for control count.
ControlHeldByAsking(device) ==
  \E i \in DOMAIN sessions : sessions[i].device = device /\ sessions[i].active /\ sessions[i].asked = Control

\* Some active session on the device holds desktop.control.
ControlHeld(device) ==
  \E i \in DOMAIN sessions :
    sessions[i].device = device /\ sessions[i].active /\ Control \in sessions[i].actions

\* The roles a subject is assigned, narrowed down step by step.  A role is told by its place
\* in the subject's list: the order is the list's, and a role that is assigned twice counts
\* twice.
RoleAt(subject, i) == roles[subject.roles[i]]

Assigned(subject) == {i \in DOMAIN subject.roles : subject.roles[i] \in DOMAIN roles}

Acting(subject, requested) ==
  {i \in Assigned(subject) : requested \in RoleAt(subject, i).allowed_actions}

Fitting(subject, device, requested) ==
  {i \in Acting(subject, requested) : MatchesDevice(RoleAt(subject, i), DeviceLabels[device])}

Matching(subject, device, requested) ==
  {i \in Fitting(subject, device, requested) : EvaluateRoleAbac(RoleAt(subject, i), subject) = "ok"}

\* A denial for a role's conditions is that of the first role; matched_role is the set of the
\* names it lists.
Evaluate(subject, device, requested) ==
  LET fitting == Fitting(subject, device, requested)
      matching == Matching(subject, device, requested)
      granted == {RoleAt(subject, i) : i \in matching}
      only == RoleAt(subject, Min(matching))
  IN IF requested = Control /\ ControlHeld(device) THEN Denied("ConcurrentControlConflict")
     ELSE IF Assigned(subject) = {} THEN Denied("NoMatchingRole")
     ELSE IF Acting(subject, requested) = {} THEN Denied("ActionNotAllowed")
     ELSE IF fitting = {} THEN Denied("DeviceNotMatched")
     ELSE IF matching = {} THEN Denied(EvaluateRoleAbac(RoleAt(subject, Min(fitting)), subject))
     ELSE IF Cardinality(matching) = 1
       THEN Allowed(only.allowed_actions, FromConditions(only), {only.name})
     ELSE Allowed(UNION {r.allowed_actions : r \in granted}, Merged(granted), {r.name : r \in granted})

----------------------------------------------------------------------------
(* Narrowing *)

\* Faulty variant: a bound on the resolution may be dropped.
NarrowingForgetsBound(original, proposed) ==
  /\ proposed.actions \subseteq original.actions
  /\ proposed.restrictions.duration <= original.restrictions.duration

\* validate_policy_narrowing.
ValidNarrowing(original, proposed) ==
  LET was == original.restrictions
      now == proposed.restrictions IN
  /\ proposed.actions \subseteq original.actions
  /\ now.clipboard => was.clipboard
  /\ now.files => was.files
  /\ now.audio => was.audio
  /\ now.duration <= was.duration
  /\ was.resolution # None =>
       /\ now.resolution # None
       /\ now.resolution[1] <= was.resolution[1] /\ now.resolution[2] <= was.resolution[2]

----------------------------------------------------------------------------
(* The service *)

Init == roles = <<>> /\ sessions = <<>> /\ updates = 0

\* PolicyEngine::add_role replaces a role of the same name.
AddRole(role) ==
  /\ updates < MaxUpdates
  /\ updates' = updates + 1
  /\ roles' = [n \in DOMAIN roles \union {role.name} |-> IF n = role.name THEN role ELSE roles[n]]
  /\ UNCHANGED sessions

\* A session is granted what evaluate allows; a request it denies changes nothing.
Request(subject, device, requested) ==
  LET decision == Evaluate(subject, device, requested) IN
  /\ Len(sessions) < MaxSessions /\ decision.allowed
  /\ sessions' = Append(sessions,
       [device |-> device, asked |-> requested, active |-> TRUE,
        actions |-> decision.actions, restrictions |-> decision.restrictions,
        granted |-> [actions |-> decision.actions, restrictions |-> decision.restrictions]])
  /\ UNCHANGED <<roles, updates>>

\* A policy pushed to a live session is applied when it narrows what the session has now;
\* the service that pushes it is not in the repository.
PushPolicy(i, proposal) ==
  /\ updates < MaxUpdates /\ sessions[i].active
  /\ updates' = updates + 1
  /\ ValidNarrowing(sessions[i], proposal)
  /\ sessions' = [sessions EXCEPT ![i] =
       [@ EXCEPT !.actions = proposal.actions, !.restrictions = proposal.restrictions]]
  /\ UNCHANGED roles

EndSession(i) ==
  /\ sessions[i].active
  /\ sessions' = [sessions EXCEPT ![i] = [@ EXCEPT !.active = FALSE]]
  /\ UNCHANGED <<roles, updates>>

Next ==
  \/ \E role \in RoleDefs : AddRole(role)
  \/ \E subject \in Subjects, device \in Devices, requested \in AllActions : Request(subject, device, requested)
  \/ \E i \in DOMAIN sessions, proposal \in Proposals : PushPolicy(i, proposal)
  \/ \E i \in DOMAIN sessions : EndSession(i)

Spec == Init /\ [][Next]_vars

----------------------------------------------------------------------------
(* Properties *)

\* Roles are kept under their own names, and sessions hold known actions.
TypeOK ==
  /\ \A n \in DOMAIN roles : roles[n] \in RoleDefs /\ roles[n].name = n
  /\ \A i \in DOMAIN sessions :
       /\ sessions[i].device \in Devices /\ sessions[i].asked \in AllActions
       /\ sessions[i].actions \subseteq AllActions /\ sessions[i].active \in BOOLEAN
       /\ sessions[i].restrictions \in Restrictions
  /\ Len(sessions) <= MaxSessions /\ updates \in 0..MaxUpdates

\* What restrictions let a session do: its features, and the sizes up to its resolution.
Features(restrictions) == {f \in {"clipboard", "files", "audio"} : restrictions[f]}
Sizes(resolution) == (0..resolution[1]) \X (0..resolution[2])

\* A grant lets a session do nothing that an outer one does not.
Within(grant, outer) ==
  LET inner == grant.restrictions
      limit == outer.restrictions IN
  /\ grant.actions \subseteq outer.actions /\ Features(inner) \subseteq Features(limit)
  /\ inner.duration <= limit.duration
  /\ limit.resolution # None =>
       inner.resolution # None /\ Sizes(inner.resolution) \subseteq Sizes(limit.resolution)

\* The addresses of a range: the block of 2^open that holds its network address.
InBlock(ip, range) ==
  /\ ip.family = range.family /\ range.prefix <= AddressBits[range.family]
  /\ \E block \in 0..ip.addr :
       LET size == 2^(AddressBits[range.family] - range.prefix) IN
       {ip.addr, range.net} \subseteq (block * size)..((block + 1) * size - 1)

\* The roles of a subject that entitle it to an action on a device, in no order.
Entitling(subject, device, requested) ==
  {r \in {roles[n] : n \in DOMAIN roles \intersect Range(subject.roles)} :
     /\ requested \in r.allowed_actions
     /\ r.selectors = {} \/ \E s \in r.selectors : SelectorMatches(s, DeviceLabels[device])
     /\ (r.require_mfa => subject.mfa) /\ (r.managed_client_device => subject.managed)
     /\ r.allowed_ip_ranges # {} =>
          subject.ip # None /\ \E range \in r.allowed_ip_ranges : InBlock(subject.ip, range)}

\* Whether and what evaluate grants depends only on the set of the subject's roles that
\* entitle it: not on their order, not on a role that is assigned twice, and not on which of
\* the two branches, one role or several, computes the restrictions.
DecisionByEntitlement ==
  \A subject \in Subjects, device \in Devices, requested \in AllActions :
    LET decision == Evaluate(subject, device, requested)
        entitling == Entitling(subject, device, requested)
        free == requested = Control => ~ControlHeld(device) IN
    /\ decision.allowed <=> free /\ entitling # {}
    /\ decision.allowed =>
         /\ decision.actions = UNION {r.allowed_actions : r \in entitling}
         /\ decision.matched = {r.name : r \in entitling}
         /\ decision.restrictions.duration \in {Duration(r) : r \in entitling}
         /\ \A f \in {"clipboard", "files", "audio"} : decision.restrictions[f] => \E r \in entitling : r[f]
         /\ \A r \in entitling : Within([actions |-> r.allowed_actions, restrictions |-> FromConditions(r)],
                                       decision)

\* What a subject is granted never shrinks when it is assigned one more role, whatever the
\* role's conditions are (union semantics of evaluate's step 6).
MoreRolesNeverLess ==
  \A subject \in Subjects, device \in Devices, requested \in AllActions, name \in DOMAIN roles :
    LET before == Evaluate(subject, device, requested)
        after == Evaluate([subject EXCEPT !.roles = Append(@, name)], device, requested) IN
    before.allowed => after.allowed /\ Within(before, after)

\* A decision is a function of what entitles the subject, and grows with it.
DecisionsSound == DecisionByEntitlement /\ MoreRolesNeverLess

\* Two active sessions hold desktop.control of one device only when the later one asked for
\* some other action: evaluate checks the exclusivity of ADR-015 for requests of
\* desktop.control, and grants all actions of the matching roles to any request.
ControlExclusiveWhenAsked ==
  \A i, j \in DOMAIN sessions :
    /\ i < j /\ sessions[i].device = sessions[j].device
    /\ sessions[i].active /\ sessions[j].active
    /\ Control \in sessions[i].actions \intersect sessions[j].actions
    => sessions[j].asked # Control

\* No sequence of pushed policies takes a session beyond what it was first granted, though
\* each push is only compared with the one before it (ADR-017).
NeverEscalates ==
  TypeOK /\ \A i \in DOMAIN sessions : Within(sessions[i], sessions[i].granted)

=============================================================================
