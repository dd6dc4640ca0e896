--------------------------- MODULE Policy_proofs ----------------------------
(***************************************************************************)
(* Proofs about the policy engine: what evaluate decides and grants, for   *)
(* every set of roles, subjects and devices, and that neither requests nor *)
(* pushed policies take a session beyond its grant.                        *)
(***************************************************************************)
EXTENDS Policy, FiniteSetTheorems, WellFoundedInduction, TLAPS

----------------------------------------------------------------------------
(* Numbers *)

NatLess == {ss \in Nat \X Nat : ss[1] < ss[2]}

\* The order of the naturals is well founded, as a relation.
LEMMA NatLessWellFounded == IsWellFoundedOn(NatLess, Nat)
BY NatLessThanWellFounded, Zenon DEF NatLess, OpToRel

\* A set of naturals that is not empty has a least member.
LEMMA LeastOf ==
  ASSUME NEW S \in SUBSET Nat, S # {}
  PROVE  \E x \in S : \A y \in S : x <= y
<1>1. PICK x \in S : \A y \in S : ~(<<y, x>> \in NatLess)
  BY NatLessWellFounded, WFMin, Zenon
<1>2. \A y \in S : x <= y
  <2> TAKE y \in S
  <2>1. x \in Nat /\ y \in Nat
    BY Zenon
  <2>2. y < x => <<y, x>> \in NatLess
    BY <2>1, Zenon DEF NatLess
  <2> QED BY <1>1, <2>1, <2>2
<1> QED BY <1>2, Zenon

\* The first of the places of a subject's role list that evaluate takes, matching_roles[0].
LEMMA MinOf ==
  ASSUME NEW S \in SUBSET Nat, S # {}
  PROVE  Min(S) \in S
BY LeastOf, Zenon DEF Min

\* A bounded set of naturals that is not empty has a greatest member.
LEMMA GreatestOfBounded ==
  ASSUME NEW S \in SUBSET Nat, S # {}, NEW b \in Nat, \A y \in S : y <= b
  PROVE  \E x \in S : \A y \in S : x >= y
<1> DEFINE Bounds == {n \in Nat : \A y \in S : y <= n}
<1>1. PICK n \in Bounds : \A m \in Bounds : n <= m
  <2>1. Bounds \in SUBSET Nat /\ b \in Bounds
    BY Zenon
  <2> QED BY <2>1, LeastOf, Zenon
<1>2. n \in S
  <2> SUFFICES ASSUME n \notin S PROVE FALSE
    BY Zenon
  <2>1. \A y \in S : y < n /\ y \in Nat /\ n \in Nat
    BY <1>1
  <2>2. n # 0
    <3>1. PICK y \in S : TRUE
      BY Zenon
    <3> QED BY <2>1, <3>1
  <2>3. n - 1 \in Bounds
    BY <1>1, <2>1, <2>2
  <2> QED BY <1>1, <2>3
<1> QED BY <1>1, <1>2, Zenon

\* The greatest of the durations and of the sizes of the matching roles, which evaluate takes.
LEMMA MaxOf ==
  ASSUME NEW S \in SUBSET Nat, S # {}, IsFiniteSet(S)
  PROVE  Max(S) \in S /\ \A y \in S : Max(S) >= y
<1> DEFINE n == Cardinality(S)
<1>0. n \in Nat
  BY FS_CardinalityType, Zenon
<1>1. PICK f \in [1..n -> S] : \A y \in S : \E i \in 1..n : f[i] = y
  BY FS_CardinalityType DEF ExistsBijection, Bijection, Injection, Surjection
<1> HIDE DEF n
<1>1a. \A i \in 1..n : f[i] \in Nat
  BY Zenon
<1> DEFINE Bounded(k) == \E b \in Nat : \A i \in 1..n : i <= k => f[i] <= b
           Bad == {k \in Nat : ~Bounded(k)}
<1>2. Bad = {}
  <2> SUFFICES ASSUME Bad # {} PROVE FALSE
    BY Zenon
  <2>1. PICK k \in Bad : \A m \in Bad : k <= m
    <3>1. Bad \in SUBSET Nat
      BY Zenon
    <3> QED BY <3>1, LeastOf, Zenon
  <2>2. k # 0
    <3>1. \A i \in 1..n : ~(i <= 0)
      OBVIOUS
    <3>2. Bounded(0)
      BY <3>1, Zenon
    <3> QED BY <3>2, Zenon
  <2>3. k - 1 \in Nat /\ k - 1 \notin Bad /\ k \in Nat
    <3>1. k \in Nat
      BY Zenon
    <3> HIDE DEF Bad
    <3> QED BY <2>1, <2>2, <3>1
  <2>4. PICK b \in Nat : \A i \in 1..n : i <= k - 1 => f[i] <= b
    <3>1. Bounded(k - 1)
      BY <2>3, Zenon
    <3> QED BY <3>1, Zenon
  <2>5. CASE k \in 1..n
    <3> HIDE DEF Bad
    <3>0. f[k] \in Nat
      BY <1>1a, <2>5, Zenon
    <3>1. PICK c \in Nat : b <= c /\ f[k] <= c
      <4>1. \A x, y \in Nat : \E c \in Nat : x <= c /\ y <= c
        OBVIOUS
      <4> QED BY <3>0, <4>1, Zenon
    <3>2. \A i \in 1..n : i <= k => f[i] <= c
      <4> TAKE i \in 1..n
      <4>1. f[i] \in Nat /\ i \in Nat
        BY <1>0, <1>1a
      <4>2. CASE i = k
        BY <3>0, <3>1, <4>2, Zenon
      <4>3. CASE i # k
        <5>1. i <= k => f[i] <= b
          BY <2>3, <2>4, <4>1, <4>3
        <5> QED BY <3>1, <4>1, <5>1
      <4> QED BY <4>2, <4>3, Zenon
    <3>3. Bounded(k)
      BY <3>1, <3>2, Zenon
    <3> USE DEF Bad
    <3> QED BY <2>1, <3>3, Zenon
  <2>6. CASE k \notin 1..n
    <3>1. \A i \in 1..n : i <= k => f[i] <= b
      BY <2>3, <2>4, <2>6
    <3>2. Bounded(k)
      BY <3>1, Zenon
    <3> QED BY <2>1, <3>2, Zenon
  <2> QED BY <2>5, <2>6, Zenon
<1>3. PICK b \in Nat : \A i \in 1..n : i <= n => f[i] <= b
  <2>1. Bounded(n)
    BY <1>0, <1>2, Zenon
  <2> QED BY <2>1, Zenon
<1>4. \A y \in S : y <= b
  BY <1>0, <1>1, <1>3
<1>5. \E x \in S : \A y \in S : x >= y
  BY <1>4, GreatestOfBounded, Zenon
<1> QED BY <1>5, Zenon DEF Max

\* A power of two, the number of addresses of a block: the number of subsets of 1..k.
LEMMA PowerOfTwo ==
  ASSUME NEW k \in Nat
  PROVE  2^k \in Nat \ {0}
<1>1. IsFiniteSet(1..k) /\ Cardinality(1..k) = k
  <2>1. IsFiniteSet(1..k) /\ Cardinality(1..k) = IF 1 > k THEN 0 ELSE k - 1 + 1
    BY FS_Interval
  <2> QED BY <2>1
<1>2. IsFiniteSet(SUBSET (1..k)) /\ Cardinality(SUBSET (1..k)) = 2^k
  BY <1>1, FS_SUBSET, Zenon
<1>3. SUBSET (1..k) # {}
  BY Zenon
<1>4. Cardinality(SUBSET (1..k)) \in Nat /\ Cardinality(SUBSET (1..k)) # 0
  BY <1>2, <1>3, FS_CardinalityType, FS_EmptySet, Zenon
<1> QED BY <1>2, <1>4, Zenon

\* Dividing by the size of a block gives the number of the block, and nothing else does.
LEMMA BlockNumber ==
  ASSUME NEW a \in Nat, NEW size \in Nat \ {0}
  PROVE  /\ a \div size \in 0..a /\ a % size \in 0..(size - 1)
         /\ a = (a \div size) * size + (a % size)
         /\ \A block \in Nat : a \in (block * size)..((block + 1) * size - 1) => block = a \div size
<1>1. a % size \in Nat /\ a % size < size /\ a \div size \in Nat /\ a = (a \div size) * size + (a % size)
  <2>1. a % size \in Nat /\ a % size < size
    OBVIOUS
  <2>2. a \div size \in Nat
    OBVIOUS
  <2>3. a % size = a - size * (a \div size)
    OBVIOUS
  <2>4. size * (a \div size) = (a \div size) * size /\ size * (a \div size) \in Nat
    BY <2>2
  <2>5. \A r, t \in Nat : r = a - t => a = t + r
    OBVIOUS
  <2> QED BY <2>1, <2>2, <2>3, <2>4, <2>5, Zenon
<1>2. a \div size <= a
  <2>1. \A q \in Nat : q * size >= q
    OBVIOUS
  <2> QED BY <1>1, <2>1
<1>3. ASSUME NEW block \in Nat, a \in (block * size)..((block + 1) * size - 1)
      PROVE  block = a \div size
  <2> DEFINE q == a \div size
  <2>1. q \in Nat /\ q * size <= a /\ a < (q + 1) * size
    BY <1>1
  <2>2. block * size <= a /\ a < (block + 1) * size
    BY <1>3
  <2> HIDE DEF q
  <2>3. \A x, y \in Nat : x < y => (x + 1) * size <= y * size
    OBVIOUS
  <2>4. ~(q < block) /\ ~(block < q)
    BY <2>1, <2>2, <2>3
  <2>5. q = block
    BY <2>1, <2>4
  <2> QED BY <2>5, Zenon DEF q
<1> QED BY <1>1, <1>2, <1>3

SameMasked(a, b, size) == a - (a % size) = b - (b % size)
OneBlock(a, b, size) ==
  \E block \in 0..a : {a, b} \subseteq (block * size)..((block + 1) * size - 1)

\* Two addresses agree under a mask exactly when one block of the mask's size holds both.
LEMMA SameBlock ==
  ASSUME NEW a \in Nat, NEW b \in Nat, NEW size \in Nat \ {0}
  PROVE  SameMasked(a, b, size) <=> OneBlock(a, b, size)
<1> DEFINE q == a \div size
           r == a % size
           p == b \div size
           s == b % size
<1>1. /\ q \in 0..a /\ r \in 0..(size - 1) /\ a = q * size + r
      /\ p \in 0..b /\ s \in 0..(size - 1) /\ b = p * size + s
  BY BlockNumber, Zenon
<1>2. \A block \in Nat : /\ a \in (block * size)..((block + 1) * size - 1) => block = q
                         /\ b \in (block * size)..((block + 1) * size - 1) => block = p
  BY BlockNumber, Zenon
<1> HIDE DEF q, r, p, s
<1>3. ASSUME a - r = b - s
      PROVE  OneBlock(a, b, size)
  <2>1. q * size = p * size
    BY <1>1, <1>3
  <2>2. q * size + r \in (q * size)..((q + 1) * size - 1) /\ q * size + s \in (q * size)..((q + 1) * size - 1)
    BY <1>1
  <2>3. {a, b} \subseteq (q * size)..((q + 1) * size - 1)
    BY <1>1, <2>1, <2>2, Zenon
  <2> QED BY <1>1, <2>3, Zenon DEF OneBlock
<1>4. ASSUME NEW block \in 0..a, {a, b} \subseteq (block * size)..((block + 1) * size - 1)
      PROVE  a - r = b - s
  <2>1. block \in Nat
    OBVIOUS
  <2>2. block = q /\ block = p
    BY <1>2, <1>4, <2>1, Zenon
  <2>3. a - r = q * size /\ b - s = p * size
    BY <1>1
  <2> QED BY <2>2, <2>3, Zenon
<1> QED BY <1>3, <1>4, Zenon DEF r, s, SameMasked, OneBlock

\* ip_matches_range accepts exactly the addresses of the block that holds the network address.
LEMMA RangeIsBlock ==
  ASSUME NEW ip \in [family : DOMAIN AddressBits, addr : Nat], NEW range \in IpRanges,
         ip.addr < 2^AddressBits[ip.family], range.net < 2^AddressBits[range.family]
  PROVE  IpMatchesRange(ip, range) <=> InBlock(ip, range)
<1> SUFFICES ASSUME ip.family = range.family, range.prefix <= AddressBits[range.family]
             PROVE  IpMatchesRange(ip, range) <=> InBlock(ip, range)
  BY Zenon DEF IpMatchesRange, InBlock
<1> DEFINE open == AddressBits[range.family] - range.prefix
           size == 2^open
           a == ip.addr
           b == range.net
<1>1. a \in Nat /\ b \in Nat /\ open \in Nat /\ range.prefix \in Nat /\ AddressBits[range.family] \in Nat
  <2>1. a \in Nat /\ b \in Nat /\ range.prefix \in Nat /\ range.family \in DOMAIN AddressBits
    BY Zenon DEF IpRanges
  <2>2. AddressBits[range.family] \in Nat
    BY <2>1, PolicyAssumption, Zenon
  <2> QED BY <2>1, <2>2
<1>2. size \in Nat \ {0}
  BY <1>1, PowerOfTwo, Zenon
<1>3. InBlock(ip, range) <=> OneBlock(a, b, size)
  BY Zenon DEF InBlock, OneBlock
<1>4. IpMatchesRange(ip, range) <=> range.prefix = 0 \/ SameMasked(a, b, size)
  BY Zenon DEF IpMatchesRange, Masked, SameMasked
<1>5. range.prefix = 0 => a < size /\ b < size
  BY <1>1
<1> HIDE DEF size, a, b, open
<1>6. SameMasked(a, b, size) <=> OneBlock(a, b, size)
  BY <1>1, <1>2, SameBlock, Zenon
<1>7. range.prefix = 0 => OneBlock(a, b, size)
  <2>1. range.prefix = 0 => 0 \in 0..a /\ {a, b} \subseteq (0 * size)..((0 + 1) * size - 1)
    BY <1>1, <1>2, <1>5
  <2> QED BY <2>1, Zenon DEF OneBlock
<1> QED BY <1>3, <1>4, <1>6, <1>7, Zenon
----------------------------------------------------------------------------
(* What evaluate grants *)

FeatureNames == {"clipboard", "files", "audio"}

\* A decision grants what a set of roles allows together, the most permissive of each limit.
GrantsAll(actions, limits, granted) ==
  /\ actions = UNION {r.allowed_actions : r \in granted}
  /\ limits \in Restrictions
  /\ \A f \in FeatureNames : limits[f] <=> \E r \in granted : r[f]
  /\ \E r \in granted : limits.duration = Duration(r)
  /\ \A r \in granted : Duration(r) <= limits.duration
  /\ limits.resolution = None <=> \E r \in granted : MaxResolution(r) = None
  /\ limits.resolution # None =>
       /\ \A r \in granted : r.width <= limits.resolution[1] /\ r.height <= limits.resolution[2]
       /\ \E r \in granted : limits.resolution[1] = r.width
       /\ \E r \in granted : limits.resolution[2] = r.height

\* The fields of a role have their types, and so have the limits made of them.
LEMMA RoleTypes ==
  ASSUME NEW r \in RoleRecords
  PROVE  /\ r.allowed_actions \in SUBSET AllActions
         /\ r.clipboard \in BOOLEAN /\ r.files \in BOOLEAN /\ r.audio \in BOOLEAN
         /\ r.width \in Nat \union {None} /\ r.height \in Nat \union {None}
         /\ Duration(r) \in Nat
         /\ MaxResolution(r) \in (Nat \X Nat) \union {None}
         /\ MaxResolution(r) = None <=> r.width = None \/ r.height = None
         /\ MaxResolution(r) # None =>
              /\ r.width \in Nat /\ r.height \in Nat
              /\ MaxResolution(r)[1] = r.width /\ MaxResolution(r)[2] = r.height
<1>1. /\ r.allowed_actions \in SUBSET AllActions
      /\ r.clipboard \in BOOLEAN /\ r.files \in BOOLEAN /\ r.audio \in BOOLEAN
      /\ r.width \in Nat \union {None} /\ r.height \in Nat \union {None}
      /\ r.max_duration \in Nat \union {None}
  BY Zenon DEF RoleRecords
<1>2. Duration(r) \in Nat
  BY <1>1, PolicyAssumption, Zenon DEF Duration
<1>3. CASE r.width # None /\ r.height # None
  <2>1. r.width \in Nat /\ r.height \in Nat
    BY <1>1, <1>3, Zenon
  <2>2. MaxResolution(r) = <<r.width, r.height>> /\ <<r.width, r.height>> \in Nat \X Nat
    BY <1>3, <2>1, Zenon DEF MaxResolution
  <2>3. MaxResolution(r) # None
    BY <2>2, PolicyAssumption, Zenon
  <2> QED BY <1>1, <1>2, <1>3, <2>1, <2>2, <2>3
<1>4. CASE r.width = None \/ r.height = None
  <2>1. MaxResolution(r) = None
    BY <1>4, Zenon DEF MaxResolution
  <2> QED BY <1>1, <1>2, <1>4, <2>1, Zenon
<1> QED BY <1>3, <1>4, Zenon

\* One matching role: SessionRestrictions::from_conditions grants what the role allows.
LEMMA OneRoleGrants ==
  ASSUME NEW r \in RoleRecords
  PROVE  GrantsAll(r.allowed_actions, FromConditions(r), {r})
<1> DEFINE limits == FromConditions(r)
<1>1. limits \in Restrictions
  BY RoleTypes, Zenon DEF FromConditions, Restrictions
<1>2. /\ limits.clipboard = r.clipboard /\ limits.files = r.files /\ limits.audio = r.audio
      /\ limits.duration = Duration(r) /\ limits.resolution = MaxResolution(r)
  BY Zenon DEF FromConditions
<1> HIDE DEF limits
<1>3. \A f \in FeatureNames : limits[f] <=> \E q \in {r} : q[f]
  BY <1>2, Zenon DEF FeatureNames
<1>4. /\ \E q \in {r} : limits.duration = Duration(q)
      /\ \A q \in {r} : Duration(q) <= limits.duration
  BY <1>2, RoleTypes
<1>5. limits.resolution = None <=> \E q \in {r} : MaxResolution(q) = None
  BY <1>2, Zenon
<1>6. limits.resolution # None =>
        /\ \A q \in {r} : q.width <= limits.resolution[1] /\ q.height <= limits.resolution[2]
        /\ \E q \in {r} : limits.resolution[1] = q.width
        /\ \E q \in {r} : limits.resolution[2] = q.height
  BY <1>2, RoleTypes
<1>7. r.allowed_actions = UNION {q.allowed_actions : q \in {r}}
  BY Zenon
<1>8. GrantsAll(r.allowed_actions, limits, {r})
  BY <1>1, <1>3, <1>4, <1>5, <1>6, <1>7, Zenon DEF GrantsAll
<1> QED BY <1>8, Zenon DEF limits

\* Several matching roles: the union of step 6 grants what they allow together.
LEMMA SeveralRolesGrant ==
  ASSUME NEW granted \in SUBSET RoleRecords, granted # {}, IsFiniteSet(granted)
  PROVE  GrantsAll(UNION {r.allowed_actions : r \in granted}, Merged(granted), granted)
<1> DEFINE limits == Merged(granted)
           durations == {Duration(r) : r \in granted}
           widths == {r.width : r \in granted}
           heights == {r.height : r \in granted}
<1>1. IsFiniteSet(durations) /\ IsFiniteSet(widths) /\ IsFiniteSet(heights)
  <2>1. [r \in granted |-> Duration(r)] \in Surjection(granted, durations)
    BY Zenon DEF Surjection
  <2>2. [r \in granted |-> r.width] \in Surjection(granted, widths)
    BY Zenon DEF Surjection
  <2>3. [r \in granted |-> r.height] \in Surjection(granted, heights)
    BY Zenon DEF Surjection
  <2> QED BY <2>1, <2>2, <2>3, FS_Surjection, Zenon
<1>2. durations \in SUBSET Nat /\ durations # {} /\ widths # {} /\ heights # {}
  BY RoleTypes
<1>3. Max(durations) \in durations /\ \A d \in durations : Max(durations) >= d
  BY <1>1, <1>2, MaxOf, Zenon
<1>4. /\ limits.clipboard = (\E r \in granted : r.clipboard)
      /\ limits.files = (\E r \in granted : r.files)
      /\ limits.audio = (\E r \in granted : r.audio)
      /\ limits.duration = Max(durations)
      /\ limits.resolution = IF \E r \in granted : MaxResolution(r) = None THEN None
                             ELSE <<Max(widths), Max(heights)>>
  BY Zenon DEF Merged
<1>5. /\ \E r \in granted : limits.duration = Duration(r)
      /\ \A r \in granted : Duration(r) <= limits.duration
      /\ limits.duration \in Nat
  <2>1. \A r \in granted : Duration(r) \in durations /\ Duration(r) \in Nat
    BY <1>2, Zenon
  <2> QED BY <1>2, <1>3, <1>4, <2>1, Zenon
<1>6. /\ limits.resolution \in (Nat \X Nat) \union {None}
      /\ limits.resolution = None <=> \E r \in granted : MaxResolution(r) = None
      /\ limits.resolution # None =>
           /\ \A r \in granted : r.width <= limits.resolution[1] /\ r.height <= limits.resolution[2]
           /\ \E r \in granted : limits.resolution[1] = r.width
           /\ \E r \in granted : limits.resolution[2] = r.height
  <2>1. CASE \E r \in granted : MaxResolution(r) = None
    BY <1>4, <2>1, Zenon
  <2>2. CASE ~\E r \in granted : MaxResolution(r) = None
    <3>1. widths \in SUBSET Nat /\ heights \in SUBSET Nat
      BY <2>2, RoleTypes, Zenon
    <3>2. /\ Max(widths) \in Nat /\ \A r \in granted : r.width <= Max(widths)
          /\ Max(heights) \in Nat /\ \A r \in granted : r.height <= Max(heights)
          /\ \E r \in granted : Max(widths) = r.width
          /\ \E r \in granted : Max(heights) = r.height
      <4>1. /\ Max(widths) \in widths /\ \A w \in widths : Max(widths) >= w
            /\ Max(heights) \in heights /\ \A h \in heights : Max(heights) >= h
        BY <1>1, <1>2, <3>1, MaxOf, Zenon
      <4>2. \A r \in granted : /\ r.width \in widths /\ r.width \in Nat
                               /\ r.height \in heights /\ r.height \in Nat
        BY <3>1, Zenon
      <4> QED BY <3>1, <4>1, <4>2, Zenon
    <3>3. limits.resolution = <<Max(widths), Max(heights)>>
      BY <1>4, <2>2, Zenon
    <3> HIDE DEF limits, widths, heights
    <3>4. limits.resolution \in Nat \X Nat /\ limits.resolution # None
      BY <3>2, <3>3, PolicyAssumption
    <3> QED BY <2>2, <3>2, <3>3, <3>4
  <2> QED BY <2>1, <2>2, Zenon
<1>7. \A f \in FeatureNames : limits[f] <=> \E r \in granted : r[f]
  BY <1>4, Zenon DEF FeatureNames
<1>8. limits \in Restrictions
  <2>1. limits = [clipboard |-> limits.clipboard, files |-> limits.files, audio |-> limits.audio,
                  duration |-> limits.duration, resolution |-> limits.resolution]
    BY Zenon DEF Merged
  <2>2. limits.clipboard \in BOOLEAN /\ limits.files \in BOOLEAN /\ limits.audio \in BOOLEAN
    BY <1>4, Zenon
  <2> HIDE DEF limits
  <2> QED BY <1>5, <1>6, <2>1, <2>2, Zenon DEF Restrictions
<1> HIDE DEF limits
<1>9. GrantsAll(UNION {r.allowed_actions : r \in granted}, limits, granted)
  BY <1>5, <1>6, <1>7, <1>8, Zenon DEF GrantsAll
<1> QED BY <1>9, Zenon DEF limits
RolesOK == \A n \in DOMAIN roles : roles[n] \in RoleRecords /\ roles[n].name = n

Granting(subject, device, requested) == {RoleAt(subject, i) : i \in Matching(subject, device, requested)}

\* The places evaluate selects are places of the subject's list that name a role.
LEMMA MatchingTypes ==
  ASSUME RolesOK, NEW subject \in SubjectRecords, NEW device, NEW requested
  PROVE  LET matching == Matching(subject, device, requested)
             granting == Granting(subject, device, requested) IN
         /\ matching \in SUBSET Nat /\ IsFiniteSet(matching)
         /\ granting \in SUBSET RoleRecords /\ IsFiniteSet(granting)
         /\ granting = {} <=> matching = {}
<1> DEFINE matching == Matching(subject, device, requested)
           granting == Granting(subject, device, requested)
<1>1. subject.roles \in Seq(STRING) /\ Len(subject.roles) \in Nat
  BY DEF SubjectRecords
<1>2. DOMAIN subject.roles = 1..Len(subject.roles) /\ IsFiniteSet(1..Len(subject.roles))
  BY <1>1, FS_Interval
<1>3. matching \in SUBSET (1..Len(subject.roles)) /\ \A i \in matching : i \in Assigned(subject)
  BY <1>2, Zenon DEF Matching, Fitting, Acting, Assigned
<1>4. matching \in SUBSET Nat /\ IsFiniteSet(matching)
  BY <1>1, <1>2, <1>3, FS_Subset
<1>5. \A i \in matching : RoleAt(subject, i) \in RoleRecords
  BY <1>3, Zenon DEF RolesOK, Assigned, RoleAt
<1>6. granting = {RoleAt(subject, i) : i \in matching}
  BY Zenon DEF Granting
<1> HIDE DEF matching, granting
<1>7. [i \in matching |-> RoleAt(subject, i)] \in Surjection(matching, granting)
  BY <1>6, Zenon DEF Surjection
<1>8. IsFiniteSet(granting)
  BY <1>4, <1>7, FS_Surjection, Zenon
<1>9. granting \in SUBSET RoleRecords /\ (granting = {} <=> matching = {})
  BY <1>5, <1>6, Zenon
<1> QED BY <1>4, <1>8, <1>9, Zenon DEF matching, granting

\* evaluate allows a request when no other session is in the way and some role of the subject
\* passes every step, and grants what those roles allow together.
LEMMA EvaluateMeans ==
  ASSUME RolesOK, NEW subject \in SubjectRecords, NEW device, NEW requested
  PROVE  LET decision == Evaluate(subject, device, requested)
             granting == Granting(subject, device, requested)
             free == requested = Control => ~ControlHeld(device) IN
         /\ decision.allowed <=> free /\ granting # {}
         /\ decision.allowed =>
              /\ GrantsAll(decision.actions, decision.restrictions, granting)
              /\ decision.matched = {r.name : r \in granting}
<1> DEFINE decision == Evaluate(subject, device, requested)
           granting == Granting(subject, device, requested)
           matching == Matching(subject, device, requested)
           conflict == requested = Control /\ ControlHeld(device)
           only == RoleAt(subject, Min(matching))
           union == UNION {r.allowed_actions : r \in granting}
<1>1. /\ matching \in SUBSET Nat /\ IsFiniteSet(matching)
      /\ granting \in SUBSET RoleRecords /\ IsFiniteSet(granting)
      /\ granting = {} <=> matching = {}
  BY MatchingTypes, Zenon
<1>2. CASE conflict \/ matching = {}
  <2>1. \E reason : decision = Denied(reason)
    <3>1. Assigned(subject) = {} => Acting(subject, requested) = {}
      BY Zenon DEF Acting
    <3>2. matching # {} => Fitting(subject, device, requested) # {} /\ Acting(subject, requested) # {}
      BY Zenon DEF Matching, Fitting
    <3> QED BY <1>2, <3>1, <3>2, Zenon DEF Evaluate
  <2>2. decision.allowed = FALSE
    BY <2>1 DEF Denied
  <2> QED BY <1>1, <1>2, <2>2, Zenon
<1>3. CASE ~conflict /\ matching # {}
  <2>1. /\ Assigned(subject) # {} /\ Acting(subject, requested) # {}
        /\ Fitting(subject, device, requested) # {}
    BY <1>3, Zenon DEF Matching, Fitting, Acting
  <2>2. CASE Cardinality(matching) = 1
    <3>1. PICK i : matching = {i}
      BY <1>1, <2>2, FS_Singleton, Zenon
    <3>2. Min(matching) = i
      BY <1>1, <3>1, MinOf, Zenon
    <3>3. only = RoleAt(subject, i) /\ granting = {only} /\ only \in RoleRecords
      BY <1>1, <3>1, <3>2, Zenon DEF Granting
    <3>4. decision = Allowed(only.allowed_actions, FromConditions(only), {only.name})
      BY <1>3, <2>1, <2>2, Zenon DEF Evaluate
    <3>5. /\ decision.allowed = TRUE /\ decision.actions = only.allowed_actions
          /\ decision.restrictions = FromConditions(only) /\ decision.matched = {only.name}
      BY <3>4 DEF Allowed
    <3>6. GrantsAll(only.allowed_actions, FromConditions(only), {only})
      BY <3>3, OneRoleGrants, Zenon
    <3>7. {r.name : r \in {only}} = {only.name}
      BY Zenon
    <3> HIDE DEF decision, granting, only, matching
    <3> QED BY <1>3, <3>3, <3>5, <3>6, <3>7 DEF decision, granting
  <2>3. CASE Cardinality(matching) # 1
    <3>1. decision = Allowed(union, Merged(granting), {r.name : r \in granting})
      BY <1>3, <2>1, <2>3, Zenon DEF Evaluate, Granting
    <3>2. /\ decision.allowed = TRUE /\ decision.actions = union
          /\ decision.restrictions = Merged(granting) /\ decision.matched = {r.name : r \in granting}
      <4> DEFINE names == {r.name : r \in granting}
                 limits == Merged(granting)
      <4>1. decision = Allowed(union, limits, names)
        BY <3>1, Zenon
      <4> HIDE DEF decision, union, limits, names
      <4>2. /\ decision.allowed = TRUE /\ decision.actions = union
            /\ decision.restrictions = limits /\ decision.matched = names
        BY <4>1, Zenon DEF Allowed
      <4> QED BY <4>2, Zenon DEF limits, names
    <3>3. GrantsAll(union, Merged(granting), granting)
      BY <1>1, <1>3, SeveralRolesGrant, Zenon
    <3> HIDE DEF decision, granting, union, matching
    <3> QED BY <1>1, <1>3, <3>2, <3>3, Zenon DEF decision, granting, union
  <2> QED BY <2>2, <2>3, Zenon
<1> QED BY <1>2, <1>3, Zenon
----------------------------------------------------------------------------
(* Comparing grants *)

\* Sizes within sizes: a resolution that is no larger in either dimension.
LEMMA SmallerSizes ==
  ASSUME NEW a \in Nat \X Nat, NEW b \in Nat \X Nat, a[1] <= b[1], a[2] <= b[2]
  PROVE  Sizes(a) \subseteq Sizes(b)
<1>1. a[1] \in Nat /\ a[2] \in Nat /\ b[1] \in Nat /\ b[2] \in Nat
  BY Zenon
<1>2. 0..a[1] \subseteq 0..b[1] /\ 0..a[2] \subseteq 0..b[2]
  BY <1>1
<1> QED BY <1>2, Zenon DEF Sizes

\* What fewer roles allow together is within what more roles allow together.
LEMMA FewerWithinMore ==
  ASSUME NEW fewer, NEW more \in SUBSET RoleRecords, fewer \subseteq more,
         NEW grant, NEW outer,
         GrantsAll(grant.actions, grant.restrictions, fewer),
         GrantsAll(outer.actions, outer.restrictions, more)
  PROVE  Within(grant, outer)
<1> DEFINE inner == grant.restrictions
           limit == outer.restrictions
<1>1. grant.actions \subseteq outer.actions
  BY Zenon DEF GrantsAll
<1>2. Features(inner) \subseteq Features(limit)
  BY Zenon DEF GrantsAll, Features, FeatureNames
<1>3. inner.duration <= limit.duration
  BY Zenon DEF GrantsAll
<1>4. ASSUME limit.resolution # None
      PROVE  inner.resolution # None /\ Sizes(inner.resolution) \subseteq Sizes(limit.resolution)
  <2>1. inner.resolution # None
    BY <1>4, Zenon DEF GrantsAll
  <2>2. inner.resolution \in Nat \X Nat /\ limit.resolution \in Nat \X Nat
    BY <1>4, <2>1, Zenon DEF GrantsAll, Restrictions
  <2>3. inner.resolution[1] <= limit.resolution[1] /\ inner.resolution[2] <= limit.resolution[2]
    BY <1>4, <2>1, Zenon DEF GrantsAll
  <2> QED BY <2>1, <2>2, <2>3, SmallerSizes
<1> QED BY <1>1, <1>2, <1>3, <1>4, Zenon DEF Within

\* A policy that validate_policy_narrowing accepts is within what the session has.
LEMMA NarrowingIsWithin ==
  ASSUME NEW original, NEW proposed, original.restrictions \in Restrictions,
         proposed.restrictions \in Restrictions, ValidNarrowing(original, proposed)
  PROVE  Within(proposed, original)
<1> DEFINE was == original.restrictions
           now == proposed.restrictions
<1>1. proposed.actions \subseteq original.actions /\ now.duration <= was.duration
  BY Zenon DEF ValidNarrowing
<1>2. Features(now) \subseteq Features(was)
  BY Zenon DEF ValidNarrowing, Features
<1>3. ASSUME was.resolution # None
      PROVE  now.resolution # None /\ Sizes(now.resolution) \subseteq Sizes(was.resolution)
  <2>1. /\ now.resolution # None
        /\ now.resolution[1] <= was.resolution[1] /\ now.resolution[2] <= was.resolution[2]
    BY <1>3, Zenon DEF ValidNarrowing
  <2>2. now.resolution \in Nat \X Nat /\ was.resolution \in Nat \X Nat
    BY <1>3, <2>1, Zenon DEF Restrictions
  <2> QED BY <2>1, <2>2, SmallerSizes
<1> QED BY <1>1, <1>2, <1>3, Zenon DEF Within

\* A chain of narrowings stays within its first grant.
LEMMA WithinTransitive ==
  ASSUME NEW a, NEW b, NEW c, Within(a, b), Within(b, c),
         a.restrictions \in Restrictions, b.restrictions \in Restrictions, c.restrictions \in Restrictions
  PROVE  Within(a, c)
<1>1. /\ a.restrictions.duration \in Nat /\ b.restrictions.duration \in Nat
      /\ c.restrictions.duration \in Nat
  BY Zenon DEF Restrictions
<1>2. a.restrictions.duration <= c.restrictions.duration
  BY <1>1 DEF Within
<1> QED BY <1>2, Zenon DEF Within

\* Every grant is within itself.
LEMMA WithinReflexive ==
  ASSUME NEW a, a.restrictions \in Restrictions
  PROVE  Within(a, a)
<1>1. a.restrictions.duration \in Nat
  BY Zenon DEF Restrictions
<1> QED BY <1>1 DEF Within
----------------------------------------------------------------------------
(* Decisions *)

\* The roles are as TypeOK says, whether they are looked at as definitions or as records.
LEMMA RolesTyped ==
  ASSUME TypeOK
  PROVE  RolesOK /\ \A n \in DOMAIN roles : roles[n] \in RoleDefs
BY PolicyAssumption, Zenon DEF TypeOK, RolesOK

\* The steps of evaluate select exactly the roles that entitle the subject.
LEMMA GrantingIsEntitling ==
  ASSUME TypeOK, NEW subject \in Subjects, NEW device, NEW requested
  PROVE  Granting(subject, device, requested) = Entitling(subject, device, requested)
<1>1. RolesOK /\ (\A n \in DOMAIN roles : roles[n] \in RoleDefs) /\ subject \in SubjectRecords
  BY RolesTyped, PolicyAssumption, Zenon
<1>2. subject.roles \in Seq(STRING)
  BY <1>1, Zenon DEF SubjectRecords
<1>3. ASSUME NEW r \in RoleDefs
      PROVE  EvaluateRoleAbac(r, subject) = "ok" <=>
               /\ r.require_mfa => subject.mfa
               /\ r.managed_client_device => subject.managed
               /\ r.allowed_ip_ranges # {} =>
                    subject.ip # None /\ \E range \in r.allowed_ip_ranges : InBlock(subject.ip, range)
  <2>1. ASSUME NEW range \in r.allowed_ip_ranges, subject.ip # None
        PROVE  IpMatchesRange(subject.ip, range) <=> InBlock(subject.ip, range)
    <3>1. subject.ip \in [family : DOMAIN AddressBits, addr : Nat]
      BY <1>1, <2>1, Zenon DEF SubjectRecords
    <3>2. range \in IpRanges
      BY <2>1, PolicyAssumption, Zenon DEF RoleRecords
    <3>3. subject.ip.addr < 2^AddressBits[subject.ip.family] /\ range.net < 2^AddressBits[range.family]
      BY <2>1, PolicyAssumption, Zenon
    <3> QED BY <3>1, <3>2, <3>3, RangeIsBlock, Zenon
  <2> QED BY <2>1, Zenon DEF EvaluateRoleAbac
<1>4. \A i \in DOMAIN subject.roles :
        i \in Matching(subject, device, requested) <=>
          /\ subject.roles[i] \in DOMAIN roles
          /\ roles[subject.roles[i]] \in Entitling(subject, device, requested)
  <2> TAKE i \in DOMAIN subject.roles
  <2> DEFINE n == subject.roles[i]
  <2>1. CASE n \in DOMAIN roles
    <3>1. n \in DOMAIN roles \intersect Range(subject.roles)
      BY <2>1, Zenon DEF Range
    <3>2. roles[n] \in {roles[m] : m \in DOMAIN roles \intersect Range(subject.roles)}
      BY <3>1, Zenon
    <3>3. EvaluateRoleAbac(roles[n], subject) = "ok" <=>
               /\ roles[n].require_mfa => subject.mfa
               /\ roles[n].managed_client_device => subject.managed
               /\ roles[n].allowed_ip_ranges # {} =>
                    subject.ip # None /\ \E range \in roles[n].allowed_ip_ranges : InBlock(subject.ip, range)
      BY <1>1, <1>3, <2>1, Zenon
    <3> QED BY <2>1, <3>2, <3>3, Zenon
        DEF Matching, Fitting, Acting, Assigned, RoleAt, Entitling, MatchesDevice
  <2>2. CASE n \notin DOMAIN roles
    BY <2>2, Zenon DEF Matching, Fitting, Acting, Assigned
  <2> QED BY <2>1, <2>2, Zenon
<1>5. Granting(subject, device, requested) \subseteq Entitling(subject, device, requested)
  <2>1. Matching(subject, device, requested) \subseteq DOMAIN subject.roles
    BY Zenon DEF Matching, Fitting, Acting, Assigned
  <2> QED BY <1>4, <2>1, Zenon DEF Granting, RoleAt
<1>6. ASSUME NEW r \in Entitling(subject, device, requested)
      PROVE  r \in Granting(subject, device, requested)
  <2>1. PICK n \in DOMAIN roles \intersect Range(subject.roles) : r = roles[n]
    BY Zenon DEF Entitling
  <2>2. PICK i \in DOMAIN subject.roles : subject.roles[i] = n
    BY <2>1, Zenon DEF Range
  <2>3. i \in Matching(subject, device, requested)
    BY <1>4, <1>6, <2>1, <2>2, Zenon
  <2> QED BY <2>1, <2>2, <2>3, Zenon DEF Granting, RoleAt
<1> QED BY <1>5, <1>6, Zenon

\* A decision depends on the roles that entitle the subject alone.
LEMMA DecidedByEntitlement ==
  ASSUME TypeOK
  PROVE  DecisionByEntitlement
<1> SUFFICES ASSUME NEW subject \in Subjects, NEW device \in Devices, NEW requested \in AllActions
             PROVE  LET decision == Evaluate(subject, device, requested)
                        entitling == Entitling(subject, device, requested)
                        free == requested = Control => ~ControlHeld(device) IN
                    /\ decision.allowed <=> free /\ entitling # {}
                    /\ decision.allowed =>
                         /\ decision.actions = UNION {r.allowed_actions : r \in entitling}
                         /\ decision.matched = {r.name : r \in entitling}
                         /\ decision.restrictions.duration \in {Duration(r) : r \in entitling}
                         /\ \A f \in {"clipboard", "files", "audio"} :
                              decision.restrictions[f] => \E r \in entitling : r[f]
                         /\ \A r \in entitling :
                              Within([actions |-> r.allowed_actions, restrictions |-> FromConditions(r)], decision)
  BY Zenon DEF DecisionByEntitlement
<1> DEFINE decision == Evaluate(subject, device, requested)
           entitling == Entitling(subject, device, requested)
           free == requested = Control => ~ControlHeld(device)
<1>1. RolesOK /\ subject \in SubjectRecords
  BY RolesTyped, PolicyAssumption, Zenon
<1>2. entitling = Granting(subject, device, requested) /\ entitling \in SUBSET RoleRecords
  BY <1>1, GrantingIsEntitling, MatchingTypes
<1>3. /\ decision.allowed <=> free /\ entitling # {}
      /\ decision.allowed =>
           /\ GrantsAll(decision.actions, decision.restrictions, entitling)
           /\ decision.matched = {r.name : r \in entitling}
  BY <1>1, <1>2, EvaluateMeans, Zenon
<1> HIDE DEF decision, entitling, free
<1>4. ASSUME decision.allowed
      PROVE  /\ decision.actions = UNION {r.allowed_actions : r \in entitling}
             /\ decision.restrictions.duration \in {Duration(r) : r \in entitling}
             /\ \A f \in {"clipboard", "files", "audio"} :
                  decision.restrictions[f] => \E r \in entitling : r[f]
  BY <1>3, <1>4, Zenon DEF GrantsAll, FeatureNames
<1>5. ASSUME decision.allowed, NEW r \in entitling
      PROVE  Within([actions |-> r.allowed_actions, restrictions |-> FromConditions(r)], decision)
  <2> DEFINE grant == [actions |-> r.allowed_actions, restrictions |-> FromConditions(r)]
  <2>1. grant.actions = r.allowed_actions /\ grant.restrictions = FromConditions(r)
    BY Zenon
  <2>2. GrantsAll(r.allowed_actions, FromConditions(r), {r})
    BY <1>2, OneRoleGrants, Zenon
  <2> HIDE DEF grant
  <2>3. Within(grant, decision)
    <3>1. GrantsAll(grant.actions, grant.restrictions, {r}) /\ {r} \subseteq entitling
      BY <1>5, <2>1, <2>2, Zenon
    <3>2. GrantsAll(decision.actions, decision.restrictions, entitling)
      BY <1>3, <1>5, Zenon
    <3> QED BY <1>2, <3>1, <3>2, FewerWithinMore, Zenon
  <2> QED BY <2>3, Zenon DEF grant
<1> QED BY <1>3, <1>4, <1>5, Zenon DEF decision, entitling, free

\* One more role never takes anything away.
LEMMA MoreRolesKeep ==
  ASSUME TypeOK
  PROVE  MoreRolesNeverLess
<1> SUFFICES ASSUME NEW subject \in Subjects, NEW device \in Devices, NEW requested \in AllActions,
                    NEW name \in DOMAIN roles
             PROVE  LET before == Evaluate(subject, device, requested)
                        after == Evaluate([subject EXCEPT !.roles = Append(@, name)], device, requested) IN
                    before.allowed => after.allowed /\ Within(before, after)
  BY Zenon DEF MoreRolesNeverLess
<1> DEFINE larger == [subject EXCEPT !.roles = Append(@, name)]
           before == Evaluate(subject, device, requested)
           after == Evaluate(larger, device, requested)
           fewer == Granting(subject, device, requested)
           more == Granting(larger, device, requested)
<1>1. RolesOK /\ subject \in SubjectRecords /\ name \in STRING
  BY RolesTyped, PolicyAssumption DEF RolesOK, RoleRecords
<1>2. subject.roles \in Seq(STRING) /\ Append(subject.roles, name) \in Seq(STRING)
  BY <1>1 DEF SubjectRecords
<1>3. /\ larger \in SubjectRecords /\ larger.roles = Append(subject.roles, name)
      /\ larger.mfa = subject.mfa /\ larger.managed = subject.managed /\ larger.ip = subject.ip
  BY <1>1, <1>2, Zenon DEF SubjectRecords
<1> HIDE DEF larger
<1>4. \A i \in DOMAIN subject.roles : i \in DOMAIN larger.roles /\ larger.roles[i] = subject.roles[i]
  BY <1>2, <1>3
<1>5. \A r : EvaluateRoleAbac(r, larger) = EvaluateRoleAbac(r, subject)
  BY <1>3, Zenon DEF EvaluateRoleAbac
<1>6. \A i \in Matching(subject, device, requested) :
        i \in Matching(larger, device, requested) /\ RoleAt(larger, i) = RoleAt(subject, i)
  BY <1>4, <1>5, Zenon DEF Matching, Fitting, Acting, Assigned, RoleAt
<1>7. fewer \subseteq more
  BY <1>6, Zenon DEF Granting
<1>8. more \in SUBSET RoleRecords
  BY <1>1, <1>3, MatchingTypes, Zenon
<1>9. /\ before.allowed <=> (requested = Control => ~ControlHeld(device)) /\ fewer # {}
      /\ before.allowed => GrantsAll(before.actions, before.restrictions, fewer)
  BY <1>1, EvaluateMeans, Zenon
<1>10. /\ after.allowed <=> (requested = Control => ~ControlHeld(device)) /\ more # {}
       /\ after.allowed => GrantsAll(after.actions, after.restrictions, more)
  BY <1>1, <1>3, EvaluateMeans, Zenon
<1> HIDE DEF before, after, fewer, more
<1>11. before.allowed => after.allowed /\ Within(before, after)
  BY <1>7, <1>8, <1>9, <1>10, FewerWithinMore, Zenon
<1> QED BY <1>11, Zenon DEF before, after, larger
----------------------------------------------------------------------------
(* The service *)

Grants == [actions : SUBSET AllActions, restrictions : Restrictions]
SessionRecords ==
  [device : Devices, asked : AllActions, active : BOOLEAN, actions : SUBSET AllActions,
   restrictions : Restrictions, granted : Grants]

\* The inductive invariant: a push is compared with the policy before it only, so what bounds
\* it by the first grant is that the policy before it was within that grant.
PolicyInv ==
  /\ \A n \in DOMAIN roles : roles[n] \in RoleDefs /\ roles[n].name = n
  /\ sessions \in Seq(SessionRecords)
  /\ Len(sessions) <= MaxSessions /\ updates \in 0..MaxUpdates
  /\ \A i \in DOMAIN sessions : Within(sessions[i], sessions[i].granted)
  /\ ControlExclusiveWhenAsked

\* The invariant has the type invariant in it.
LEMMA InvTyped == PolicyInv => TypeOK
<1> SUFFICES ASSUME PolicyInv PROVE TypeOK
  BY Zenon
<1>1. \A s \in SessionRecords :
        /\ s.device \in Devices /\ s.asked \in AllActions /\ s.actions \subseteq AllActions
        /\ s.active \in BOOLEAN /\ s.restrictions \in Restrictions
  BY Zenon DEF SessionRecords
<1>2. \A i \in DOMAIN sessions : sessions[i] \in SessionRecords
  BY DEF PolicyInv
<1> QED BY <1>1, <1>2, Zenon DEF PolicyInv, TypeOK

\* What a request is granted is made of known actions and limits.
LEMMA GrantTyped ==
  ASSUME PolicyInv, NEW subject \in Subjects, NEW device \in Devices, NEW requested \in AllActions,
         Evaluate(subject, device, requested).allowed
  PROVE  LET decision == Evaluate(subject, device, requested) IN
         /\ decision.actions \in SUBSET AllActions /\ decision.restrictions \in Restrictions
         /\ requested = Control => ~ControlHeld(device)
<1> DEFINE decision == Evaluate(subject, device, requested)
           granting == Granting(subject, device, requested)
<1>1. RolesOK /\ subject \in SubjectRecords
  BY RolesTyped, InvTyped, PolicyAssumption, Zenon
<1>2. granting \in SUBSET RoleRecords
  BY <1>1, MatchingTypes, Zenon
<1>3. /\ requested = Control => ~ControlHeld(device)
      /\ GrantsAll(decision.actions, decision.restrictions, granting)
  BY <1>1, EvaluateMeans, Zenon
<1> HIDE DEF decision, granting
<1>4. decision.actions \in SUBSET AllActions
  <2>1. decision.actions = UNION {r.allowed_actions : r \in granting}
    BY <1>3, Zenon DEF GrantsAll
  <2>2. \A r \in granting : r.allowed_actions \in SUBSET AllActions
    BY <1>2, RoleTypes, Zenon
  <2> QED BY <2>1, <2>2, Zenon
<1>5. decision.restrictions \in Restrictions
  BY <1>3, Zenon DEF GrantsAll
<1> QED BY <1>3, <1>4, <1>5, Zenon DEF decision

\* A new session is within its grant, and holds desktop.control beside no other when it asked for it.
LEMMA RequestKeeps ==
  ASSUME PolicyInv, NEW subject \in Subjects, NEW device \in Devices, NEW requested \in AllActions,
         Request(subject, device, requested)
  PROVE  PolicyInv'
<1> DEFINE decision == Evaluate(subject, device, requested)
           grant == [actions |-> decision.actions, restrictions |-> decision.restrictions]
           session == [device |-> device, asked |-> requested, active |-> TRUE,
                       actions |-> decision.actions, restrictions |-> decision.restrictions,
                       granted |-> grant]
<1>1. /\ sessions' = Append(sessions, session) /\ Len(sessions) < MaxSessions
      /\ roles' = roles /\ updates' = updates /\ decision.allowed
  BY Zenon DEF Request
<1>2. /\ decision.actions \in SUBSET AllActions /\ decision.restrictions \in Restrictions
      /\ requested = Control => ~ControlHeld(device)
  BY <1>1, GrantTyped, Zenon
<1> HIDE DEF decision
<1>3. session \in SessionRecords
  BY <1>2, Zenon DEF SessionRecords, Grants
<1>4. Within(session, session.granted)
  <2>1. Within(grant, grant)
    BY <1>2, WithinReflexive
  <2>2. /\ session.actions = grant.actions /\ session.restrictions = grant.restrictions
        /\ session.granted = grant
    BY Zenon
  <2> HIDE DEF grant, session
  <2> QED BY <2>1, <2>2, Zenon DEF Within
<1>5. session.device = device /\ session.asked = requested
  BY Zenon
<1> HIDE DEF session
<1>6. sessions \in Seq(SessionRecords) /\ MaxSessions \in Nat
  BY PolicyAssumption, Zenon DEF PolicyInv
<1>7. /\ sessions' \in Seq(SessionRecords) /\ Len(sessions') = Len(sessions) + 1
      /\ \A i \in DOMAIN sessions : sessions'[i] = sessions[i] /\ i \in 1..Len(sessions)
      /\ sessions'[Len(sessions) + 1] = session
      /\ DOMAIN sessions' = DOMAIN sessions \union {Len(sessions) + 1}
  BY <1>1, <1>3, <1>6
<1>8. \A i \in DOMAIN sessions' : Within(sessions'[i], sessions'[i].granted)
  BY <1>4, <1>7, Zenon DEF PolicyInv
<1>9. ControlExclusiveWhenAsked'
  <2> SUFFICES ASSUME NEW i \in DOMAIN sessions', NEW j \in DOMAIN sessions', i < j,
                      sessions'[i].device = sessions'[j].device, sessions'[i].active, sessions'[j].active,
                      Control \in sessions'[i].actions \intersect sessions'[j].actions
               PROVE  sessions'[j].asked # Control
    BY Zenon DEF ControlExclusiveWhenAsked
  <2>1. i \in DOMAIN sessions
    BY <1>6, <1>7
  <2>2. CASE j \in DOMAIN sessions
    BY <1>7, <2>1, <2>2 DEF PolicyInv, ControlExclusiveWhenAsked
  <2>3. CASE j = Len(sessions) + 1
    <3>1. ControlHeld(device)
      BY <1>5, <1>7, <2>1, <2>3, Zenon DEF ControlHeld
    <3> QED BY <1>2, <1>5, <1>7, <2>3, <3>1, Zenon
  <2> QED BY <1>7, <2>2, <2>3, Zenon
<1>10. Len(sessions') <= MaxSessions /\ updates' \in 0..MaxUpdates
  BY <1>1, <1>6, <1>7 DEF PolicyInv
<1> QED BY <1>1, <1>7, <1>8, <1>9, <1>10, Zenon DEF PolicyInv
\* A session that is changed, stays within its grant and gains neither activity nor actions
\* keeps the invariant.
LEMMA ChangeKeeps ==
  ASSUME PolicyInv, NEW i \in DOMAIN sessions, NEW session \in SessionRecords,
         sessions' = [sessions EXCEPT ![i] = session], roles' = roles, updates' \in 0..MaxUpdates,
         session.device = sessions[i].device, session.asked = sessions[i].asked,
         session.active => sessions[i].active, session.actions \subseteq sessions[i].actions,
         Within(session, session.granted)
  PROVE  PolicyInv'
<1>1. sessions \in Seq(SessionRecords)
  BY Zenon DEF PolicyInv
<1>2. /\ sessions' \in Seq(SessionRecords) /\ Len(sessions') = Len(sessions)
      /\ DOMAIN sessions' = DOMAIN sessions
      /\ \A j \in DOMAIN sessions : sessions'[j] = IF j = i THEN session ELSE sessions[j]
  BY <1>1
<1>3. \A j \in DOMAIN sessions' : Within(sessions'[j], sessions'[j].granted)
  BY <1>2, Zenon DEF PolicyInv
<1>4. \A j \in DOMAIN sessions :
        /\ sessions'[j].device = sessions[j].device /\ sessions'[j].asked = sessions[j].asked
        /\ sessions'[j].active => sessions[j].active
        /\ sessions'[j].actions \subseteq sessions[j].actions
  BY <1>2, Zenon
<1>5. ControlExclusiveWhenAsked'
  BY <1>2, <1>4 DEF PolicyInv, ControlExclusiveWhenAsked
<1> QED BY <1>2, <1>3, <1>5, Zenon DEF PolicyInv

\* A pushed policy that narrows the session keeps it within its first grant.
LEMMA PushPolicyKeeps ==
  ASSUME PolicyInv, NEW i \in DOMAIN sessions, NEW proposal \in Proposals, PushPolicy(i, proposal)
  PROVE  PolicyInv'
<1> DEFINE old == sessions[i]
           session == [old EXCEPT !.actions = proposal.actions, !.restrictions = proposal.restrictions]
<1>1. old \in SessionRecords /\ proposal \in Grants
  <2>1. old \in SessionRecords
    BY DEF PolicyInv
  <2>2. proposal \in Grants
    BY PolicyAssumption, Zenon DEF Grants
  <2> QED BY <2>1, <2>2, Zenon
<1>2. /\ old.restrictions \in Restrictions /\ old.granted \in Grants
      /\ old.granted.restrictions \in Restrictions
      /\ proposal.actions \in SUBSET AllActions /\ proposal.restrictions \in Restrictions
  BY <1>1, Zenon DEF SessionRecords, Grants
<1>3. /\ session \in SessionRecords
      /\ session.device = old.device /\ session.asked = old.asked /\ session.active = old.active
      /\ session.granted = old.granted
      /\ session.actions = proposal.actions /\ session.restrictions = proposal.restrictions
  BY <1>1, <1>2, Zenon DEF SessionRecords
<1>4. /\ sessions' = [sessions EXCEPT ![i] = session] /\ roles' = roles
      /\ ValidNarrowing(old, proposal) /\ updates < MaxUpdates /\ updates' = updates + 1
  BY Zenon DEF PushPolicy
<1>5. updates' \in 0..MaxUpdates
  BY <1>4, PolicyAssumption DEF PolicyInv
<1>6. Within(old, old.granted)
  BY Zenon DEF PolicyInv
<1>7. proposal.actions \subseteq old.actions
  BY <1>4, Zenon DEF ValidNarrowing
<1> HIDE DEF session, old
<1>8. Within(proposal, old)
  BY <1>2, <1>4, NarrowingIsWithin, Zenon
<1>9. Within(proposal, old.granted)
  BY <1>2, <1>6, <1>8, WithinTransitive, Zenon
<1>10. Within(session, session.granted)
  BY <1>3, <1>9, Zenon DEF Within
<1> QED BY <1>3, <1>4, <1>5, <1>7, <1>10, ChangeKeeps, Zenon DEF old

\* An ended session keeps what it had.
LEMMA EndSessionKeeps ==
  ASSUME PolicyInv, NEW i \in DOMAIN sessions, EndSession(i)
  PROVE  PolicyInv'
<1> DEFINE old == sessions[i]
           session == [old EXCEPT !.active = FALSE]
<1>1. old \in SessionRecords
  BY DEF PolicyInv
<1>2. /\ session \in SessionRecords
      /\ session.device = old.device /\ session.asked = old.asked /\ session.active = FALSE
      /\ session.granted = old.granted
      /\ session.actions = old.actions /\ session.restrictions = old.restrictions
  BY <1>1, Zenon DEF SessionRecords
<1>3. /\ sessions' = [sessions EXCEPT ![i] = session] /\ roles' = roles
      /\ updates' = updates /\ updates \in 0..MaxUpdates
  BY Zenon DEF EndSession, PolicyInv
<1>4. Within(old, old.granted)
  BY Zenon DEF PolicyInv
<1> HIDE DEF session, old
<1>5. Within(session, session.granted)
  BY <1>2, <1>4, Zenon DEF Within
<1> QED BY <1>2, <1>3, <1>5, ChangeKeeps, Zenon DEF old

\* Adding or replacing a role touches no session.
LEMMA AddRoleKeeps ==
  ASSUME PolicyInv, NEW role \in RoleDefs, AddRole(role)
  PROVE  PolicyInv'
<1>1. \A n \in DOMAIN roles' : roles'[n] \in RoleDefs /\ roles'[n].name = n
  BY Zenon DEF AddRole, PolicyInv
<1>2. updates' \in 0..MaxUpdates /\ sessions' = sessions
  BY PolicyAssumption DEF AddRole, PolicyInv
<1> QED BY <1>1, <1>2, Zenon DEF PolicyInv, ControlExclusiveWhenAsked

\* The invariant holds of every reachable state of the service.
THEOREM PolicyAlways == Spec => []PolicyInv
<1>1. Init => PolicyInv
  BY PolicyAssumption DEF Init, PolicyInv, ControlExclusiveWhenAsked
<1>2. PolicyInv /\ [Next]_vars => PolicyInv'
  <2> SUFFICES ASSUME PolicyInv, [Next]_vars PROVE PolicyInv'
    BY Zenon
  <2>1. ASSUME NEW role \in RoleDefs, AddRole(role) PROVE PolicyInv'
    BY <2>1, AddRoleKeeps, Zenon
  <2>2. ASSUME NEW subject \in Subjects, NEW device \in Devices, NEW requested \in AllActions,
               Request(subject, device, requested)
        PROVE  PolicyInv'
    BY <2>2, RequestKeeps, Zenon
  <2>3. ASSUME NEW i \in DOMAIN sessions, NEW proposal \in Proposals, PushPolicy(i, proposal)
        PROVE  PolicyInv'
    BY <2>3, PushPolicyKeeps, Zenon
  <2>4. ASSUME NEW i \in DOMAIN sessions, EndSession(i) PROVE PolicyInv'
    BY <2>4, EndSessionKeeps, Zenon
  <2>5. CASE UNCHANGED vars
    BY <2>5, Zenon DEF vars, PolicyInv, ControlExclusiveWhenAsked
  <2> QED BY <2>1, <2>2, <2>3, <2>4, <2>5, Zenon DEF Next
<1> QED BY <1>1, <1>2, PTL DEF Spec

\* In every reachable state evaluate decides by the roles that entitle the subject alone, and
\* one more role never makes it grant less.
THEOREM DecisionsSoundHolds == Spec => []DecisionsSound
<1>1. PolicyInv => DecisionsSound
  BY InvTyped, DecidedByEntitlement, MoreRolesKeep, Zenon DEF DecisionsSound
<1> QED BY <1>1, PolicyAlways, PTL

\* A request of desktop.control is never granted beside an active session that holds it.
THEOREM ControlExclusiveHolds == Spec => []ControlExclusiveWhenAsked
<1>1. PolicyInv => ControlExclusiveWhenAsked
  BY Zenon DEF PolicyInv
<1> QED BY <1>1, PolicyAlways, PTL

\* No sequence of policies that validate_policy_narrowing accepts takes a session beyond its
\* first grant.
THEOREM NeverEscalatesHolds == Spec => []NeverEscalates
<1>1. PolicyInv => NeverEscalates
  BY InvTyped, Zenon DEF PolicyInv, NeverEscalates
<1> QED BY <1>1, PolicyAlways, PTL
=============================================================================
