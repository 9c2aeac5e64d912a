-------------------------- MODULE ProbePermits_proofs --------------------------
(***************************************************************************)
(* Proofs about ProbePermits, for every set of addresses, rules and lease  *)
(* identifiers and every length of the durations that PermitAssumption     *)
(* allows: type correctness, the inductive invariant, the spacing of       *)
(* third-party emissions, the rate ceilings, the overlap of self-checks,   *)
(* and that the permit path implements GovernedProbing.                    *)
(***************************************************************************)
EXTENDS ProbePermits, FiniteSetTheorems, TLAPS

USE RuleAssumption, ParameterAssumption, PermitAssumption

-----------------------------------------------------------------------------
(* Type correctness.                                                       *)

LEMMA KeyOfType ==
  ASSUME NEW s \in Scope, NEW ip \in Addr, NEW asn \in AnyAsn
  PROVE  KeyOf(s, ip, asn) \in RateKey
BY DEF KeyOf, RateKey

LEMMA RatePolicyType ==
  ASSUME NEW p \in Purpose
  PROVE  RatePolicy(p) \subseteq Scope
BY DEF RatePolicy, Purpose, Scope

LEMMA GrantType ==
  ASSUME TypeOK, NEW l \in LeaseId, NEW ip \in Addr, NEW asn \in AnyAsn,
         NEW purpose \in Purpose, Grant(l, ip, asn, purpose),
         nominations' \subseteq Nomination
  PROVE  TypeOK'
<1>1. now \in Nat /\ Cooldown \in Nat /\ PermitTtl \in Nat
  BY DEF TypeOK
<1>2. NextEligible(purpose) \in Nat
  BY <1>1 DEF NextEligible
<1>3. attempts' \subseteq Attempt
  BY <1>1, <1>2 DEF Grant, TypeOK, Attempt, AttemptLease
<1>4. permits' \subseteq Permit
  BY <1>1 DEF Grant, TypeOK, Permit
<1>5. rateEvents' \subseteq RateEvent
  <2>1. ASSUME NEW s \in RatePolicy(purpose)
        PROVE  [lease |-> l, scope |-> s, key |-> KeyOf(s, ip, asn), at |-> now]
                 \in RateEvent
    BY <1>1, RatePolicyType, KeyOfType DEF RateEvent
  <2>2. QED
    BY <2>1 DEF Grant, TypeOK
<1>6. granted' \subseteq ProbeRecord
  BY <1>1 DEF Grant, TypeOK, ProbeRecord
<1>7. QED
  BY <1>3, <1>4, <1>5, <1>6 DEF Grant, TypeOK

(* What a state change leaves of an attempt row. *)
LEMMA MovedAttempt ==
  ASSUME NEW a \in Attempt, now \in Nat,
         NEW s \in {"acquired", "emitted", "complete"}
  PROVE  /\ Moved(a, s) \in Attempt
         /\ Moved(a, s).ip = a.ip /\ Moved(a, s).purpose = a.purpose
         /\ Moved(a, s).asn = a.asn /\ Moved(a, s).lease = a.lease
         /\ Moved(a, s).last = a.last /\ Moved(a, s).next = a.next
         /\ Moved(a, s).state = s /\ Moved(a, s).updated = now
BY DEF Moved, Attempt

LEMMA TypeStep == TypeOK /\ [Next]_vars => TypeOK'
<1> SUFFICES ASSUME TypeOK, [Next]_vars PROVE TypeOK'
  OBVIOUS
<1>1. CASE Tick
  BY <1>1 DEF Tick, TypeOK
<1>2. ASSUME NEW id \in NominationId, NEW ip \in Addr, NEW asn \in Asn,
             NEW at \in 0 .. now, CreateNomination(id, ip, asn, at)
      PROVE  TypeOK'
  BY <1>2 DEF CreateNomination, TypeOK, Nomination
<1>3. ASSUME NEW r \in Rule, AddExclusion(r)
      PROVE  TypeOK'
  BY <1>3 DEF AddExclusion, TypeOK
<1>4. ASSUME NEW r \in exclusions, NEW page \in SUBSET attempts,
             PurgeAttempts(r, page)
      PROVE  TypeOK'
  BY <1>4 DEF PurgeAttempts, TypeOK
<1>5. ASSUME NEW ip \in Addr, NEW asn \in AnyAsn, NEW at \in LegacyTimes,
             ImportAttempt(ip, asn, at)
      PROVE  TypeOK'
  <2>1. at \in Nat /\ at + Cooldown \in Nat
    OBVIOUS
  <2>2. attempts' \subseteq Attempt
    BY <1>5, <2>1 DEF ImportAttempt, TypeOK, Attempt, AttemptLease, Purpose
  <2>3. QED
    BY <1>5, <2>2 DEF ImportAttempt, TypeOK
<1>6. ASSUME NEW l \in LeaseId, NEW n \in nominations, AcquireDiscovery(l, n)
      PROVE  TypeOK'
  <2>1. n \in Nomination
    BY DEF TypeOK
  <2>2. nominations' \subseteq Nomination
    BY <1>6, <2>1 DEF AcquireDiscovery, TypeOK, Nomination
  <2>3. n.ip \in Addr /\ n.asn \in AnyAsn /\ "active_discovery" \in Purpose
    BY <2>1 DEF Nomination, AnyAsn, Purpose
  <2>4. QED
    BY <1>6, <2>2, <2>3, GrantType DEF AcquireDiscovery
<1>7. ASSUME NEW l \in LeaseId, NEW ip \in HostedCallers, NEW asn \in AnyAsn,
             AcquireHosted(l, ip, asn)
      PROVE  TypeOK'
  <2>1. ip \in Addr /\ "hosted_self" \in Purpose
    BY DEF Purpose
  <2>2. nominations' \subseteq Nomination
    BY <1>7 DEF AcquireHosted, TypeOK
  <2>3. QED
    BY <1>7, <2>1, <2>2, GrantType DEF AcquireHosted
<1>8. ASSUME NEW l \in LeaseId, NEW ip \in CanaryTargets, NEW asn \in AnyAsn,
             AcquireCanary(l, ip, asn)
      PROVE  TypeOK'
  <2>1. ip \in Addr /\ "owned_canary" \in Purpose
    BY DEF Purpose
  <2>2. nominations' \subseteq Nomination
    BY <1>8 DEF AcquireCanary, TypeOK
  <2>3. QED
    BY <1>8, <2>1, <2>2, GrantType DEF AcquireCanary
<1>9. ASSUME NEW p \in permits, NEW expected \in Purpose,
             ConsumePermit(p, expected)
      PROVE  TypeOK'
  <2>1. p \in Permit
    BY DEF TypeOK
  <2>2. p.remaining >= 1
    BY <1>9 DEF ConsumePermit, Consumable
  <2>3. Spend(p) \in Permit
    BY <2>1, <2>2 DEF Spend, Permit
  <2>4. permits' \subseteq Permit
    BY <1>9, <2>1, <2>3 DEF ConsumePermit, TypeOK
  <2>5. attempts' \subseteq Attempt
    BY <1>9, MovedAttempt DEF ConsumePermit, TypeOK
  <2>6. emissions' \subseteq ProbeRecord
    BY <1>9, <2>1 DEF ConsumePermit, TypeOK, Permit, ProbeRecord
  <2>7. QED
    BY <1>9, <2>4, <2>5, <2>6 DEF ConsumePermit, TypeOK
<1>10. ASSUME NEW l \in LeaseId, NEW expected \in Purpose,
              CompleteLease(l, expected)
       PROVE  TypeOK'
  <2>1. attempts' \subseteq Attempt
    BY <1>10, MovedAttempt DEF CompleteLease, TypeOK
  <2>2. QED
    BY <1>10, <2>1 DEF CompleteLease, TypeOK
<1>11. CASE RunRetention
  BY <1>11 DEF RunRetention, TypeOK
<1>12. CASE UNCHANGED vars
  BY <1>12 DEF vars, TypeOK
<1>13. QED
  BY <1>1, <1>2, <1>3, <1>4, <1>5, <1>6, <1>7, <1>8, <1>9, <1>10, <1>11, <1>12
  DEF Next

(* Every table keeps rows of its type, whatever the calls. *)
THEOREM TypeCorrect == Spec => []TypeOK
<1>1. Init => TypeOK
  BY DEF Init, TypeOK
<1>2. QED
  BY <1>1, TypeStep, PTL DEF Spec

-----------------------------------------------------------------------------
(* The inductive invariant.                                                *)

(* A grant adds one record, one open row and one permit; the only cooldown  *)
(* it can overwrite is one that is over.                                   *)
LEMMA GrantInvariant ==
  ASSUME CooldownInv, TypeOK', NEW l \in LeaseId, NEW ip \in Addr, NEW asn \in AnyAsn,
         NEW purpose \in Purpose, Grant(l, ip, asn, purpose),
         purpose = "active_discovery" =>
           CooledDown(ip) /\ AsnRules(exclusions) = {}
  PROVE  CooldownInv'
<1> DEFINE row == [ip |-> ip, purpose |-> purpose, asn |-> asn, lease |-> l,
                   state |-> "acquired", last |-> now,
                   next |-> NextEligible(purpose), updated |-> now]
           new == [lease |-> l, ip |-> ip, asn |-> asn, purpose |-> purpose,
                   at |-> now]
<1>1. /\ now \in Nat /\ now' = now /\ exclusions' = exclusions
      /\ emissions' = emissions
      /\ granted' = granted \cup {new}
      /\ attempts' = {a \in attempts : ~(a.ip = ip /\ a.purpose = purpose)}
                       \cup {row}
      /\ \A g \in granted : g.lease # l
  BY DEF CooldownInv, TypeOK, Grant, Leases
<1>2. \A a \in attempts : a \in Attempt
  BY DEF CooldownInv, TypeOK
<1>3. \A g \in granted : g \in ProbeRecord
  BY DEF CooldownInv, TypeOK
<1>4. NextEligible(purpose) \in Nat /\ NextEligible(purpose) <= now + Cooldown
  BY <1>1 DEF NextEligible
<1>5. AttemptClock'
  BY <1>1, <1>2, <1>4 DEF CooldownInv, AttemptClock
<1>6. CooldownHeld'
  <2>1. SUFFICES ASSUME NEW g \in granted', g.purpose = "active_discovery"
                 PROVE  \/ g.at + Cooldown <= now
                        \/ Barred(g.ip)
                        \/ \E a \in attempts' :
                             /\ a.ip = g.ip
                             /\ a.purpose = "active_discovery"
                             /\ g.at + Cooldown <= a.next
    BY <1>1 DEF CooldownHeld, Barred
  <2>2. CASE g = new
    <3>1. purpose = "active_discovery" /\ g.ip = ip /\ g.at = now
      BY <2>1, <2>2
    <3>2. NextEligible(purpose) = now + Cooldown
      BY <3>1 DEF NextEligible
    <3>3. /\ row \in attempts'
          /\ row.ip = g.ip
          /\ row.purpose = "active_discovery"
          /\ row.next = now + Cooldown
      BY <1>1, <3>1, <3>2
    <3>4. g.at + Cooldown <= row.next
      BY <1>1, <3>1, <3>3
    <3>5. QED
      BY <3>3, <3>4
  <2>3. CASE g \in granted
    <3>1. \/ g.at + Cooldown <= now
          \/ Barred(g.ip)
          \/ \E a \in attempts : /\ a.ip = g.ip
                                 /\ a.purpose = "active_discovery"
                                 /\ g.at + Cooldown <= a.next
      BY <2>1, <2>3 DEF CooldownInv, CooldownHeld
    <3>2. ASSUME NEW a \in attempts, a.ip = g.ip,
                 a.purpose = "active_discovery", g.at + Cooldown <= a.next
          PROVE  g.at + Cooldown <= now \/ a \in attempts'
      <4>1. CASE a.ip = ip /\ a.purpose = purpose
        <5>1. a.next <= now
          BY <3>2, <4>1 DEF CooledDown
        <5>2. QED
          BY <1>1, <1>2, <1>3, <2>3, <3>2, <5>1 DEF Attempt, ProbeRecord
      <4>2. CASE ~(a.ip = ip /\ a.purpose = purpose)
        BY <1>1, <4>2
      <4>3. QED
        BY <4>1, <4>2
    <3>3. QED
      BY <3>1, <3>2
  <2>4. QED
    BY <1>1, <2>2, <2>3
<1>7. GrantsOnce' /\ GrantsPast'
  BY <1>1, <1>3 DEF CooldownInv, GrantsOnce, GrantsPast
<1>8. GrantSpacing'
  <2>1. ASSUME NEW g \in granted, g.ip = ip, g.purpose = "active_discovery",
               purpose = "active_discovery"
        PROVE  g.at + Cooldown <= now
    <3>1. ~Barred(ip)
      BY <2>1 DEF Barred, Grant, IsExcluded, RuleMatches
    <3>2. CASE \E a \in attempts : /\ a.ip = g.ip
                                   /\ a.purpose = "active_discovery"
                                   /\ g.at + Cooldown <= a.next
      <4>1. PICK a \in attempts : /\ a.ip = g.ip
                                  /\ a.purpose = "active_discovery"
                                  /\ g.at + Cooldown <= a.next
        BY <3>2
      <4>2. a.next <= now
        BY <2>1, <4>1 DEF CooledDown
      <4>3. QED
        BY <1>1, <1>2, <1>3, <4>1, <4>2 DEF Attempt, ProbeRecord
    <3>3. QED
      BY <2>1, <3>1, <3>2 DEF CooldownInv, CooldownHeld
  <2>2. SUFFICES ASSUME NEW g \in granted', NEW h \in granted',
                        g.purpose = "active_discovery",
                        h.purpose = "active_discovery",
                        g.ip = h.ip, g.lease # h.lease
                 PROVE  g.at + Cooldown <= h.at \/ h.at + Cooldown <= g.at
    BY DEF GrantSpacing
  <2>3. CASE g \in granted /\ h \in granted
    BY <2>2, <2>3 DEF CooldownInv, GrantSpacing
  <2>4. CASE g \in granted /\ h = new
    BY <2>1, <2>2, <2>4
  <2>5. CASE g = new /\ h \in granted
    BY <2>1, <2>2, <2>5
  <2>6. QED
    BY <1>1, <2>2, <2>3, <2>4, <2>5
<1>9. PermitsGranted'
  <2>1. permits' = permits \cup
          {[lease |-> l, ip |-> ip, asn |-> asn, purpose |-> purpose,
            remaining |-> 1, expires |-> now + PermitTtl]}
    BY DEF Grant
  <2>2. SUFFICES ASSUME NEW p \in permits'
                 PROVE  \E g \in granted' :
                          /\ g.lease = p.lease /\ g.ip = p.ip
                          /\ g.asn = p.asn /\ g.purpose = p.purpose
                          /\ p.expires = g.at + PermitTtl
    BY DEF PermitsGranted
  <2>3. CASE p \in permits
    BY <1>1, <2>3 DEF CooldownInv, PermitsGranted
  <2>4. CASE p \notin permits
    <3>1. /\ new \in granted'
          /\ new.lease = p.lease /\ new.ip = p.ip
          /\ new.asn = p.asn /\ new.purpose = p.purpose
          /\ p.expires = new.at + PermitTtl
      BY <1>1, <2>1, <2>2, <2>4
    <3>2. QED
      BY <3>1
  <2>5. QED
    BY <2>3, <2>4
<1>10. EmissionsGranted'
  BY <1>1 DEF CooldownInv, EmissionsGranted
<1>11. SpentLeases'
  <2>1. \A e \in emissions : e.lease # l
    BY <1>1 DEF CooldownInv, EmissionsGranted
  <2>2. QED
    BY <1>1, <2>1 DEF CooldownInv, SpentLeases
<1>12. QED
  BY <1>5, <1>6, <1>7, <1>8, <1>9, <1>10, <1>11 DEF CooldownInv

(* Deleting attempt rows is harmless when what each asks for is over or is  *)
(* held by a rule. *)
LEMMA ForgetInvariant ==
  ASSUME CooldownInv, TypeOK', now' = now, exclusions' = exclusions,
         granted' = granted, emissions' = emissions,
         attempts' \subseteq attempts, permits' \subseteq permits,
         \A a \in attempts \ attempts' :
           a.purpose = "active_discovery" => a.next <= now \/ Barred(a.ip)
  PROVE  CooldownInv'
<1>1. \A a \in attempts : a \in Attempt
  BY DEF CooldownInv, TypeOK
<1>2. \A g \in granted : g \in ProbeRecord
  BY DEF CooldownInv, TypeOK
<1>3. now \in Nat
  BY DEF CooldownInv, TypeOK
<1>4. AttemptClock'
  BY DEF CooldownInv, AttemptClock
<1>5. CooldownHeld'
  <2>1. SUFFICES ASSUME NEW g \in granted, g.purpose = "active_discovery"
                 PROVE  \/ g.at + Cooldown <= now
                        \/ Barred(g.ip)
                        \/ \E a \in attempts' :
                             /\ a.ip = g.ip
                             /\ a.purpose = "active_discovery"
                             /\ g.at + Cooldown <= a.next
    BY DEF CooldownHeld, Barred
  <2>2. ASSUME NEW a \in attempts, a.ip = g.ip,
               a.purpose = "active_discovery", g.at + Cooldown <= a.next
        PROVE  \/ g.at + Cooldown <= now
               \/ Barred(g.ip)
               \/ a \in attempts'
    BY <1>1, <1>2, <1>3, <2>2 DEF Attempt, ProbeRecord
  <2>3. QED
    BY <2>1, <2>2 DEF CooldownInv, CooldownHeld
<1>6. GrantsOnce' /\ GrantsPast' /\ GrantSpacing' /\ EmissionsGranted'
  BY DEF CooldownInv, GrantsOnce, GrantsPast, GrantSpacing, EmissionsGranted
<1>7. PermitsGranted' /\ SpentLeases'
  BY DEF CooldownInv, PermitsGranted, SpentLeases
<1>8. QED
  BY <1>4, <1>5, <1>6, <1>7 DEF CooldownInv

LEMMA ImportInvariant ==
  ASSUME CooldownInv, TypeOK', NEW ip \in Addr, NEW asn \in AnyAsn,
         NEW at \in LegacyTimes, ImportAttempt(ip, asn, at)
  PROVE  CooldownInv'
<1> DEFINE row == [ip |-> ip, purpose |-> "active_discovery", asn |-> asn,
                   lease |-> LegacyLease(ip), state |-> "complete",
                   last |-> at, next |-> at + Cooldown, updated |-> at]
           prior == {a \in attempts :
                       a.ip = ip /\ a.purpose = "active_discovery"}
<1>1. /\ now' = now /\ exclusions' = exclusions /\ granted' = granted
      /\ emissions' = emissions /\ permits' = permits
      /\ attempts' = (attempts \ prior) \cup {row}
      /\ \A a \in prior : a.last < at
  BY DEF ImportAttempt
<1>2. at \in Nat /\ now \in Nat
  BY DEF CooldownInv, TypeOK
<1>3. \A a \in attempts : a \in Attempt
  BY DEF CooldownInv, TypeOK
<1>4. \A g \in granted : g \in ProbeRecord
  BY DEF CooldownInv, TypeOK
<1>5. LegacyLease(ip) \notin LeaseId
  OBVIOUS
<1>6. AttemptClock'
  BY <1>1, <1>2, <1>3, <1>5 DEF CooldownInv, AttemptClock
<1>7. CooldownHeld'
  <2>1. SUFFICES ASSUME NEW g \in granted, g.purpose = "active_discovery"
                 PROVE  \/ g.at + Cooldown <= now
                        \/ Barred(g.ip)
                        \/ \E a \in attempts' :
                             /\ a.ip = g.ip
                             /\ a.purpose = "active_discovery"
                             /\ g.at + Cooldown <= a.next
    BY <1>1 DEF CooldownHeld, Barred
  <2>2. ASSUME NEW a \in attempts, a.ip = g.ip,
               a.purpose = "active_discovery", g.at + Cooldown <= a.next
        PROVE  \E b \in attempts' : /\ b.ip = g.ip
                                    /\ b.purpose = "active_discovery"
                                    /\ g.at + Cooldown <= b.next
    <3>1. CASE a \in prior
      <4>1. a.next <= a.last + Cooldown /\ a.last < at
        BY <1>1, <3>1 DEF CooldownInv, AttemptClock
      <4>2. g.at + Cooldown <= row.next
        BY <1>2, <1>3, <1>4, <2>2, <4>1 DEF Attempt, ProbeRecord
      <4>3. row \in attempts' /\ row.ip = g.ip
            /\ row.purpose = "active_discovery"
        BY <1>1, <2>2, <3>1
      <4>4. QED
        BY <4>2, <4>3
    <3>2. CASE a \notin prior
      BY <1>1, <2>2, <3>2
    <3>3. QED
      BY <3>1, <3>2
  <2>3. QED
    BY <2>1, <2>2 DEF CooldownInv, CooldownHeld
<1>8. /\ GrantsOnce' /\ GrantsPast' /\ GrantSpacing' /\ EmissionsGranted'
      /\ PermitsGranted'
  BY <1>1 DEF CooldownInv, GrantsOnce, GrantsPast, GrantSpacing, EmissionsGranted,
              PermitsGranted
<1>9. SpentLeases'
  BY <1>1 DEF CooldownInv, SpentLeases
<1>10. QED
  BY <1>6, <1>7, <1>8, <1>9 DEF CooldownInv

(* A lease moving on keeps every wait it asks for. *)
LEMMA MoveInvariant ==
  ASSUME CooldownInv, TypeOK', NEW l \in LeaseId, NEW s \in {"emitted", "complete"},
         now' = now, exclusions' = exclusions, granted' = granted,
         attempts' = {IF a.lease = l THEN Moved(a, s) ELSE a : a \in attempts}
  PROVE  AttemptClock' /\ CooldownHeld'
<1>1. \A a \in attempts : a \in Attempt
  BY DEF CooldownInv, TypeOK
<1>2. now \in Nat
  BY DEF CooldownInv, TypeOK
<1>3. ASSUME NEW a \in attempts, a.lease = l
      PROVE  /\ Moved(a, s).ip = a.ip /\ Moved(a, s).purpose = a.purpose
             /\ Moved(a, s).last = a.last /\ Moved(a, s).next = a.next
             /\ Moved(a, s).lease = l /\ Moved(a, s).updated = now
  BY <1>1, <1>2, <1>3, MovedAttempt
<1>4. AttemptClock'
  <2>1. SUFFICES ASSUME NEW b \in attempts'
                 PROVE  /\ b.next <= b.last + Cooldown
                        /\ b.last <= b.updated
                        /\ b.lease \in LeaseId => b.last <= now
    BY DEF AttemptClock
  <2>2. PICK a \in attempts : b = IF a.lease = l THEN Moved(a, s) ELSE a
    BY <2>1
  <2>3. CASE a.lease = l
    BY <1>3, <2>2, <2>3 DEF CooldownInv, AttemptClock
  <2>4. CASE a.lease # l
    BY <2>2, <2>4 DEF CooldownInv, AttemptClock
  <2>5. QED
    BY <2>3, <2>4
<1>5. CooldownHeld'
  <2>1. SUFFICES ASSUME NEW g \in granted, g.purpose = "active_discovery"
                 PROVE  \/ g.at + Cooldown <= now
                        \/ Barred(g.ip)
                        \/ \E a \in attempts' :
                             /\ a.ip = g.ip
                             /\ a.purpose = "active_discovery"
                             /\ g.at + Cooldown <= a.next
    BY DEF CooldownHeld, Barred
  <2>2. ASSUME NEW a \in attempts, a.ip = g.ip,
               a.purpose = "active_discovery", g.at + Cooldown <= a.next
        PROVE  \E b \in attempts' : /\ b.ip = g.ip
                                    /\ b.purpose = "active_discovery"
                                    /\ g.at + Cooldown <= b.next
    <3>1. CASE a.lease = l
      <4>1. Moved(a, s) \in attempts'
        BY <3>1
      <4>2. QED
        BY <1>3, <2>2, <3>1, <4>1
    <3>2. CASE a.lease # l
      <4>1. a \in attempts'
        BY <3>2
      <4>2. QED
        BY <2>2, <4>1
    <3>3. QED
      BY <3>1, <3>2
  <2>3. QED
    BY <2>1, <2>2 DEF CooldownInv, CooldownHeld
<1>6. QED
  BY <1>4, <1>5

LEMMA ConsumeInvariant ==
  ASSUME CooldownInv, TypeOK', NEW p \in permits, NEW expected \in Purpose,
         ConsumePermit(p, expected)
  PROVE  CooldownInv'
<1> DEFINE packet == [lease |-> p.lease, ip |-> p.ip, asn |-> p.asn,
                      purpose |-> p.purpose, at |-> now]
<1>1. /\ now' = now /\ exclusions' = exclusions /\ granted' = granted
      /\ emissions' = emissions \cup {packet}
      /\ permits' = (permits \ {p}) \cup {Spend(p)}
      /\ attempts' = {IF a.lease = p.lease THEN Moved(a, "emitted") ELSE a :
                        a \in attempts}
      /\ p.expires >= now
  BY DEF ConsumePermit, Consumable
<1>2. p \in Permit /\ now \in Nat /\ \A a \in attempts : a \in Attempt
  BY DEF CooldownInv, TypeOK
<1>3. p.lease \in LeaseId
  BY <1>2 DEF Permit
<1>4. AttemptClock' /\ CooldownHeld'
  BY <1>1, <1>3, MoveInvariant
<1>5. GrantsOnce' /\ GrantsPast' /\ GrantSpacing'
  BY <1>1 DEF CooldownInv, GrantsOnce, GrantsPast, GrantSpacing
<1>6. PermitsGranted'
  <2>1. /\ Spend(p).lease = p.lease /\ Spend(p).ip = p.ip
        /\ Spend(p).asn = p.asn /\ Spend(p).purpose = p.purpose
        /\ Spend(p).expires = p.expires
    BY DEF Spend
  <2>2. QED
    BY <1>1, <2>1 DEF CooldownInv, PermitsGranted
<1>7. EmissionsGranted'
  <2>1. PICK g \in granted : /\ g.lease = p.lease /\ g.ip = p.ip
                             /\ g.purpose = p.purpose
                             /\ p.expires = g.at + PermitTtl
    BY DEF CooldownInv, PermitsGranted
  <2>2. g.at <= now /\ now <= g.at + PermitTtl
    BY <1>1, <1>2, <2>1 DEF CooldownInv, GrantsPast, TypeOK, ProbeRecord, Permit
  <2>3. /\ g.lease = packet.lease /\ g.ip = packet.ip
        /\ g.purpose = packet.purpose
        /\ g.at <= packet.at /\ packet.at <= g.at + PermitTtl
    BY <2>1, <2>2
  <2>4. QED
    BY <1>1, <2>3 DEF CooldownInv, EmissionsGranted
<1>8. SpentLeases'
  <2>1. SUFFICES ASSUME NEW e \in emissions', NEW b \in attempts',
                        b.lease = e.lease
                 PROVE  b.state # "acquired"
    BY DEF SpentLeases
  <2>2. PICK a \in attempts :
          b = IF a.lease = p.lease THEN Moved(a, "emitted") ELSE a
    BY <1>1, <2>1
  <2>3. CASE a.lease = p.lease
    BY <1>2, <2>2, <2>3, MovedAttempt
  <2>4. CASE a.lease # p.lease
    BY <1>1, <2>1, <2>2, <2>4 DEF CooldownInv, SpentLeases
  <2>5. QED
    BY <2>3, <2>4
<1>9. QED
  BY <1>4, <1>5, <1>6, <1>7, <1>8 DEF CooldownInv

LEMMA CompleteInvariant ==
  ASSUME CooldownInv, TypeOK', NEW l \in LeaseId, NEW expected \in Purpose,
         CompleteLease(l, expected)
  PROVE  CooldownInv'
<1>1. /\ now' = now /\ exclusions' = exclusions /\ granted' = granted
      /\ emissions' = emissions /\ permits' = permits
      /\ attempts' = {IF a.lease = l THEN Moved(a, "complete") ELSE a :
                        a \in attempts}
  BY DEF CompleteLease
<1>2. now \in Nat /\ \A a \in attempts : a \in Attempt
  BY DEF CooldownInv, TypeOK
<1>3. AttemptClock' /\ CooldownHeld'
  BY <1>1, MoveInvariant
<1>4. /\ GrantsOnce' /\ GrantsPast' /\ GrantSpacing' /\ PermitsGranted'
      /\ EmissionsGranted'
  BY <1>1 DEF CooldownInv, GrantsOnce, GrantsPast, GrantSpacing, PermitsGranted,
              EmissionsGranted
<1>5. SpentLeases'
  <2>1. SUFFICES ASSUME NEW e \in emissions, NEW b \in attempts',
                        b.lease = e.lease
                 PROVE  b.state # "acquired"
    BY <1>1 DEF SpentLeases
  <2>2. PICK a \in attempts :
          b = IF a.lease = l THEN Moved(a, "complete") ELSE a
    BY <1>1, <2>1
  <2>3. CASE a.lease = l
    BY <1>2, <2>2, <2>3, MovedAttempt
  <2>4. CASE a.lease # l
    BY <2>1, <2>2, <2>4 DEF CooldownInv, SpentLeases
  <2>5. QED
    BY <2>3, <2>4
<1>6. QED
  BY <1>3, <1>4, <1>5 DEF CooldownInv

LEMMA InvariantStep == CooldownInv /\ [Next]_vars => CooldownInv'
<1> SUFFICES ASSUME CooldownInv, [Next]_vars PROVE CooldownInv'
  OBVIOUS
<1>1. TypeOK'
  BY TypeStep DEF CooldownInv
<1>2. CASE Tick
  <2>1. now \in Nat /\ \A g \in granted : g \in ProbeRecord
    BY DEF CooldownInv, TypeOK
  <2>2. \A a \in attempts : a \in Attempt
    BY DEF CooldownInv, TypeOK
  <2>3. /\ now' = now + 1 /\ exclusions' = exclusions /\ granted' = granted
        /\ emissions' = emissions /\ permits' = permits
        /\ attempts' = attempts
    BY <1>2 DEF Tick
  <2>4. AttemptClock' /\ GrantsPast'
    BY <2>1, <2>2, <2>3 DEF CooldownInv, AttemptClock, GrantsPast, Attempt, ProbeRecord
  <2>5. CooldownHeld'
    BY <2>1, <2>3 DEF CooldownInv, CooldownHeld, Barred, ProbeRecord
  <2>6. /\ GrantsOnce' /\ GrantSpacing' /\ PermitsGranted'
        /\ EmissionsGranted' /\ SpentLeases'
    BY <2>3 DEF CooldownInv, GrantsOnce, GrantSpacing, PermitsGranted,
                EmissionsGranted, SpentLeases
  <2>7. QED
    BY <1>1, <2>4, <2>5, <2>6 DEF CooldownInv
<1>3. ASSUME NEW id \in NominationId, NEW ip \in Addr, NEW asn \in Asn,
             NEW at \in 0 .. now, CreateNomination(id, ip, asn, at)
      PROVE  CooldownInv'
  BY <1>1, <1>3, ForgetInvariant DEF CreateNomination
<1>4. ASSUME NEW r \in Rule, AddExclusion(r)
      PROVE  CooldownInv'
  <2>1. CooldownHeld'
    BY <1>4 DEF AddExclusion, CooldownInv, CooldownHeld, Barred, AsnRules
  <2>2. /\ AttemptClock' /\ GrantsOnce' /\ GrantsPast' /\ GrantSpacing'
        /\ PermitsGranted' /\ EmissionsGranted' /\ SpentLeases'
    BY <1>4 DEF AddExclusion, CooldownInv, AttemptClock, GrantsOnce, GrantsPast,
                GrantSpacing, PermitsGranted, EmissionsGranted, SpentLeases
  <2>3. QED
    BY <1>1, <2>1, <2>2 DEF CooldownInv
<1>5. ASSUME NEW r \in exclusions, NEW page \in SUBSET attempts,
             PurgeAttempts(r, page)
      PROVE  CooldownInv'
  <2>1. ASSUME NEW a \in attempts \ attempts'
        PROVE  Barred(a.ip)
    BY <1>5, <2>1 DEF PurgeAttempts, RuleMatches, Barred, AsnRules
  <2>2. /\ now' = now /\ exclusions' = exclusions /\ granted' = granted
        /\ emissions' = emissions /\ attempts' \subseteq attempts
        /\ permits' = permits
    BY <1>5 DEF PurgeAttempts
  <2>3. QED
    BY <1>1, <2>1, <2>2, ForgetInvariant
<1>6. ASSUME NEW ip \in Addr, NEW asn \in AnyAsn, NEW at \in LegacyTimes,
             ImportAttempt(ip, asn, at)
      PROVE  CooldownInv'
  BY <1>1, <1>6, ImportInvariant
<1>7. ASSUME NEW l \in LeaseId, NEW n \in nominations, AcquireDiscovery(l, n)
      PROVE  CooldownInv'
  <2>1. n.ip \in Addr /\ n.asn \in AnyAsn /\ "active_discovery" \in Purpose
    BY DEF CooldownInv, TypeOK, Nomination, AnyAsn, Purpose
  <2>2. /\ Grant(l, n.ip, n.asn, "active_discovery")
        /\ CooledDown(n.ip) /\ AsnRules(exclusions) = {}
    BY <1>7 DEF AcquireDiscovery
  <2>3. QED
    BY <1>1, <2>1, <2>2, GrantInvariant
<1>8. ASSUME NEW l \in LeaseId, NEW ip \in HostedCallers, NEW asn \in AnyAsn,
             AcquireHosted(l, ip, asn)
      PROVE  CooldownInv'
  <2>1. ip \in Addr /\ "hosted_self" \in Purpose
    BY DEF Purpose
  <2>2. Grant(l, ip, asn, "hosted_self")
    BY <1>8 DEF AcquireHosted
  <2>3. QED
    BY <1>1, <2>1, <2>2, GrantInvariant
<1>9. ASSUME NEW l \in LeaseId, NEW ip \in CanaryTargets, NEW asn \in AnyAsn,
             AcquireCanary(l, ip, asn)
      PROVE  CooldownInv'
  <2>1. ip \in Addr /\ "owned_canary" \in Purpose
    BY DEF Purpose
  <2>2. Grant(l, ip, asn, "owned_canary")
    BY <1>9 DEF AcquireCanary
  <2>3. QED
    BY <1>1, <2>1, <2>2, GrantInvariant
<1>10. ASSUME NEW p \in permits, NEW expected \in Purpose,
              ConsumePermit(p, expected)
       PROVE  CooldownInv'
  BY <1>1, <1>10, ConsumeInvariant
<1>11. ASSUME NEW l \in LeaseId, NEW expected \in Purpose,
              CompleteLease(l, expected)
       PROVE  CooldownInv'
  BY <1>1, <1>11, CompleteInvariant
<1>12. CASE RunRetention
  <2>1. now \in Nat /\ \A a \in attempts : a \in Attempt
    BY DEF CooldownInv, TypeOK
  <2>2. /\ now' = now /\ exclusions' = exclusions /\ granted' = granted
        /\ emissions' = emissions
        /\ attempts' = {a \in attempts : a.updated >= now - AttemptRetention}
        /\ permits' \subseteq permits
    BY <1>12 DEF RunRetention
  <2>3. ASSUME NEW a \in attempts \ attempts'
        PROVE  a.next <= now
    <3>1. a.updated < now - AttemptRetention
      BY <2>1, <2>2, <2>3 DEF Attempt
    <3>2. a.next <= a.last + Cooldown /\ a.last <= a.updated
      BY DEF CooldownInv, AttemptClock
    <3>3. QED
      BY <2>1, <3>1, <3>2 DEF Attempt
  <2>4. QED
    BY <1>1, <2>2, <2>3, ForgetInvariant
<1>13. CASE UNCHANGED vars
  BY <1>1, <1>13, ForgetInvariant DEF vars
<1>14. QED
  BY <1>2, <1>3, <1>4, <1>5, <1>6, <1>7, <1>8, <1>9, <1>10, <1>11, <1>12, <1>13
  DEF Next

(* The rows that remain, and the rules, hold every running cooldown; every  *)
(* permit and emission goes back to one grant. *)
THEOREM CooldownInvariant == Spec => []CooldownInv
<1>1. Init => CooldownInv
  BY DEF Init, CooldownInv, TypeOK, AttemptClock, CooldownHeld, GrantsOnce, GrantsPast,
         GrantSpacing, PermitsGranted, EmissionsGranted, SpentLeases
<1>2. QED
  BY <1>1, InvariantStep, PTL DEF Spec

LEMMA SpacingFromInvariant == CooldownInv => EmissionSpacing
<1> SUFFICES ASSUME CooldownInv, NEW e \in emissions, NEW f \in emissions,
                    e.purpose = "active_discovery",
                    f.purpose = "active_discovery",
                    e.ip = f.ip, e.lease # f.lease
             PROVE  \/ e.at + Cooldown <= f.at + PermitTtl
                    \/ f.at + Cooldown <= e.at + PermitTtl
  BY DEF EmissionSpacing
<1>1. PICK g \in granted : /\ g.lease = e.lease /\ g.ip = e.ip
                           /\ g.purpose = e.purpose
                           /\ g.at <= e.at /\ e.at <= g.at + PermitTtl
  BY DEF CooldownInv, EmissionsGranted
<1>2. PICK h \in granted : /\ h.lease = f.lease /\ h.ip = f.ip
                           /\ h.purpose = f.purpose
                           /\ h.at <= f.at /\ f.at <= h.at + PermitTtl
  BY DEF CooldownInv, EmissionsGranted
<1>3. g.at + Cooldown <= h.at \/ h.at + Cooldown <= g.at
  BY <1>1, <1>2 DEF CooldownInv, GrantSpacing
<1>4. e.at \in Nat /\ f.at \in Nat /\ g.at \in Nat /\ h.at \in Nat
  BY DEF CooldownInv, TypeOK, ProbeRecord
<1>5. QED
  BY <1>1, <1>2, <1>3, <1>4

(* Third-party emissions at one address are a cooldown less one permit     *)
(* lifetime apart, for all the calls, purges and deletions in between. *)
THEOREM EmissionSpacingHolds == Spec => []EmissionSpacing
BY CooldownInvariant, SpacingFromInvariant, PTL

-----------------------------------------------------------------------------
(* Pacing: the rate ceilings and the overlap of self-checks.               *)

(* The grants a window of now holds are told apart by the events they left, *)
(* and retention has deleted none of those.                                *)
LEMMA CountedByEvents ==
  ASSUME CooldownInv, PacingInv, NEW s \in Scope, NEW k
  PROVE  /\ IsFiniteSet(GrantsInWindow(s, k, now))
         /\ Cardinality(GrantsInWindow(s, k, now)) \in Nat
         /\ Cardinality(EventsInWindow(s, k)) \in Nat
         /\ Cardinality(GrantsInWindow(s, k, now))
              <= Cardinality(EventsInWindow(s, k))
<1> DEFINE inWindow == GrantsInWindow(s, k, now)
           events == EventsInWindow(s, k)
           eventOf == [g \in inWindow |->
                         [lease |-> g.lease, scope |-> s, key |-> k, at |-> g.at]]
<1>1. IsFiniteSet(events)
  BY FS_Subset DEF PacingInv, EventsInWindow
<1>2. ASSUME NEW g \in inWindow
      PROVE  [lease |-> g.lease, scope |-> s, key |-> k, at |-> g.at] \in events
  <2>1. /\ g \in granted /\ s \in RatePolicy(g.purpose)
        /\ KeyOf(s, g.ip, g.asn) = k
        /\ now - Window[s] < g.at
    BY DEF GrantsInWindow
  <2>2. g.at \in Nat /\ now \in Nat
    BY <2>1 DEF CooldownInv, TypeOK, ProbeRecord
  <2>3. Window[s] \in Nat /\ Window[s] <= RateRetention /\ RateRetention \in Nat
    OBVIOUS
  <2>4. ~(g.at < now - RateRetention)
    BY <2>1, <2>2, <2>3
  <2>5. [lease |-> g.lease, scope |-> s, key |-> k, at |-> g.at] \in rateEvents
    BY <2>1, <2>4 DEF PacingInv, EventsKept
  <2>6. QED
    BY <2>1, <2>2, <2>3, <2>5 DEF EventsInWindow
<1>3. eventOf \in [inWindow -> events]
  BY <1>2
<1>4. ASSUME NEW g \in inWindow, NEW h \in inWindow, eventOf[g] = eventOf[h]
      PROVE  g = h
  <2>1. g.lease = h.lease
    BY <1>4
  <2>2. g \in granted /\ h \in granted
    BY DEF GrantsInWindow
  <2>3. QED
    BY <2>1, <2>2 DEF CooldownInv, GrantsOnce
<1>5. eventOf \in Injection(inWindow, events)
  BY <1>3, <1>4 DEF Injection, IsInjective
<1>6. IsFiniteSet(inWindow) /\ Cardinality(inWindow) <= Cardinality(events)
  BY <1>1, <1>5, FS_Injection
<1>7. Cardinality(inWindow) \in Nat /\ Cardinality(events) \in Nat
  BY <1>1, <1>6, FS_CardinalityType
<1>8. QED
  BY <1>6, <1>7

(* A step that grants nothing, and deletes only events too old to be asked  *)
(* for, keeps every ceiling. *)
LEMMA RatesStay ==
  ASSUME CooldownInv, PacingInv, TypeOK', granted' = granted, now <= now',
         rateEvents' \subseteq rateEvents,
         \A e \in rateEvents \ rateEvents' : e.at < now' - RateRetention
  PROVE  IsFiniteSet(rateEvents') /\ EventsKept' /\ RateCeiling'
<1>1. IsFiniteSet(rateEvents')
  BY FS_Subset DEF PacingInv
<1>2. EventsKept'
  <2>1. SUFFICES ASSUME NEW g \in granted, NEW s \in RatePolicy(g.purpose)
                 PROVE  \/ g.at < now' - RateRetention
                        \/ [lease |-> g.lease, scope |-> s,
                            key |-> KeyOf(s, g.ip, g.asn), at |-> g.at]
                             \in rateEvents'
    BY DEF EventsKept
  <2>2. \/ g.at < now - RateRetention
        \/ [lease |-> g.lease, scope |-> s,
            key |-> KeyOf(s, g.ip, g.asn), at |-> g.at] \in rateEvents
    BY DEF PacingInv, EventsKept
  <2>3. g.at \in Nat /\ now \in Nat /\ now' \in Nat /\ RateRetention \in Nat
    BY DEF CooldownInv, TypeOK, ProbeRecord
  <2>4. QED
    BY <2>2, <2>3
<1>3. RateCeiling'
  BY DEF PacingInv, RateCeiling, GrantsInWindow
<1>4. QED
  BY <1>1, <1>2, <1>3

(* A step that grants nothing keeps self-checks apart when what it does to  *)
(* the row and the permit of one is harmless: the row moves on, or a rule   *)
(* covers it, or its completion is accepted, or it is older than a permit.  *)
LEMMA HostedStay ==
  ASSUME CooldownInv, PacingInv, TypeOK', granted' = granted, now <= now',
         reported \subseteq reported', exclusions \subseteq exclusions',
         \A a \in attempts : a.purpose = "hosted_self" =>
           \/ \E b \in attempts' :
                /\ b.lease = a.lease /\ b.ip = a.ip /\ b.asn = a.asn
                /\ b.purpose = a.purpose /\ b.updated \in {a.updated, now'}
                /\ a.state # "complete" => b.state # "complete"
           \/ IsExcluded(exclusions', a.ip, a.asn)
           \/ a.lease \in reported'
           \/ a.updated + PermitTtl < now',
         \A p \in permits :
           \/ p.expires < now'
           \/ \E q \in permits' : q.lease = p.lease /\ q.expires = p.expires
  PROVE  HostedHeld' /\ HostedApart'
<1>1. \A ip, asn : IsExcluded(exclusions, ip, asn) => IsExcluded(exclusions', ip, asn)
  BY DEF IsExcluded
<1>2. HostedApart'
  BY <1>1 DEF PacingInv, HostedApart
<1>3. HostedHeld'
  <2>1. SUFFICES ASSUME NEW g \in granted, g.purpose = "hosted_self",
                        g.lease \notin reported',
                        ~(g.at + PermitTtl < now'),
                        ~IsExcluded(exclusions', g.ip, g.asn)
                 PROVE  /\ \E b \in attempts' :
                             /\ b.lease = g.lease /\ b.ip = g.ip /\ b.asn = g.asn
                             /\ b.purpose = "hosted_self" /\ b.state # "complete"
                             /\ g.at <= b.updated
                        /\ \E q \in permits' :
                             q.lease = g.lease /\ q.expires = g.at + PermitTtl
    BY DEF HostedHeld
  <2>2. now \in Nat /\ now' \in Nat /\ g.at \in Nat /\ PermitTtl \in Nat
    BY DEF CooldownInv, TypeOK, ProbeRecord
  <2>3. ~(g.at + PermitTtl < now) /\ ~IsExcluded(exclusions, g.ip, g.asn)
    BY <1>1, <2>1, <2>2
  <2>4. PICK a \in attempts : /\ a.lease = g.lease /\ a.ip = g.ip /\ a.asn = g.asn
                              /\ a.purpose = "hosted_self" /\ a.state # "complete"
                              /\ g.at <= a.updated
    BY <2>1, <2>3 DEF PacingInv, HostedHeld
  <2>5. PICK p \in permits : p.lease = g.lease /\ p.expires = g.at + PermitTtl
    BY <2>1, <2>3 DEF PacingInv, HostedHeld
  <2>6. a.updated \in Nat
    BY DEF CooldownInv, TypeOK, Attempt
  <2>7. ~(a.updated + PermitTtl < now')
    BY <2>1, <2>2, <2>4, <2>6
  <2>8. PICK b \in attempts' : /\ b.lease = a.lease /\ b.ip = a.ip /\ b.asn = a.asn
                               /\ b.purpose = a.purpose
                               /\ b.updated \in {a.updated, now'}
                               /\ b.state # "complete"
    BY <2>1, <2>4, <2>7
  <2>9. g.at <= now
    BY DEF CooldownInv, GrantsPast
  <2>10. g.at <= b.updated
    BY <2>2, <2>4, <2>6, <2>8, <2>9
  <2>11. \E q \in permits' : q.lease = g.lease /\ q.expires = g.at + PermitTtl
    BY <2>1, <2>5
  <2>12. QED
    BY <2>4, <2>8, <2>10, <2>11
<1>4. QED
  BY <1>2, <1>3

(* A grant fits its windows because its event is one of those it counts, and *)
(* a self-check is granted only where the last one of its address is over.   *)
LEMMA GrantPacing ==
  ASSUME CooldownInv, PacingInv, TypeOK', NEW l \in LeaseId, NEW ip \in Addr,
         NEW asn \in AnyAsn, NEW purpose \in Purpose, Grant(l, ip, asn, purpose),
         purpose = "hosted_self" => ~ProbeInProgress(ip)
  PROVE  PacingInv'
<1> DEFINE row == [ip |-> ip, purpose |-> purpose, asn |-> asn, lease |-> l,
                   state |-> "acquired", last |-> now,
                   next |-> NextEligible(purpose), updated |-> now]
           new == [lease |-> l, ip |-> ip, asn |-> asn, purpose |-> purpose,
                   at |-> now]
           permit == [lease |-> l, ip |-> ip, asn |-> asn, purpose |-> purpose,
                      remaining |-> 1, expires |-> now + PermitTtl]
           event(s) == [lease |-> l, scope |-> s, key |-> KeyOf(s, ip, asn),
                        at |-> now]
<1>1. /\ now \in Nat /\ now' = now /\ exclusions' = exclusions
      /\ reported' = reported
      /\ granted' = granted \cup {new}
      /\ attempts' = {a \in attempts : ~(a.ip = ip /\ a.purpose = purpose)}
                       \cup {row}
      /\ permits' = permits \cup {permit}
      /\ rateEvents' = rateEvents \cup {event(s) : s \in RatePolicy(purpose)}
  BY DEF CooldownInv, TypeOK, Grant
<1>2. /\ \A g \in granted : g.lease # l
      /\ \A s \in RatePolicy(purpose) : CheckRate(s, KeyOf(s, ip, asn))
  BY DEF Grant, Leases
<1>3. \A g \in granted : g \in ProbeRecord /\ g.at \in Nat /\ g.at <= now
  BY DEF CooldownInv, TypeOK, ProbeRecord, GrantsPast
<1>4. IsFiniteSet(rateEvents')
  <2>1. \A S, x : IsFiniteSet(S) => IsFiniteSet(S \cup {x})
    BY FS_AddElement
  <2>2. IsFiniteSet(rateEvents)
    BY DEF PacingInv
  <2>3. CASE purpose = "active_discovery"
    <3>1. rateEvents' = ((rateEvents \cup {event("active_net")})
                           \cup {event("active_asn")})
                           \cup {event("active_global_minute")}
      BY <1>1, <2>3 DEF RatePolicy
    <3>2. QED
      BY <2>1, <2>2, <3>1
  <2>4. CASE purpose = "hosted_self"
    <3>1. rateEvents' = ((rateEvents \cup {event("hosted_ip_15m")})
                           \cup {event("hosted_ip_day")})
                           \cup {event("hosted_global_day")}
      BY <1>1, <2>4 DEF RatePolicy
    <3>2. QED
      BY <2>1, <2>2, <3>1
  <2>5. CASE purpose = "owned_canary"
    <3>1. rateEvents' = rateEvents \cup {event("owned_canary_10m")}
      BY <1>1, <2>5 DEF RatePolicy
    <3>2. QED
      BY <2>1, <2>2, <3>1
  <2>6. QED
    BY <2>3, <2>4, <2>5 DEF Purpose
<1>5. EventsKept'
  <2>1. SUFFICES ASSUME NEW g \in granted', NEW s \in RatePolicy(g.purpose)
                 PROVE  \/ g.at < now - RateRetention
                        \/ [lease |-> g.lease, scope |-> s,
                            key |-> KeyOf(s, g.ip, g.asn), at |-> g.at]
                             \in rateEvents'
    BY <1>1 DEF EventsKept
  <2>2. CASE g \in granted
    BY <1>1, <2>2 DEF PacingInv, EventsKept
  <2>3. CASE g = new
    BY <1>1, <2>3
  <2>4. QED
    BY <1>1, <2>2, <2>3
<1>6. RateCeiling'
  <2>1. ASSUME NEW s \in RatePolicy(purpose)
        PROVE  Cardinality(GrantsInWindow(s, KeyOf(s, ip, asn), now) \cup {new})
                 <= Limit[s]
    <3> DEFINE before == GrantsInWindow(s, KeyOf(s, ip, asn), now)
    <3>1. s \in Scope /\ Limit[s] \in Nat
      BY RatePolicyType
    <3>2. /\ IsFiniteSet(before) /\ Cardinality(before) \in Nat
          /\ Cardinality(EventsInWindow(s, KeyOf(s, ip, asn))) \in Nat
          /\ Cardinality(before)
               <= Cardinality(EventsInWindow(s, KeyOf(s, ip, asn)))
      BY <3>1, CountedByEvents
    <3>3. Cardinality(EventsInWindow(s, KeyOf(s, ip, asn))) < Limit[s]
      BY <1>2 DEF CheckRate
    <3>4. new \notin before
      BY <1>2 DEF GrantsInWindow
    <3>5. Cardinality(before \cup {new}) = Cardinality(before) + 1
      BY <3>2, <3>4, FS_AddElement
    <3>6. QED
      BY <3>1, <3>2, <3>3, <3>5
  <2>2. SUFFICES ASSUME NEW g \in granted', NEW s \in RatePolicy(g.purpose)
                 PROVE  Cardinality(GrantsInWindow(s, KeyOf(s, g.ip, g.asn), g.at)')
                          <= Limit[s]
    BY DEF RateCeiling
  <2>3. CASE /\ s \in RatePolicy(purpose)
             /\ KeyOf(s, ip, asn) = KeyOf(s, g.ip, g.asn)
             /\ g.at = now
    <3>1. GrantsInWindow(s, KeyOf(s, g.ip, g.asn), g.at)'
            \subseteq GrantsInWindow(s, KeyOf(s, ip, asn), now) \cup {new}
      BY <1>1, <2>3 DEF GrantsInWindow
    <3>2. IsFiniteSet(GrantsInWindow(s, KeyOf(s, ip, asn), now) \cup {new})
      <4>1. IsFiniteSet(GrantsInWindow(s, KeyOf(s, ip, asn), now))
        BY <2>3, RatePolicyType, CountedByEvents
      <4>2. QED
        BY <4>1, FS_AddElement
    <3>3. /\ Cardinality(GrantsInWindow(s, KeyOf(s, g.ip, g.asn), g.at)')
               <= Cardinality(GrantsInWindow(s, KeyOf(s, ip, asn), now) \cup {new})
          /\ Cardinality(GrantsInWindow(s, KeyOf(s, g.ip, g.asn), g.at)') \in Nat
          /\ Cardinality(GrantsInWindow(s, KeyOf(s, ip, asn), now) \cup {new}) \in Nat
      BY <3>1, <3>2, FS_Subset, FS_CardinalityType
    <3>4. Limit[s] \in Nat
      BY <2>3, RatePolicyType
    <3>5. QED
      BY <2>1, <2>3, <3>3, <3>4
  <2>4. CASE ~(/\ s \in RatePolicy(purpose)
               /\ KeyOf(s, ip, asn) = KeyOf(s, g.ip, g.asn)
               /\ g.at = now)
    <3>1. g \in granted
      BY <1>1, <2>4
    <3>2. GrantsInWindow(s, KeyOf(s, g.ip, g.asn), g.at)'
            = GrantsInWindow(s, KeyOf(s, g.ip, g.asn), g.at)
      <4>1. ~(/\ s \in RatePolicy(new.purpose)
              /\ KeyOf(s, new.ip, new.asn) = KeyOf(s, g.ip, g.asn)
              /\ new.at <= g.at)
        BY <1>1, <1>3, <2>4, <3>1
      <4>2. QED
        BY <1>1, <4>1 DEF GrantsInWindow
    <3>3. QED
      BY <3>1, <3>2 DEF PacingInv, RateCeiling
  <2>5. QED
    BY <2>3, <2>4
<1>7. ASSUME NEW g \in granted, g.purpose = "hosted_self", g.ip = ip,
             purpose = "hosted_self", g.lease \notin reported,
             ~IsExcluded(exclusions, g.ip, g.asn)
      PROVE  g.at + PermitTtl < now
  <2>1. SUFFICES ASSUME ~(g.at + PermitTtl < now) PROVE FALSE
    OBVIOUS
  <2>2. PICK a \in attempts : /\ a.lease = g.lease /\ a.ip = g.ip
                              /\ a.purpose = "hosted_self" /\ a.state # "complete"
    BY <1>7, <2>1 DEF PacingInv, HostedHeld
  <2>3. PICK p \in permits : p.lease = g.lease /\ p.expires = g.at + PermitTtl
    BY <1>7, <2>1 DEF PacingInv, HostedHeld
  <2>4. a.state \in {"acquired", "emitted"}
    BY <2>2 DEF CooldownInv, TypeOK, Attempt
  <2>5. p.expires >= now
    BY <1>1, <1>3, <2>1, <2>3
  <2>6. QED
    BY <1>7, <2>2, <2>3, <2>4, <2>5 DEF ProbeInProgress
<1>8. HostedHeld'
  <2>1. SUFFICES ASSUME NEW g \in granted', g.purpose = "hosted_self",
                        g.lease \notin reported,
                        ~(g.at + PermitTtl < now),
                        ~IsExcluded(exclusions, g.ip, g.asn)
                 PROVE  /\ \E b \in attempts' :
                             /\ b.lease = g.lease /\ b.ip = g.ip /\ b.asn = g.asn
                             /\ b.purpose = "hosted_self" /\ b.state # "complete"
                             /\ g.at <= b.updated
                        /\ \E q \in permits' :
                             q.lease = g.lease /\ q.expires = g.at + PermitTtl
    BY <1>1 DEF HostedHeld
  <2>2. CASE g \in granted
    <3>1. /\ \E a \in attempts :
               /\ a.lease = g.lease /\ a.ip = g.ip /\ a.asn = g.asn
               /\ a.purpose = "hosted_self" /\ a.state # "complete"
               /\ g.at <= a.updated
          /\ \E p \in permits : p.lease = g.lease /\ p.expires = g.at + PermitTtl
      BY <2>1, <2>2 DEF PacingInv, HostedHeld
    <3>2. ~(g.ip = ip /\ purpose = "hosted_self")
      BY <1>7, <2>1, <2>2
    <3>3. QED
      BY <1>1, <3>1, <3>2
  <2>3. CASE g = new
    <3>1. /\ row \in attempts'
          /\ row.lease = g.lease /\ row.ip = g.ip /\ row.asn = g.asn
          /\ row.purpose = "hosted_self" /\ row.state # "complete"
          /\ g.at <= row.updated
      BY <1>1, <2>1, <2>3
    <3>2. /\ permit \in permits'
          /\ permit.lease = g.lease /\ permit.expires = g.at + PermitTtl
      BY <1>1, <2>3
    <3>3. QED
      BY <3>1, <3>2
  <2>4. QED
    BY <1>1, <2>2, <2>3
<1>9. HostedApart'
  <2>1. SUFFICES ASSUME NEW g \in granted', NEW h \in granted',
                        g.purpose = "hosted_self", h.purpose = "hosted_self",
                        g.ip = h.ip, g.lease # h.lease,
                        g.lease \notin reported, h.lease \notin reported,
                        ~IsExcluded(exclusions, g.ip, g.asn),
                        ~IsExcluded(exclusions, h.ip, h.asn)
                 PROVE  g.at + PermitTtl < h.at \/ h.at + PermitTtl < g.at
    BY <1>1 DEF HostedApart
  <2>2. CASE g \in granted /\ h \in granted
    BY <2>1, <2>2 DEF PacingInv, HostedApart
  <2>3. CASE g \in granted /\ h = new
    BY <1>7, <2>1, <2>3
  <2>4. CASE g = new /\ h \in granted
    BY <1>7, <2>1, <2>4
  <2>5. QED
    BY <1>1, <2>1, <2>2, <2>3, <2>4
<1>10. QED
  BY <1>4, <1>5, <1>6, <1>8, <1>9 DEF PacingInv

(* Consuming or completing a lease moves its row on; nothing else changes. *)
LEMMA MovePacing ==
  ASSUME CooldownInv, PacingInv, TypeOK', NEW l, NEW s \in {"emitted", "complete"},
         now' = now, exclusions' = exclusions, granted' = granted,
         rateEvents' = rateEvents, reported \subseteq reported',
         s = "complete" => l \in reported',
         attempts' = {IF a.lease = l THEN Moved(a, s) ELSE a : a \in attempts},
         \A p \in permits : \E q \in permits' :
           q.lease = p.lease /\ q.expires = p.expires
  PROVE  PacingInv'
<1>1. now \in Nat /\ \A a \in attempts : a \in Attempt
  BY DEF CooldownInv, TypeOK
<1>2. ASSUME NEW a \in attempts
      PROVE  \/ \E b \in attempts' :
                  /\ b.lease = a.lease /\ b.ip = a.ip /\ b.asn = a.asn
                  /\ b.purpose = a.purpose /\ b.updated \in {a.updated, now'}
                  /\ a.state # "complete" => b.state # "complete"
             \/ a.lease \in reported'
  <2>1. CASE a.lease = l
    <3>1. Moved(a, s) \in attempts'
      BY <2>1
    <3>2. /\ Moved(a, s).lease = a.lease /\ Moved(a, s).ip = a.ip
          /\ Moved(a, s).asn = a.asn /\ Moved(a, s).purpose = a.purpose
          /\ Moved(a, s).updated = now /\ Moved(a, s).state = s
      BY <1>1, MovedAttempt
    <3>3. QED
      BY <2>1, <3>1, <3>2
  <2>2. CASE a.lease # l
    <3>1. a \in attempts'
      BY <2>2
    <3>2. QED
      BY <3>1
  <2>3. QED
    BY <2>1, <2>2
<1>3. HostedHeld' /\ HostedApart'
  BY <1>1, <1>2, HostedStay
<1>4. IsFiniteSet(rateEvents') /\ EventsKept' /\ RateCeiling'
  BY <1>1, RatesStay
<1>5. QED
  BY <1>3, <1>4 DEF PacingInv

(* The same where only attempt rows, nominations or rules change, and each  *)
(* row that goes was no running self-check's, or a rule covers it. *)
LEMMA ForgetPacing ==
  ASSUME CooldownInv, PacingInv, TypeOK', now' = now, granted' = granted,
         rateEvents' = rateEvents, permits' = permits, reported' = reported,
         exclusions \subseteq exclusions',
         \A a \in attempts \ attempts' :
           a.purpose = "hosted_self" => IsExcluded(exclusions', a.ip, a.asn)
  PROVE  PacingInv'
<1>1. now \in Nat
  BY DEF CooldownInv, TypeOK
<1>2. HostedHeld' /\ HostedApart'
  BY <1>1, HostedStay
<1>3. IsFiniteSet(rateEvents') /\ EventsKept' /\ RateCeiling'
  BY <1>1, RatesStay
<1>4. QED
  BY <1>2, <1>3 DEF PacingInv

LEMMA PacingStep == CooldownInv /\ PacingInv /\ [Next]_vars => PacingInv'
<1> SUFFICES ASSUME CooldownInv, PacingInv, [Next]_vars PROVE PacingInv'
  OBVIOUS
<1>1. TypeOK' /\ now \in Nat
  BY TypeStep DEF CooldownInv, TypeOK
<1>2. CASE Tick
  <2>1. /\ now' = now + 1 /\ exclusions' = exclusions /\ granted' = granted
        /\ permits' = permits /\ attempts' = attempts
        /\ rateEvents' = rateEvents /\ reported' = reported
    BY <1>2 DEF Tick
  <2>2. now <= now'
    BY <1>1, <2>1
  <2>3. HostedHeld' /\ HostedApart'
    BY <1>1, <2>1, <2>2, HostedStay
  <2>4. IsFiniteSet(rateEvents') /\ EventsKept' /\ RateCeiling'
    BY <1>1, <2>1, <2>2, RatesStay
  <2>5. QED
    BY <2>3, <2>4 DEF PacingInv
<1>3. ASSUME NEW id \in NominationId, NEW ip \in Addr, NEW asn \in Asn,
             NEW at \in 0 .. now, CreateNomination(id, ip, asn, at)
      PROVE  PacingInv'
  BY <1>1, <1>3, ForgetPacing DEF CreateNomination
<1>4. ASSUME NEW r \in Rule, AddExclusion(r)
      PROVE  PacingInv'
  BY <1>1, <1>4, ForgetPacing DEF AddExclusion
<1>5. ASSUME NEW r \in exclusions, NEW page \in SUBSET attempts,
             PurgeAttempts(r, page)
      PROVE  PacingInv'
  <2>1. \A a \in attempts \ attempts' : IsExcluded(exclusions', a.ip, a.asn)
    BY <1>5 DEF PurgeAttempts, IsExcluded
  <2>2. QED
    BY <1>1, <1>5, <2>1, ForgetPacing DEF PurgeAttempts
<1>6. ASSUME NEW ip \in Addr, NEW asn \in AnyAsn, NEW at \in LegacyTimes,
             ImportAttempt(ip, asn, at)
      PROVE  PacingInv'
  <2>1. \A a \in attempts \ attempts' : a.purpose # "hosted_self"
    BY <1>6 DEF ImportAttempt
  <2>2. QED
    BY <1>1, <1>6, <2>1, ForgetPacing DEF ImportAttempt
<1>7. ASSUME NEW l \in LeaseId, NEW n \in nominations, AcquireDiscovery(l, n)
      PROVE  PacingInv'
  <2>1. n.ip \in Addr /\ n.asn \in AnyAsn /\ "active_discovery" \in Purpose
    BY DEF CooldownInv, TypeOK, Nomination, AnyAsn, Purpose
  <2>2. Grant(l, n.ip, n.asn, "active_discovery")
    BY <1>7 DEF AcquireDiscovery
  <2>3. QED
    BY <1>1, <2>1, <2>2, GrantPacing
<1>8. ASSUME NEW l \in LeaseId, NEW ip \in HostedCallers, NEW asn \in AnyAsn,
             AcquireHosted(l, ip, asn)
      PROVE  PacingInv'
  <2>1. ip \in Addr /\ "hosted_self" \in Purpose
    BY DEF Purpose
  <2>2. Grant(l, ip, asn, "hosted_self") /\ ~ProbeInProgress(ip)
    BY <1>8 DEF AcquireHosted
  <2>3. QED
    BY <1>1, <2>1, <2>2, GrantPacing
<1>9. ASSUME NEW l \in LeaseId, NEW ip \in CanaryTargets, NEW asn \in AnyAsn,
             AcquireCanary(l, ip, asn)
      PROVE  PacingInv'
  <2>1. ip \in Addr /\ "owned_canary" \in Purpose
    BY DEF Purpose
  <2>2. Grant(l, ip, asn, "owned_canary")
    BY <1>9 DEF AcquireCanary
  <2>3. QED
    BY <1>1, <2>1, <2>2, GrantPacing
<1>10. ASSUME NEW p \in permits, NEW expected \in Purpose,
              ConsumePermit(p, expected)
       PROVE  PacingInv'
  <2>1. Spend(p).lease = p.lease /\ Spend(p).expires = p.expires
    BY DEF Spend
  <2>2. \A o \in permits : \E q \in permits' :
          q.lease = o.lease /\ q.expires = o.expires
    BY <1>10, <2>1 DEF ConsumePermit
  <2>3. QED
    BY <1>1, <1>10, <2>2, MovePacing DEF ConsumePermit
<1>11. ASSUME NEW l \in LeaseId, NEW expected \in Purpose,
              CompleteLease(l, expected)
       PROVE  PacingInv'
  BY <1>1, <1>11, MovePacing DEF CompleteLease
<1>12. CASE RunRetention
  <2>1. /\ now' = now /\ exclusions' = exclusions /\ granted' = granted
        /\ reported' = reported
        /\ permits' = {p \in permits : p.expires >= now}
        /\ rateEvents' = {e \in rateEvents : e.at >= now - RateRetention}
        /\ attempts' = {a \in attempts : a.updated >= now - AttemptRetention}
    BY <1>12 DEF RunRetention
  <2>2. \A p \in permits : p.expires < now \/ p \in permits'
    BY <1>1, <2>1 DEF CooldownInv, TypeOK, Permit
  <2>3. \A a \in attempts : a.updated + PermitTtl < now \/ a \in attempts'
    <3>1. SUFFICES ASSUME NEW a \in attempts, a \notin attempts'
                   PROVE  a.updated + PermitTtl < now
      OBVIOUS
    <3>2. a.updated \in Nat /\ ~(a.updated >= now - AttemptRetention)
      BY <2>1, <3>1 DEF CooldownInv, TypeOK, Attempt
    <3>3. QED
      BY <1>1, <3>2
  <2>4. HostedHeld' /\ HostedApart'
    BY <1>1, <2>1, <2>2, <2>3, HostedStay
  <2>5. \A e \in rateEvents \ rateEvents' : e.at < now - RateRetention
    BY <1>1, <2>1 DEF CooldownInv, TypeOK, RateEvent
  <2>6. IsFiniteSet(rateEvents') /\ EventsKept' /\ RateCeiling'
    BY <1>1, <2>1, <2>5, RatesStay
  <2>7. QED
    BY <2>4, <2>6 DEF PacingInv
<1>13. CASE UNCHANGED vars
  BY <1>1, <1>13, ForgetPacing DEF vars
<1>14. QED
  BY <1>2, <1>3, <1>4, <1>5, <1>6, <1>7, <1>8, <1>9, <1>10, <1>11, <1>12, <1>13
  DEF Next

-----------------------------------------------------------------------------
(* Rows are backed by the history.                                         *)

LEMMA RowsStay ==
  ASSUME RowsBacked, attempts' \subseteq attempts, granted \subseteq granted',
         emissions \subseteq emissions'
  PROVE  RowsBacked'
BY DEF RowsBacked, Leases

LEMMA GrantRows ==
  ASSUME RowsBacked, NEW l \in LeaseId, NEW ip \in Addr, NEW asn \in AnyAsn,
         NEW purpose \in Purpose, Grant(l, ip, asn, purpose)
  PROVE  RowsBacked'
<1> DEFINE row == [ip |-> ip, purpose |-> purpose, asn |-> asn, lease |-> l,
                   state |-> "acquired", last |-> now,
                   next |-> NextEligible(purpose), updated |-> now]
           new == [lease |-> l, ip |-> ip, asn |-> asn, purpose |-> purpose,
                   at |-> now]
<1>1. /\ attempts' \subseteq attempts \cup {row}
      /\ granted' = granted \cup {new} /\ emissions' = emissions
  BY DEF Grant
<1>2. /\ new \in granted' /\ new.lease = row.lease /\ new.ip = row.ip
      /\ new.purpose = row.purpose /\ new.at = row.last
      /\ row.state = "acquired"
  BY <1>1
<1> HIDE DEF row, new
<1>3. QED
  BY <1>1, <1>2 DEF RowsBacked

(* A lease moving on, once its packet is recorded. *)
LEMMA MoveRows ==
  ASSUME CooldownInv, RowsBacked, NEW l, NEW s \in {"emitted", "complete"},
         attempts' = {IF a.lease = l THEN Moved(a, s) ELSE a : a \in attempts},
         granted' = granted, emissions \subseteq emissions',
         l \in Leases(emissions')
  PROVE  RowsBacked'
<1>1. now \in Nat /\ \A a \in attempts : a \in Attempt
  BY DEF CooldownInv, TypeOK
<1>2. SUFFICES ASSUME NEW b \in attempts', b.lease \in LeaseId
               PROVE  /\ \E g \in granted : /\ g.lease = b.lease /\ g.ip = b.ip
                                            /\ g.purpose = b.purpose
                                            /\ g.at = b.last
                      /\ b.state # "acquired" => b.lease \in Leases(emissions')
  BY DEF RowsBacked
<1>3. PICK a \in attempts : b = IF a.lease = l THEN Moved(a, s) ELSE a
  BY <1>2
<1>4. CASE a.lease = l
  <2>1. /\ b.lease = a.lease /\ b.ip = a.ip /\ b.purpose = a.purpose
        /\ b.last = a.last
    BY <1>1, <1>3, <1>4, MovedAttempt
  <2>2. QED
    BY <1>2, <1>4, <2>1 DEF RowsBacked
<1>5. CASE a.lease # l
  BY <1>2, <1>3, <1>5 DEF RowsBacked, Leases
<1>6. QED
  BY <1>4, <1>5

LEMMA RowsStep == CooldownInv /\ RowsBacked /\ [Next]_vars => RowsBacked'
<1> SUFFICES ASSUME CooldownInv, RowsBacked, [Next]_vars PROVE RowsBacked'
  OBVIOUS
<1>1. CASE Tick
  BY <1>1, RowsStay DEF Tick
<1>2. ASSUME NEW id \in NominationId, NEW ip \in Addr, NEW asn \in Asn,
             NEW at \in 0 .. now, CreateNomination(id, ip, asn, at)
      PROVE  RowsBacked'
  BY <1>2, RowsStay DEF CreateNomination
<1>3. ASSUME NEW r \in Rule, AddExclusion(r)
      PROVE  RowsBacked'
  BY <1>3, RowsStay DEF AddExclusion
<1>4. ASSUME NEW r \in exclusions, NEW page \in SUBSET attempts,
             PurgeAttempts(r, page)
      PROVE  RowsBacked'
  BY <1>4, RowsStay DEF PurgeAttempts
<1>5. ASSUME NEW ip \in Addr, NEW asn \in AnyAsn, NEW at \in LegacyTimes,
             ImportAttempt(ip, asn, at)
      PROVE  RowsBacked'
  <2>1. \A a \in attempts' : a \in attempts \/ a.lease = LegacyLease(ip)
    BY <1>5 DEF ImportAttempt
  <2>2. LegacyLease(ip) \notin LeaseId
    OBVIOUS
  <2>3. granted' = granted /\ emissions' = emissions
    BY <1>5 DEF ImportAttempt
  <2>4. QED
    BY <2>1, <2>2, <2>3 DEF RowsBacked
<1>6. ASSUME NEW l \in LeaseId, NEW n \in nominations, AcquireDiscovery(l, n)
      PROVE  RowsBacked'
  <2>1. n.ip \in Addr /\ n.asn \in AnyAsn /\ "active_discovery" \in Purpose
    BY DEF CooldownInv, TypeOK, Nomination, AnyAsn, Purpose
  <2>2. Grant(l, n.ip, n.asn, "active_discovery")
    BY <1>6 DEF AcquireDiscovery
  <2>3. QED
    BY <2>1, <2>2, GrantRows
<1>7. ASSUME NEW l \in LeaseId, NEW ip \in HostedCallers, NEW asn \in AnyAsn,
             AcquireHosted(l, ip, asn)
      PROVE  RowsBacked'
  <2>1. ip \in Addr /\ "hosted_self" \in Purpose
    BY DEF Purpose
  <2>2. Grant(l, ip, asn, "hosted_self")
    BY <1>7 DEF AcquireHosted
  <2>3. QED
    BY <2>1, <2>2, GrantRows
<1>8. ASSUME NEW l \in LeaseId, NEW ip \in CanaryTargets, NEW asn \in AnyAsn,
             AcquireCanary(l, ip, asn)
      PROVE  RowsBacked'
  <2>1. ip \in Addr /\ "owned_canary" \in Purpose
    BY DEF Purpose
  <2>2. Grant(l, ip, asn, "owned_canary")
    BY <1>8 DEF AcquireCanary
  <2>3. QED
    BY <2>1, <2>2, GrantRows
<1>9. ASSUME NEW p \in permits, NEW expected \in Purpose,
             ConsumePermit(p, expected)
      PROVE  RowsBacked'
  <2> DEFINE packet == [lease |-> p.lease, ip |-> p.ip, asn |-> p.asn,
                        purpose |-> p.purpose, at |-> now]
  <2>1. emissions' = emissions \cup {packet} /\ packet.lease = p.lease
    BY <1>9 DEF ConsumePermit
  <2> HIDE DEF packet
  <2>2. p.lease \in Leases(emissions') /\ emissions \subseteq emissions'
    BY <2>1 DEF Leases
  <2>3. QED
    BY <1>9, <2>2, MoveRows DEF ConsumePermit
<1>10. ASSUME NEW l \in LeaseId, NEW expected \in Purpose,
              CompleteLease(l, expected)
       PROVE  RowsBacked'
  <2>1. PICK a \in attempts : a.lease = l /\ a.state = "emitted"
    BY <1>10 DEF CompleteLease
  <2>2. l \in Leases(emissions)
    BY <2>1 DEF RowsBacked
  <2>3. QED
    BY <1>10, <2>2, MoveRows DEF CompleteLease
<1>11. CASE RunRetention
  BY <1>11, RowsStay DEF RunRetention
<1>12. CASE UNCHANGED vars
  BY <1>12, RowsStay DEF vars
<1>13. QED
  BY <1>1, <1>2, <1>3, <1>4, <1>5, <1>6, <1>7, <1>8, <1>9, <1>10, <1>11, <1>12
  DEF Next

-----------------------------------------------------------------------------
(* The whole invariant: what holds the cooldowns, what holds the pace, and   *)
(* what the rows tell of the history. *)
THEOREM InductiveInvariant == Spec => []IInv
<1>1. Init => PacingInv
  BY FS_EmptySet DEF Init, PacingInv, EventsKept, RateCeiling, HostedHeld,
                     HostedApart
<1>2. Init => RowsBacked
  BY DEF Init, RowsBacked
<1>3. QED
  BY <1>1, <1>2, CooldownInvariant, PacingStep, RowsStep, PTL DEF Spec, IInv

(* No window of any rate scope ever holds more grants than its limit,       *)
(* although retention deletes the events that count them. *)
THEOREM RateCeilingHolds == Spec => []RateCeiling
<1>1. IInv => RateCeiling
  BY DEF IInv, PacingInv
<1>2. QED
  BY <1>1, InductiveInvariant, PTL

(* Two self-checks of one address are both under way only if the older      *)
(* one's permit had expired when the younger was granted, or a rule covers  *)
(* one of them. *)
THEOREM HostedOverlapHolds == Spec => []HostedOverlap
<1>1. IInv => HostedOverlap
  BY DEF IInv, PacingInv, HostedApart, HostedOverlap, InFlight
<1>2. QED
  BY <1>1, InductiveInvariant, PTL

-----------------------------------------------------------------------------
(* Refinement of GovernedProbing.                                          *)

(* Rules mean the same on both sides. *)
LEMMA GovernedRules ==
  /\ \A rules, ip, asn :
       Governed!IsExcluded(rules, ip, asn) <=> IsExcluded(rules, ip, asn)
  /\ \A rules : Governed!AsnRules(rules) = AsnRules(rules)
  /\ \A records : Governed!Leases(records) = Leases(records)
BY DEF Governed!IsExcluded, Governed!RuleMatches, Governed!AsnRules,
       Governed!Leases, IsExcluded, RuleMatches, AsnRules, Leases

(* No cooldown can be running where the rows show none and no rule stands. *)
LEMMA MayDiscoverFromRows ==
  ASSUME CooldownInv, NEW ip \in Addr, NEW asn \in AnyAsn,
         AsnRules(exclusions) = {}, CooledDown(ip),
         ~IsExcluded(exclusions, ip, asn)
  PROVE  Governed!MayDiscover(ip)
<1>1. ASSUME NEW g \in granted, g.ip = ip, g.purpose = "active_discovery"
      PROVE  g.at + Cooldown <= now
  <2>1. ~Barred(ip)
    BY DEF Barred, IsExcluded, RuleMatches
  <2>2. now \in Nat /\ g \in ProbeRecord
    BY DEF CooldownInv, TypeOK
  <2>3. CASE \E a \in attempts : /\ a.ip = g.ip
                                 /\ a.purpose = "active_discovery"
                                 /\ g.at + Cooldown <= a.next
    <3>1. PICK a \in attempts : /\ a.ip = g.ip
                                /\ a.purpose = "active_discovery"
                                /\ g.at + Cooldown <= a.next
      BY <2>3
    <3>2. a.next <= now /\ a \in Attempt
      BY <1>1, <3>1 DEF CooledDown, CooldownInv, TypeOK
    <3>3. QED
      BY <2>2, <3>1, <3>2 DEF Attempt, ProbeRecord
  <2>4. QED
    BY <1>1, <2>1, <2>3 DEF CooldownInv, CooldownHeld
<1>2. QED
  BY <1>1, GovernedRules DEF Governed!MayDiscover

LEMMA GrantRefines ==
  ASSUME CooldownInv, NEW l \in LeaseId, NEW ip \in Addr, NEW asn \in AnyAsn,
         NEW purpose \in Purpose, Grant(l, ip, asn, purpose),
         purpose = "active_discovery" =>
           /\ asn \in Asn
           /\ CooledDown(ip)
           /\ AsnRules(exclusions) = {}
  PROVE  Governed!Next
<1>1. ~IsExcluded(exclusions, ip, asn)
  BY DEF Grant
<1>2. purpose = "active_discovery" => Governed!MayDiscover(ip)
  BY <1>1, MayDiscoverFromRows
<1>3. Governed!Grant(l, ip, asn, purpose)
  BY <1>1, <1>2, GovernedRules DEF Governed!Grant, Grant
<1>4. QED
  BY <1>3 DEF Governed!Next, Governed!AnyAsn, AnyAsn,
              Governed!Purpose, Purpose

LEMMA ConsumeRefines ==
  ASSUME CooldownInv, NEW p \in permits, NEW expected \in Purpose,
         ConsumePermit(p, expected)
  PROVE  Governed!Next
<1>1. /\ p.expires >= now
      /\ ~IsExcluded(exclusions, p.ip, p.asn)
      /\ \E a \in attempts : a.lease = p.lease /\ a.state = "acquired"
      /\ now' = now /\ exclusions' = exclusions /\ granted' = granted
  BY DEF ConsumePermit, Consumable
<1>2. PICK g \in granted : /\ g.lease = p.lease /\ g.ip = p.ip
                           /\ g.asn = p.asn /\ g.purpose = p.purpose
                           /\ p.expires = g.at + PermitTtl
  BY DEF CooldownInv, PermitsGranted
<1>3. p.lease \notin Leases(emissions)
  BY <1>1 DEF CooldownInv, SpentLeases, Leases
<1>4. emissions' = emissions \cup
        {[lease |-> p.lease, ip |-> p.ip, asn |-> p.asn,
          purpose |-> p.purpose, at |-> now]}
  BY DEF ConsumePermit
<1>5. Governed!Emit(g)
  BY <1>1, <1>2, <1>3, <1>4, GovernedRules DEF Governed!Emit
<1>6. QED
  BY <1>5 DEF Governed!Next

LEMMA StepRefines ==
  CooldownInv /\ [Next]_vars => [Governed!Next]_(Governed!governedVars)
<1> SUFFICES ASSUME CooldownInv, [Next]_vars
             PROVE  Governed!Next \/ UNCHANGED Governed!governedVars
  OBVIOUS
<1>1. CASE Tick
  BY <1>1 DEF Tick, Governed!Next, Governed!Pass
<1>2. ASSUME NEW id \in NominationId, NEW ip \in Addr, NEW asn \in Asn,
             NEW at \in 0 .. now, CreateNomination(id, ip, asn, at)
      PROVE  UNCHANGED Governed!governedVars
  BY <1>2 DEF CreateNomination, Governed!governedVars
<1>3. ASSUME NEW r \in Rule, AddExclusion(r)
      PROVE  Governed!Next
  BY <1>3 DEF AddExclusion, Governed!Next, Governed!Ban, Governed!Rule, Rule
<1>4. ASSUME NEW r \in exclusions, NEW page \in SUBSET attempts,
             PurgeAttempts(r, page)
      PROVE  UNCHANGED Governed!governedVars
  BY <1>4 DEF PurgeAttempts, Governed!governedVars
<1>5. ASSUME NEW ip \in Addr, NEW asn \in AnyAsn, NEW at \in LegacyTimes,
             ImportAttempt(ip, asn, at)
      PROVE  UNCHANGED Governed!governedVars
  BY <1>5 DEF ImportAttempt, Governed!governedVars
<1>6. ASSUME NEW l \in LeaseId, NEW n \in nominations, AcquireDiscovery(l, n)
      PROVE  Governed!Next
  <2>1. /\ n.ip \in Addr /\ n.asn \in Asn /\ n.asn \in AnyAsn
        /\ "active_discovery" \in Purpose
    BY DEF CooldownInv, TypeOK, Nomination, AnyAsn, Purpose
  <2>2. /\ Grant(l, n.ip, n.asn, "active_discovery")
        /\ CooledDown(n.ip) /\ AsnRules(exclusions) = {}
    BY <1>6 DEF AcquireDiscovery
  <2>3. QED
    BY <2>1, <2>2, GrantRefines
<1>7. ASSUME NEW l \in LeaseId, NEW ip \in HostedCallers, NEW asn \in AnyAsn,
             AcquireHosted(l, ip, asn)
      PROVE  Governed!Next
  <2>1. ip \in Addr /\ "hosted_self" \in Purpose
    BY DEF Purpose
  <2>2. Grant(l, ip, asn, "hosted_self")
    BY <1>7 DEF AcquireHosted
  <2>3. QED
    BY <2>1, <2>2, GrantRefines
<1>8. ASSUME NEW l \in LeaseId, NEW ip \in CanaryTargets, NEW asn \in AnyAsn,
             AcquireCanary(l, ip, asn)
      PROVE  Governed!Next
  <2>1. ip \in Addr /\ "owned_canary" \in Purpose
    BY DEF Purpose
  <2>2. Grant(l, ip, asn, "owned_canary")
    BY <1>8 DEF AcquireCanary
  <2>3. QED
    BY <2>1, <2>2, GrantRefines
<1>9. ASSUME NEW p \in permits, NEW expected \in Purpose,
             ConsumePermit(p, expected)
      PROVE  Governed!Next
  BY <1>9, ConsumeRefines
<1>10. ASSUME NEW l \in LeaseId, NEW expected \in Purpose,
              CompleteLease(l, expected)
       PROVE  UNCHANGED Governed!governedVars
  BY <1>10 DEF CompleteLease, Governed!governedVars
<1>11. CASE RunRetention
  BY <1>11 DEF RunRetention, Governed!governedVars
<1>12. CASE UNCHANGED vars
  BY <1>12 DEF vars, Governed!governedVars
<1>13. QED
  BY <1>1, <1>2, <1>3, <1>4, <1>5, <1>6, <1>7, <1>8, <1>9, <1>10, <1>11, <1>12
  DEF Next

(* Every grant and every emission of the permit path is one the abstract    *)
(* policy allows at that instant. *)
THEOREM PermitsImplementGoverned == Spec => GovernedSpec
<1>1. Init => Governed!Init
  BY DEF Init, Governed!Init
<1>2. QED
  BY <1>1, CooldownInvariant, StepRefines, PTL
  DEF Spec, GovernedSpec, Governed!Spec
=============================================================================
