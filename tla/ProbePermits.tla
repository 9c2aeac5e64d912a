----------------------------- MODULE ProbePermits -----------------------------
(***************************************************************************)
(* The permit path of the DiscoveryControlPlane Durable Object: the tables *)
(* nominations, attempts, permits, rate_events and exclusions, and every   *)
(* handler that writes them.  The object is single-threaded and these      *)
(* handlers do not await, so each is one action; what interleaves is the   *)
(* order of the calls, and the clock.                                      *)
(*                                                                         *)
(* Services and ports travel unchanged from nomination to permit and       *)
(* decide nothing here, so they are left out, and with them the refusals   *)
(* of an unknown service or port.  `outcome' is kept by ProbeHandlers.      *)
(* granted, emissions and reported are history: they record what the       *)
(* handlers answered and no guard reads them but the freshness of a UUID.  *)
(***************************************************************************)
EXTENDS ProbeParameters, FiniteSets

CONSTANTS
  Net,               \* the /24 and /48 buckets of addressBucket
  NetOf,             \* the bucket of each address
  NominationId,      \* bound: nominations a run can create
  LegacyTimes,       \* bound: when the imported attempts say they were made
  HostedCallers,     \* addresses that ask for a self-check
  CanaryTargets,     \* OWNED_CANARY_TARGET_IP, or none when it is disabled
  ProvenanceMaxAge,  \* PROVENANCE_MAX_AGE_MS
  AttemptRetention,  \* ATTEMPT_RETENTION_MS
  RateRetention,     \* how long runRetention keeps a rate event (DAY_MS)
  Limit,             \* per rate scope, the events allowed ...
  Window,            \* ... in how long a window
  MaxTime            \* bound: the last instant of a run

Scope ==
  {"active_net", "active_asn", "active_global_minute", "hosted_ip_15m",
   "hosted_ip_day", "hosted_global_day", "owned_canary_10m"}

LegacyLease(ip) == <<"legacy", ip>>

ASSUME PermitAssumption ==
  /\ NetOf \in [Addr -> Net]
  /\ HostedCallers \subseteq Addr
  /\ CanaryTargets \subseteq Addr
  /\ LegacyTimes \subseteq Nat
  /\ ProvenanceMaxAge \in Nat
  /\ AttemptRetention \in Nat
  /\ RateRetention \in Nat
  /\ Limit \in [Scope -> Nat]
  /\ Window \in [Scope -> Nat]
  /\ MaxTime \in Nat
  \* The lease importAttempts writes is no UUID.
  /\ \A ip \in Addr : LegacyLease(ip) \notin LeaseId
  \* A cooldown and a permit outlive neither the attempt row nor a window its events.
  /\ Cooldown <= AttemptRetention
  /\ PermitTtl <= AttemptRetention
  /\ \A s \in Scope : Window[s] <= RateRetention

VARIABLES
  now,          \* authoritativeNow
  exclusions,   \* the rules of the exclusions table; none is ever inactive
  nominations,
  attempts,     \* one row per address and purpose
  permits,
  rateEvents,
  granted,      \* history: every lease acquireLease answered with
  emissions,    \* history: every consumption consumePermit answered with
  reported      \* history: leases whose completion was accepted

vars == <<now, exclusions, nominations, attempts, permits, rateEvents,
          granted, emissions, reported>>

-----------------------------------------------------------------------------
Nomination ==
  [id : NominationId, ip : Addr, asn : Asn, observed : Nat,
   state : {"available", "leased"}]

AttemptLease == LeaseId \cup {LegacyLease(ip) : ip \in Addr}

Attempt ==
  [ip : Addr, purpose : Purpose, asn : AnyAsn, lease : AttemptLease,
   state : {"acquired", "emitted", "complete"},
   last : Nat, next : Nat, updated : Nat]

Permit ==
  [lease : LeaseId, ip : Addr, asn : AnyAsn, purpose : Purpose,
   remaining : {0, 1}, expires : Nat]

(* The table has no lease column; here it tells equal rows apart. *)
RateKey == Addr \cup Net \cup AnyAsn \cup {"global"}

RateEvent == [lease : LeaseId, scope : Scope, key : RateKey, at : Nat]

Init ==
  /\ now = 0
  /\ exclusions = {}
  /\ nominations = {}
  /\ attempts = {}
  /\ permits = {}
  /\ rateEvents = {}
  /\ granted = {}
  /\ emissions = {}
  /\ reported = {}

Tick ==
  /\ now < MaxTime
  /\ now' = now + 1
  /\ UNCHANGED <<exclusions, nominations, attempts, permits, rateEvents,
                 granted, emissions, reported>>

-----------------------------------------------------------------------------
(* Nominations, exclusions, legacy rows.                                   *)

(* The index may attribute an address to any ASN, and nominates excluded   *)
(* addresses too: only acquireLease looks at the rules.                    *)
CreateNomination(id, ip, asn, observed) ==
  /\ \A n \in nominations : n.id # id
  /\ observed <= now
  /\ now - observed <= ProvenanceMaxAge
  /\ nominations' = nominations \cup
       {[id |-> id, ip |-> ip, asn |-> asn, observed |-> observed,
         state |-> "available"]}
  /\ UNCHANGED <<now, exclusions, attempts, permits, rateEvents,
                 granted, emissions, reported>>

AddExclusion(r) ==
  /\ exclusions' = exclusions \cup {r}
  /\ UNCHANGED <<now, nominations, attempts, permits, rateEvents,
                 granted, emissions, reported>>

(* One page of resumePurge over the attempts table deletes some of the rows *)
(* its rule matches; which, ExclusionPurge says.                           *)
PurgeAttempts(r, page) ==
  /\ r \in exclusions
  /\ \A a \in page : RuleMatches(r, a.ip, a.asn)
  /\ attempts' = attempts \ page
  /\ UNCHANGED <<now, exclusions, nominations, permits, rateEvents,
                 granted, emissions, reported>>

(* Mutant: the upsert's WHERE clause is missing. *)
ImportAttemptAlways(ip, asn, at) ==
  /\ ~IsExcluded(exclusions, ip, asn)
  /\ attempts' =
       {a \in attempts : ~(a.ip = ip /\ a.purpose = "active_discovery")} \cup
       {[ip |-> ip, purpose |-> "active_discovery", asn |-> asn,
         lease |-> LegacyLease(ip), state |-> "complete",
         last |-> at, next |-> at + Cooldown, updated |-> at]}
  /\ UNCHANGED <<now, exclusions, nominations, permits, rateEvents,
                 granted, emissions, reported>>

(* A KV-era attempt replaces the row only if it is younger. *)
ImportAttempt(ip, asn, at) ==
  LET prior == {a \in attempts : a.ip = ip /\ a.purpose = "active_discovery"}
  IN  /\ ~IsExcluded(exclusions, ip, asn)
      /\ \A a \in prior : a.last < at
      /\ attempts' = (attempts \ prior) \cup
           {[ip |-> ip, purpose |-> "active_discovery", asn |-> asn,
             lease |-> LegacyLease(ip), state |-> "complete",
             last |-> at, next |-> at + Cooldown, updated |-> at]}
      /\ UNCHANGED <<now, exclusions, nominations, permits, rateEvents,
                     granted, emissions, reported>>

-----------------------------------------------------------------------------
(* Leases.                                                                 *)

(* active_unknown_asn is never reached: discovery refuses an unknown ASN.  *)
RatePolicy(purpose) ==
  CASE purpose = "active_discovery" ->
         {"active_net", "active_asn", "active_global_minute"}
    [] purpose = "hosted_self" ->
         {"hosted_ip_15m", "hosted_ip_day", "hosted_global_day"}
    [] purpose = "owned_canary" -> {"owned_canary_10m"}

KeyOf(scope, ip, asn) ==
  CASE scope = "active_net" -> NetOf[ip]
    [] scope = "active_asn" -> asn
    [] scope \in {"hosted_ip_15m", "hosted_ip_day"} -> ip
    [] OTHER -> "global"

EventsInWindow(scope, key) ==
  {e \in rateEvents :
     e.scope = scope /\ e.key = key /\ e.at > now - Window[scope]}

(* Mutant: one grant too many per window. *)
CheckRateInclusive(scope, key) ==
  Cardinality(EventsInWindow(scope, key)) <= Limit[scope]

CheckRate(scope, key) ==
  Cardinality(EventsInWindow(scope, key)) < Limit[scope]

(* Mutant: no purpose waits. *)
NextEligibleAtOnce(purpose) == now

NextEligible(purpose) ==
  IF purpose = "active_discovery" THEN now + Cooldown ELSE now

(* The checks every purpose ends with and the transaction they guard. *)
Grant(l, ip, asn, purpose) ==
  /\ l \notin Leases(granted)
  /\ ~IsExcluded(exclusions, ip, asn)
  /\ \A s \in RatePolicy(purpose) : CheckRate(s, KeyOf(s, ip, asn))
  /\ rateEvents' = rateEvents \cup
       {[lease |-> l, scope |-> s, key |-> KeyOf(s, ip, asn), at |-> now] :
          s \in RatePolicy(purpose)}
  /\ attempts' = {a \in attempts : ~(a.ip = ip /\ a.purpose = purpose)} \cup
       {[ip |-> ip, purpose |-> purpose, asn |-> asn, lease |-> l,
         state |-> "acquired", last |-> now, next |-> NextEligible(purpose),
         updated |-> now]}
  /\ permits' = permits \cup
       {[lease |-> l, ip |-> ip, asn |-> asn, purpose |-> purpose,
         remaining |-> 1, expires |-> now + PermitTtl]}
  /\ granted' = granted \cup
       {[lease |-> l, ip |-> ip, asn |-> asn, purpose |-> purpose, at |-> now]}
  /\ UNCHANGED <<now, exclusions, emissions, reported>>

CooledDown(ip) ==
  \A a \in attempts :
    a.ip = ip /\ a.purpose = "active_discovery" => a.next <= now

(* Discovery names a nomination and nothing else; any ASN-wide rule pauses  *)
(* it altogether, because the index is what attributed the address.        *)
AcquireDiscovery(l, n) ==
  /\ n.state = "available"
  /\ n.observed + ProvenanceMaxAge >= now
  /\ AsnRules(exclusions) = {}
  /\ CooledDown(n.ip)
  /\ Grant(l, n.ip, n.asn, "active_discovery")
  /\ nominations' = (nominations \ {n}) \cup {[n EXCEPT !.state = "leased"]}

(* Mutant: an emitted probe no longer counts as in progress. *)
ProbeNotYetEmitted(ip) ==
  \E a \in attempts, p \in permits :
    /\ a.ip = ip
    /\ a.purpose = "hosted_self"
    /\ a.state = "acquired"
    /\ p.lease = a.lease
    /\ p.expires >= now

(* A self-check still in progress: its row is open and its permit lives.   *)
ProbeInProgress(ip) ==
  \E a \in attempts, p \in permits :
    /\ a.ip = ip
    /\ a.purpose = "hosted_self"
    /\ a.state \in {"acquired", "emitted"}
    /\ p.lease = a.lease
    /\ p.expires >= now

AcquireHosted(l, ip, asn) ==
  /\ ~ProbeInProgress(ip)
  /\ Grant(l, ip, asn, "hosted_self")
  /\ UNCHANGED nominations

AcquireCanary(l, ip, asn) ==
  /\ Grant(l, ip, asn, "owned_canary")
  /\ UNCHANGED nominations

(* Mutant: the opt-out is checked at the lease only. *)
ConsumableUnchecked(p, expected) ==
  /\ p.purpose = expected
  /\ p.expires >= now
  /\ p.remaining >= 1
  /\ \E a \in attempts : a.lease = p.lease /\ a.state = "acquired"

(* Mutant: a permit is good for its whole life. *)
ConsumableForLife(p, expected) ==
  /\ p.purpose = expected
  /\ p.expires >= now
  /\ ~IsExcluded(exclusions, p.ip, p.asn)
  /\ \E a \in attempts : a.lease = p.lease

(* consumePermit joins the permit to whatever row now carries its lease:    *)
(* no row, or one that has moved on, invalidates it.                       *)
Consumable(p, expected) ==
  /\ p.purpose = expected
  /\ p.expires >= now
  /\ p.remaining >= 1
  /\ ~IsExcluded(exclusions, p.ip, p.asn)
  /\ \E a \in attempts : a.lease = p.lease /\ a.state = "acquired"

(* An attempt row's next lease state; both updates touch updated_at. *)
Moved(a, state) == [a EXCEPT !.state = state, !.updated = now]

(* The permit with one use fewer. *)
Spend(p) ==
  [lease |-> p.lease, ip |-> p.ip, asn |-> p.asn, purpose |-> p.purpose,
   remaining |-> p.remaining - 1, expires |-> p.expires]

ConsumePermit(p, expected) ==
  /\ Consumable(p, expected)
  /\ permits' = (permits \ {p}) \cup {Spend(p)}
  /\ attempts' =
       {IF a.lease = p.lease THEN Moved(a, "emitted") ELSE a : a \in attempts}
  /\ emissions' = emissions \cup
       {[lease |-> p.lease, ip |-> p.ip, asn |-> p.asn,
         purpose |-> p.purpose, at |-> now]}
  /\ UNCHANGED <<now, exclusions, nominations, rateEvents, granted, reported>>

CompleteLease(l, expected) ==
  /\ \E a \in attempts :
       a.lease = l /\ a.purpose = expected /\ a.state = "emitted"
  /\ attempts' =
       {IF a.lease = l THEN Moved(a, "complete") ELSE a : a \in attempts}
  /\ reported' = reported \cup {l}
  /\ UNCHANGED <<now, exclusions, nominations, permits, rateEvents,
                 granted, emissions>>

(* Mutant: rate events are dropped as soon as permits are. *)
RunRetentionEager ==
  /\ permits' = {p \in permits : p.expires >= now}
  /\ rateEvents' = {e \in rateEvents : e.at >= now}
  /\ attempts' = {a \in attempts : a.updated >= now - AttemptRetention}
  /\ UNCHANGED <<now, exclusions, nominations, granted, emissions, reported>>

(* runRetention's deletes that touch these tables; hosts are in            *)
(* CorpusAggregates.                                                       *)
RunRetention ==
  /\ permits' = {p \in permits : p.expires >= now}
  /\ rateEvents' = {e \in rateEvents : e.at >= now - RateRetention}
  /\ attempts' = {a \in attempts : a.updated >= now - AttemptRetention}
  /\ UNCHANGED <<now, exclusions, nominations, granted, emissions, reported>>

-----------------------------------------------------------------------------
Next ==
  \/ Tick
  \/ \E id \in NominationId, ip \in Addr, asn \in Asn, at \in 0 .. now :
       CreateNomination(id, ip, asn, at)
  \/ \E r \in Rule : AddExclusion(r)
  \/ \E r \in exclusions, page \in SUBSET attempts : PurgeAttempts(r, page)
  \/ \E ip \in Addr, asn \in AnyAsn, at \in LegacyTimes :
       ImportAttempt(ip, asn, at)
  \/ \E l \in LeaseId, n \in nominations : AcquireDiscovery(l, n)
  \/ \E l \in LeaseId, ip \in HostedCallers, asn \in AnyAsn :
       AcquireHosted(l, ip, asn)
  \/ \E l \in LeaseId, ip \in CanaryTargets, asn \in AnyAsn :
       AcquireCanary(l, ip, asn)
  \/ \E p \in permits, expected \in Purpose : ConsumePermit(p, expected)
  \/ \E l \in LeaseId, expected \in Purpose : CompleteLease(l, expected)
  \/ RunRetention

Spec == Init /\ [][Next]_vars

-----------------------------------------------------------------------------
(* Properties.                                                             *)

(* Every table holds rows of its type. *)
TypeOK ==
  /\ now \in Nat
  /\ exclusions \subseteq Rule
  /\ nominations \subseteq Nomination
  /\ attempts \subseteq Attempt
  /\ permits \subseteq Permit
  /\ rateEvents \subseteq RateEvent
  /\ granted \subseteq ProbeRecord
  /\ emissions \subseteq ProbeRecord
  /\ reported \subseteq LeaseId

(* However calls, purges, imports, retention and time interleave, two       *)
(* third-party emissions at one address are at least a cooldown less one    *)
(* permit lifetime apart: the cooldown runs from the lease, the packet may  *)
(* leave as late as the permit expires.                                     *)
EmissionSpacing ==
  \A e, f \in emissions :
    /\ e.purpose = "active_discovery" /\ f.purpose = "active_discovery"
    /\ e.ip = f.ip
    /\ e.lease # f.lease
    => \/ e.at + Cooldown <= f.at + PermitTtl
       \/ f.at + Cooldown <= e.at + PermitTtl

(* Grants inside the window that ends at t, by what was granted and not by *)
(* the rate_events rows, which retention deletes. *)
GrantsInWindow(scope, key, t) ==
  {g \in granted :
     /\ scope \in RatePolicy(g.purpose)
     /\ KeyOf(scope, g.ip, g.asn) = key
     /\ t - Window[scope] < g.at
     /\ g.at <= t}

(* No window of any scope ever holds more grants than the scope allows,      *)
(* although retention keeps deleting rate events.  A window holds no more    *)
(* than the one that ends with its last grant. *)
RateCeiling ==
  \A g \in granted : \A s \in RatePolicy(g.purpose) :
    Cardinality(GrantsInWindow(s, KeyOf(s, g.ip, g.asn), g.at)) <= Limit[s]

(* Two self-checks of one address are both under way (emitted, completion   *)
(* not accepted) only if the older one's permit had expired before the      *)
(* younger one was granted, or a rule has since covered one of them: a      *)
(* purge takes the row that marked it as in progress.                       *)
InFlight(g) ==
  g.lease \in Leases(emissions) /\ g.lease \notin reported

HostedOverlap ==
  \A g, h \in granted :
    /\ g.purpose = "hosted_self" /\ h.purpose = "hosted_self"
    /\ g.ip = h.ip /\ g.lease # h.lease
    /\ InFlight(g) /\ InFlight(h)
    /\ ~IsExcluded(exclusions, g.ip, g.asn)
    /\ ~IsExcluded(exclusions, h.ip, h.asn)
    => g.at + PermitTtl < h.at \/ h.at + PermitTtl < g.at

(* No third-party probe leaves while an ASN-wide rule stands, whichever     *)
(* system it names. *)
DiscoveryPausedByAsnRule ==
  [][\A e \in emissions' \ emissions :
       e.purpose = "active_discovery" => AsnRules(exclusions) = {}]_vars

-----------------------------------------------------------------------------
(* The inductive invariant.  First what EmissionSpacing and GovernedSpec    *)
(* rest on: why forgetting rows never forgets a cooldown.                  *)

(* A row asks for a wait of at most Cooldown, and is young if it asks at all. *)
AttemptClock ==
  \A a \in attempts :
    /\ a.next <= a.last + Cooldown
    /\ a.last <= a.updated
    /\ a.lease \in LeaseId => a.last <= now

(* No discovery will be leased for the address again. *)
Barred(ip) ==
  \/ AsnRules(exclusions) # {}
  \/ \E b \in exclusions : b \in Block /\ ip \in b

(* A running cooldown is held by a row, or by a rule that outlives it. *)
CooldownHeld ==
  \A g \in granted : g.purpose = "active_discovery" =>
    \/ g.at + Cooldown <= now
    \/ Barred(g.ip)
    \/ \E a \in attempts :
         /\ a.ip = g.ip
         /\ a.purpose = "active_discovery"
         /\ g.at + Cooldown <= a.next

GrantsOnce ==
  \A g, h \in granted : g.lease = h.lease => g = h

GrantsPast == \A g \in granted : g.at <= now

GrantSpacing ==
  \A g, h \in granted :
    /\ g.purpose = "active_discovery" /\ h.purpose = "active_discovery"
    /\ g.ip = h.ip
    /\ g.lease # h.lease
    => g.at + Cooldown <= h.at \/ h.at + Cooldown <= g.at

PermitsGranted ==
  \A p \in permits : \E g \in granted :
    /\ g.lease = p.lease /\ g.ip = p.ip
    /\ g.asn = p.asn /\ g.purpose = p.purpose
    /\ p.expires = g.at + PermitTtl

(* An emission is of a grant, and within its permit's life. *)
EmissionsGranted ==
  \A e \in emissions : \E g \in granted :
    /\ g.lease = e.lease /\ g.ip = e.ip /\ g.purpose = e.purpose
    /\ g.at <= e.at /\ e.at <= g.at + PermitTtl

(* Once emitted, a lease is never open for consumption again. *)
SpentLeases ==
  \A e \in emissions, a \in attempts :
    a.lease = e.lease => a.state # "acquired"

CooldownInv ==
  /\ TypeOK
  /\ AttemptClock
  /\ CooldownHeld
  /\ GrantsOnce
  /\ GrantsPast
  /\ GrantSpacing
  /\ PermitsGranted
  /\ EmissionsGranted
  /\ SpentLeases

(* What RateCeiling and HostedOverlap rest on.                             *)

(* A grant is counted by its events for as long as any window may ask. *)
EventsKept ==
  \A g \in granted : \A s \in RatePolicy(g.purpose) :
    \/ g.at < now - RateRetention
    \/ [lease |-> g.lease, scope |-> s, key |-> KeyOf(s, g.ip, g.asn), at |-> g.at]
         \in rateEvents

(* A self-check whose completion was not accepted is held as in progress by *)
(* its row and its permit, until the permit has expired or a rule covers it. *)
HostedHeld ==
  \A g \in granted : g.purpose = "hosted_self" /\ g.lease \notin reported =>
    \/ g.at + PermitTtl < now
    \/ IsExcluded(exclusions, g.ip, g.asn)
    \/ /\ \E a \in attempts :
             /\ a.lease = g.lease /\ a.ip = g.ip /\ a.asn = g.asn
             /\ a.purpose = "hosted_self" /\ a.state # "complete"
             /\ g.at <= a.updated
       /\ \E p \in permits : p.lease = g.lease /\ p.expires = g.at + PermitTtl

(* HostedOverlap of leases whether or not their packets have left. *)
HostedApart ==
  \A g, h \in granted :
    /\ g.purpose = "hosted_self" /\ h.purpose = "hosted_self"
    /\ g.ip = h.ip /\ g.lease # h.lease
    /\ g.lease \notin reported /\ h.lease \notin reported
    /\ ~IsExcluded(exclusions, g.ip, g.asn)
    /\ ~IsExcluded(exclusions, h.ip, h.asn)
    => g.at + PermitTtl < h.at \/ h.at + PermitTtl < g.at

PacingInv ==
  /\ IsFiniteSet(rateEvents)
  /\ EventsKept
  /\ RateCeiling
  /\ HostedHeld
  /\ HostedApart

(* What ProbeHandlers rests on: a row with a lease of this plane tells when  *)
(* and where it was granted, and once it has moved on its packet is recorded. *)
RowsBacked ==
  \A a \in attempts : a.lease \in LeaseId =>
    /\ \E g \in granted :
         g.lease = a.lease /\ g.ip = a.ip /\ g.purpose = a.purpose /\ g.at = a.last
    /\ a.state # "acquired" => a.lease \in Leases(emissions)

IInv == CooldownInv /\ PacingInv /\ RowsBacked

-----------------------------------------------------------------------------
(* The control plane as its abstract specification sees it: each grant and  *)
(* each emission is one the policy allows at that instant. *)
Governed == INSTANCE GovernedProbing WITH
  clock <- now, banned <- exclusions, grants <- granted, packets <- emissions

GovernedSpec == Governed!Spec
=============================================================================
