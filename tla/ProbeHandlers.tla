---------------------------- MODULE ProbeHandlers ----------------------------
(***************************************************************************)
(* The Worker's handlers that send traffic: the hosted self-check, the      *)
(* discovery probe and the owned canary.  Each is a sequence of calls to    *)
(* the control plane (ProbePermits) with a probe in between; it awaits every *)
(* one, so handlers interleave with each other, with rules and purges, and   *)
(* any call may fail before or after it took effect.                        *)
(*                                                                         *)
(* What stops a request before its first call (authorisation, Turnstile,    *)
(* ports, the KV mirror of the rules) sends nothing and is left out, as are  *)
(* the abuse log and the KV copy of the result.  The requests one permit     *)
(* pays for are one probe.  Hosts do not expire within a run.               *)
(***************************************************************************)
EXTENDS ProbePermits

CONSTANTS
  Handler,     \* bound: requests ever handled
  Service,     \* TIER1: the services a self-check can name
  RequestAsn,  \* what request.cf.asn says of a visitor
  NotStarted, NoLease

ASSUME HandlerAssumption ==
  /\ RequestAsn \subseteq AnyAsn
  /\ NoLease \notin LeaseId

VARIABLES
  handlers,  \* the local variables of each request, or NotStarted
  outcomes,  \* attempts.outcome, by the lease the row carries
  hosts,     \* hosts: address and last_seen_at
  wire       \* history: the probes that opened a socket

handlerVars == <<handlers, outcomes, hosts, wire>>

allVars == <<vars, handlerVars>>

-----------------------------------------------------------------------------
(* "silent" is not_observed or target_error, which retireHosts treats alike. *)
Outcome == {"exposed", "silent", "platform_error"}

Stage == {"acquire", "consume", "probe", "complete", "store", "answered"}

(* The result; "No target traffic was sent."; 429; a refusal passed on by    *)
(* the other two handlers; attempt_completion_failed;                       *)
(* result_storage_failed. *)
Answer ==
  {"none", "ok", "no_traffic", "rate_limited", "denied", "completion_failed",
   "storage_failed"}

Invocation ==
  [stage : Stage, purpose : Purpose, ip : Addr, asn : AnyAsn,
   todo : SUBSET Service, lease : LeaseId \cup {NoLease},
   outcome : Outcome \cup {"none"}, exposed : BOOLEAN, answer : Answer]

(* A maintainer may report an outcome instead of the handler; the table does *)
(* not say who did. *)
Report == [lease : LeaseId, outcome : Outcome, by : {"handler", "maintainer"}]

Probed ==
  [by : Handler, lease : LeaseId, ip : Addr, purpose : Purpose,
   outcome : Outcome, at : Nat]

HandlerInit ==
  /\ Init
  /\ handlers = [h \in Handler |-> NotStarted]
  /\ outcomes = {}
  /\ hosts = {}
  /\ wire = {}

At(h, stage) == handlers[h] # NotStarted /\ handlers[h].stage = stage

Begin(h, stage, purpose, ip, asn, todo, lease) ==
  /\ handlers[h] = NotStarted
  /\ handlers' = [handlers EXCEPT ![h] =
       [stage |-> stage, purpose |-> purpose, ip |-> ip, asn |-> asn,
        todo |-> todo, lease |-> lease, outcome |-> "none",
        exposed |-> FALSE, answer |-> "none"]]
  /\ UNCHANGED <<vars, outcomes, hosts, wire>>

StartCheck(h, ip, asn, services) ==
  Begin(h, "acquire", "hosted_self", ip, asn, services, NoLease)

StartCanary(h, ip) ==
  \E s \in Service : Begin(h, "acquire", "owned_canary", ip, UnknownAsn, {s}, NoLease)

(* The runner posts a permit it was given, perhaps a second time because the *)
(* first call timed out. *)
StartProbe(h, g) ==
  /\ g.purpose = "active_discovery"
  /\ Begin(h, "consume", "active_discovery", g.ip, g.asn, {}, g.lease)

-----------------------------------------------------------------------------
(* The calls.                                                              *)

Moves(h, stage) == handlers' = [handlers EXCEPT ![h].stage = stage]

(* Of an answered request only what it told and had found is kept. *)
Answers(h, answer) ==
  handlers' = [handlers EXCEPT
    ![h].stage = "answered", ![h].answer = answer,
    ![h].todo = {}, ![h].lease = NoLease, ![h].outcome = "none"]

RateLimited(h) ==
  \E s \in RatePolicy(handlers[h].purpose) :
    ~CheckRate(s, KeyOf(s, handlers[h].ip, handlers[h].asn))

(* Anything but a 200 ends the request: a refusal, or controlCall's 503 for  *)
(* a call that threw. *)
GateClosed(h) ==
  IF handlers[h].purpose # "hosted_self" THEN Answers(h, "denied")
  ELSE \/ Answers(h, "no_traffic")
       \/ RateLimited(h) /\ Answers(h, "rate_limited")

AcquireFor(h, l) ==
  LET x == handlers[h]
  IN  IF x.purpose = "hosted_self" THEN AcquireHosted(l, x.ip, x.asn)
      ELSE AcquireCanary(l, x.ip, x.asn)

(* A lease of its own for every service, one after the other. *)
Acquire(h) ==
  /\ At(h, "acquire")
  /\ \/ \E l \in LeaseId :
          /\ AcquireFor(h, l)
          /\ \/ \E s \in handlers[h].todo :
                  handlers' = [handlers EXCEPT
                    ![h].stage = "consume",
                    ![h].lease = l,
                    ![h].todo = handlers[h].todo \ {s}]
             \/ GateClosed(h)
     \/ UNCHANGED vars /\ GateClosed(h)
  /\ UNCHANGED <<outcomes, hosts, wire>>

(* Mutant: a consumption that failed is taken for one whose reply was lost. *)
ConsumeAnyway(h) ==
  /\ At(h, "consume")
  /\ \/ \E p \in permits :
          p.lease = handlers[h].lease /\ ConsumePermit(p, handlers[h].purpose)
     \/ UNCHANGED vars
  /\ Moves(h, "probe")
  /\ UNCHANGED <<outcomes, hosts, wire>>

Consume(h) ==
  /\ At(h, "consume")
  /\ \/ \E p \in permits :
          /\ p.lease = handlers[h].lease
          /\ ConsumePermit(p, handlers[h].purpose)
          /\ Moves(h, "probe") \/ GateClosed(h)
     \/ UNCHANGED vars /\ GateClosed(h)
  /\ UNCHANGED <<outcomes, hosts, wire>>

(* runHostedPermit, runDiscoveryPermit: the address comes from the permit.    *)
(* A platform error may come before or after the socket is open. *)
Probe(h) ==
  /\ At(h, "probe")
  /\ \E o \in Outcome :
       /\ handlers' = [handlers EXCEPT
            ![h].stage = "complete",
            ![h].outcome = o,
            ![h].exposed = handlers[h].exposed \/ o = "exposed"]
       /\ \/ wire' = wire \cup
               {[by |-> h, lease |-> handlers[h].lease, ip |-> handlers[h].ip,
                 purpose |-> handlers[h].purpose, outcome |-> o, at |-> now]}
          \/ o = "platform_error" /\ UNCHANGED wire
  /\ UNCHANGED <<vars, outcomes, hosts>>

Told(l, o, who) == outcomes' = outcomes \cup {[lease |-> l, outcome |-> o, by |-> who]}

(* What follows a completion: the next service, storing what was exposed, or *)
(* the answer. *)
Proceeds(h) ==
  LET x == handlers[h]
  IN  \/ x.todo # {} /\ Moves(h, "acquire")
      \/ x.todo = {} /\ x.exposed /\ x.purpose # "owned_canary" /\ Moves(h, "store")
      \/ x.todo = {} /\ ~(x.exposed /\ x.purpose # "owned_canary") /\ Answers(h, "ok")

(* Only the discovery probe looks at the reply. *)
Unconfirmed(h) ==
  IF handlers[h].purpose = "active_discovery" THEN Answers(h, "completion_failed")
  ELSE Proceeds(h)

Complete(h) ==
  /\ At(h, "complete")
  /\ \/ /\ CompleteLease(handlers[h].lease, handlers[h].purpose)
        /\ Told(handlers[h].lease, handlers[h].outcome, "handler")
        /\ Proceeds(h) \/ Unconfirmed(h)
     \/ UNCHANGED <<vars, outcomes>> /\ Unconfirmed(h)
  /\ UNCHANGED <<hosts, wire>>

UpsertHost(ip) ==
  hosts' = {x \in hosts : x.ip # ip} \cup {[ip |-> ip, seen |-> now]}

(* Mutant: the reply to the upsert is not looked at. *)
StoreUnchecked(h) ==
  /\ At(h, "store")
  /\ \/ /\ ~IsExcluded(exclusions, handlers[h].ip, handlers[h].asn)
        /\ UpsertHost(handlers[h].ip)
     \/ UNCHANGED hosts
  /\ Answers(h, "ok")
  /\ UNCHANGED <<vars, outcomes, wire>>

Store(h) ==
  /\ At(h, "store")
  /\ \/ /\ ~IsExcluded(exclusions, handlers[h].ip, handlers[h].asn)
        /\ UpsertHost(handlers[h].ip)
        /\ Answers(h, "ok") \/ Answers(h, "storage_failed")
     \/ UNCHANGED hosts /\ Answers(h, "storage_failed")
  /\ UNCHANGED <<vars, outcomes, wire>>

-----------------------------------------------------------------------------
(* What happens beside the handlers.                                       *)

(* Maintainers may spend a discovery permit, and complete its lease, without *)
(* the handler. *)
ConsumeDirectly(p) ==
  /\ ConsumePermit(p, "active_discovery")
  /\ UNCHANGED handlerVars

CompleteDirectly(l, o) ==
  /\ CompleteLease(l, "active_discovery")
  /\ Told(l, o, "maintainer")
  /\ UNCHANGED <<handlers, hosts, wire>>

OutcomesOf(a) == {o.outcome : o \in {x \in outcomes : x.lease = a.lease}}

(* Mutant: an attempt of any age is evidence. *)
RetireHostEver(ip) ==
  /\ \E a \in attempts :
       /\ a.ip = ip /\ a.purpose = "active_discovery" /\ a.state = "complete"
       /\ "silent" \in OutcomesOf(a)
  /\ hosts' = {x \in hosts : x.ip # ip}
  /\ UNCHANGED <<vars, handlers, outcomes, wire>>

(* A host goes when the latest discovery of it is younger than its last      *)
(* answer, complete, and found nothing. *)
RetireHost(ip) ==
  /\ \E x \in hosts, a \in attempts :
       /\ x.ip = ip
       /\ a.ip = ip /\ a.purpose = "active_discovery" /\ a.state = "complete"
       /\ a.last >= x.seen
       /\ "silent" \in OutcomesOf(a)
  /\ hosts' = {x \in hosts : x.ip # ip}
  /\ UNCHANGED <<vars, handlers, outcomes, wire>>

(* An ASN rule matches the attribution stored with the row, left out here. *)
MayCover(r, ip) == \E asn \in AnyAsn : RuleMatches(r, ip, asn)

PurgeHosts(r, page) ==
  /\ r \in exclusions
  /\ \A x \in page : MayCover(r, x.ip)
  /\ hosts' = hosts \ page
  /\ UNCHANGED <<vars, handlers, outcomes, wire>>

(* Imported attempts are left out: to a handler and to retireHosts a row     *)
(* whose outcome is legacy_import is a row that a purge took. *)
Beside ==
  \/ Tick
  \/ \E id \in NominationId, ip \in Addr, asn \in Asn, at \in 0 .. now :
       CreateNomination(id, ip, asn, at)
  \/ \E r \in Rule : AddExclusion(r)
  \/ \E r \in exclusions, page \in SUBSET attempts : PurgeAttempts(r, page)
  \/ \E l \in LeaseId, n \in nominations : AcquireDiscovery(l, n)
  \/ RunRetention

Handles(h) ==
  \/ \E ip \in HostedCallers, asn \in RequestAsn, services \in (SUBSET Service) \ {{}} :
       StartCheck(h, ip, asn, services)
  \/ \E ip \in CanaryTargets : StartCanary(h, ip)
  \/ \E g \in granted : StartProbe(h, g)
  \/ Acquire(h)
  \/ Consume(h)
  \/ Probe(h)
  \/ Complete(h)
  \/ Store(h)

HandlerNext ==
  \/ \E h \in Handler : Handles(h)
  \/ Beside /\ UNCHANGED handlerVars
  \/ \E p \in permits : ConsumeDirectly(p)
  \/ \E l \in LeaseId, o \in Outcome : CompleteDirectly(l, o)
  \/ \E ip \in Addr : RetireHost(ip)
  \/ \E r \in exclusions, page \in SUBSET hosts : PurgeHosts(r, page)

HandlerSpec == HandlerInit /\ [][HandlerNext]_allVars

-----------------------------------------------------------------------------
(* Properties.                                                             *)

(* Every variable has its type. *)
HandlerTypeOK ==
  /\ TypeOK
  /\ handlers \in [Handler -> Invocation \cup {NotStarted}]
  /\ outcomes \subseteq Report
  /\ hosts \subseteq [ip : Addr, seen : Nat]
  /\ wire \subseteq Probed

(* No traffic is unaccounted: every probe has an emission the control plane  *)
(* recorded before it, at the same address and for the same purpose, and no  *)
(* two probes share one, although permits are posted twice and replies are   *)
(* lost. *)
TrafficAccounted ==
  /\ \A w \in wire : \E e \in emissions :
       e.lease = w.lease /\ e.ip = w.ip /\ e.purpose = w.purpose /\ e.at <= w.at
  /\ \A v, w \in wire : v.lease = w.lease => v = w

(* What the invariant says of a request in a state of the permit tables:     *)
(* who may ask; the permit it posts was granted for its address and purpose; *)
(* at the socket its emission is recorded and nothing was sent on it yet.    *)
IsFor(r, x) == r.lease = x.lease /\ r.ip = x.ip /\ r.purpose = x.purpose

Rightful(x, grants, sent, probes, clock) ==
  /\ x.purpose = "hosted_self" => x.ip \in HostedCallers
  /\ x.purpose = "owned_canary" => x.ip \in CanaryTargets
  /\ x.purpose = "active_discovery" => x.stage # "acquire" /\ x.todo = {}
  /\ x.stage = "consume" => \E g \in grants : IsFor(g, x)
  /\ x.stage = "probe" => /\ \E e \in sent : IsFor(e, x) /\ e.at <= clock
                          /\ \A w \in probes : w.lease # x.lease
  /\ x.stage = "complete" => x.lease \in LeaseId /\ x.outcome \in Outcome

RequestsRightful ==
  \A h \in Handler : handlers[h] # NotStarted =>
    Rightful(handlers[h], granted, emissions, wire, now)

(* No two requests are about to send on one lease. *)
OneAtTheSocket ==
  \A h, k \in Handler :
    /\ At(h, "probe") /\ At(k, "probe")
    /\ handlers[h].lease = handlers[k].lease
    => h = k

(* What TrafficAccounted rests on. *)
TrafficInv ==
  /\ CooldownInv
  /\ HandlerTypeOK
  /\ RequestsRightful
  /\ OneAtTheSocket
  /\ TrafficAccounted

(* A discovery of the address that found nothing since time t; a maintainer  *)
(* may have done it with a permit of its own. *)
FoundSilent(ip, t) ==
  \/ \E w \in wire : /\ w.ip = ip /\ w.purpose = "active_discovery"
                     /\ w.at >= t /\ w.outcome = "silent"
  \/ \E o \in outcomes, e \in emissions :
       /\ o.by = "maintainer" /\ o.outcome = "silent"
       /\ e.lease = o.lease /\ e.ip = ip /\ e.at >= t

(* A host that no rule covers leaves the corpus only after a discovery probe *)
(* sent since it last answered found nothing; a platform failure never       *)
(* counts as that. *)
RetiredOnEvidence ==
  [][\A x \in hosts :
       /\ \A y \in hosts' : y.ip # x.ip
       /\ \A r \in exclusions : ~MayCover(r, x.ip)
       => FoundSilent(x.ip, x.seen)]_allVars

(* An exposure answered with 200 is in the corpus, unless a rule has taken   *)
(* it or a later discovery found nothing any more. *)
ExposureStored ==
  \A h \in Handler :
    At(h, "answered") /\ handlers[h].answer = "ok" /\ handlers[h].exposed
      /\ handlers[h].purpose # "owned_canary"
    => \/ \E x \in hosts : x.ip = handlers[h].ip
       \/ \E r \in exclusions : MayCover(r, handlers[h].ip)
       \/ \E v \in wire : v.by = h /\ v.outcome = "exposed"
                          /\ FoundSilent(handlers[h].ip, v.at)

(* What RetiredOnEvidence and ExposureStored rest on.  What is reported, and  *)
(* what a request is about to report, was found by a probe on that lease.    *)
ReportsBacked ==
  \A o \in outcomes :
    /\ o.lease \in Leases(emissions)
    /\ o.by = "handler" /\ o.outcome # "platform_error" =>
         \E w \in wire : w.lease = o.lease /\ w.outcome = o.outcome

FindingBacked(h) ==
  At(h, "complete") /\ handlers[h].outcome # "platform_error" =>
    \E w \in wire : w.lease = handlers[h].lease /\ w.outcome = handlers[h].outcome

SawExposure(h, v) == v \in wire /\ v.by = h /\ v.outcome = "exposed" /\ v.at <= now

ExposureBacked(h) ==
  handlers[h] # NotStarted /\ handlers[h].exposed => \E v \in wire : SawExposure(h, v)

HostsOnce ==
  /\ \A x, y \in hosts : x.ip = y.ip => x = y
  /\ \A x \in hosts : x.seen <= now

(* Why an exposure found at t may be missing from the corpus, or is there. *)
Kept(ip, t) ==
  \/ \E x \in hosts : x.ip = ip /\ t <= x.seen
  \/ \E r \in exclusions : MayCover(r, ip)
  \/ FoundSilent(ip, t)

StoredSince(h) ==
  At(h, "answered") /\ handlers[h].answer = "ok" /\ handlers[h].exposed
    /\ handlers[h].purpose # "owned_canary"
  => \E v \in wire : SawExposure(h, v) /\ Kept(handlers[h].ip, v.at)

Evident(h) == FindingBacked(h) /\ ExposureBacked(h) /\ StoredSince(h)

EvidenceInv ==
  /\ ReportsBacked
  /\ HostsOnce
  /\ \A h \in Handler : Evident(h)

(* The inductive invariant of the handlers. *)
HandlerInv == TrafficInv /\ RowsBacked /\ EvidenceInv

(* "No target traffic was sent." is answered only if none was. *)
NoTrafficMeansNone ==
  \A h \in Handler :
    At(h, "answered") /\ handlers[h].answer = "no_traffic" => \A w \in wire : w.by # h
=============================================================================
