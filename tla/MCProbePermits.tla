---------------------------- MODULE MCProbePermits ----------------------------
(* Instances of ProbePermits for TLC.  One unit of time is PERMIT_TTL_MS    *)
(* (60 s), the window of the active_* scopes; the longer durations are      *)
(* shortened and keep their order.                                         *)
EXTENDS ProbePermits, TLC

CONSTANTS a1, net1, net2

(* The CIDR blocks of a run: each address on its own. *)
SingleAddresses == {{a} : a \in Addr}

FirstAddress == {{a1}}

OneNet == [a \in Addr |-> net1]

NetPerAddress == [a \in Addr |-> IF a = a1 THEN net1 ELSE net2]

(* Per network 1, per ASN and day 2, overall 3: in the order of the code. *)
SmallLimits ==
  [s \in Scope |->
     CASE s \in {"active_asn", "hosted_ip_day"} -> 2
       [] s \in {"active_global_minute", "hosted_global_day"} -> 3
       [] OTHER -> 1]

Windows ==
  [s \in Scope |->
     CASE s \in {"hosted_ip_day", "hosted_global_day", "owned_canary_10m"} -> 2
       [] OTHER -> 1]

(* Bound: two worlds that share one start.  Discovery of both addresses, two *)
(* leases, with imports; self-checks and canary probes of a1, three leases,  *)
(* a unit of time less and one rule at most.  Rules, purges, retention and   *)
(* expiry act in both. *)
DiscoveryWorld ==
  /\ Cardinality(granted) <= 2
  /\ \A g \in granted : g.purpose = "active_discovery"

OwnerWorld ==
  /\ now < MaxTime
  /\ nominations = {}
  /\ \A a \in attempts : a.lease \in LeaseId /\ a.ip = a1
  /\ \A g \in granted : g.asn # UnknownAsn
  /\ Cardinality(exclusions) <= 1

Worlds == DiscoveryWorld \/ OwnerWorld

Symmetry == Permutations(LeaseId) \cup Permutations(NominationId)
=============================================================================
