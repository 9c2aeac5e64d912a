--------------------------- MODULE MCProbeHandlers ---------------------------
(* Instances of ProbeHandlers for TLC: one address, and every duration one   *)
(* unit, so that an attempt can be older or younger than a sighting.        *)
EXTENDS ProbeHandlers, TLC

CONSTANTS a1, net1

FirstAddress == {{a1}}

OneNet == [a \in Addr |-> net1]

(* A visitor may have two services checked; everyone else gets one probe.   *)
TwoHosted ==
  [s \in Scope |->
     IF s \in {"hosted_ip_15m", "hosted_ip_day", "hosted_global_day"} THEN 2 ELSE 1]

OneUnit == [s \in Scope |-> 1]

Symmetry ==
  Permutations(LeaseId) \cup Permutations(Handler) \cup Permutations(Service)
=============================================================================
