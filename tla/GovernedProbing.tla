--------------------------- MODULE GovernedProbing ---------------------------
(***************************************************************************)
(* What the control plane promises about target traffic, without tables:   *)
(* who was granted a probe, what was emitted, and which rules stand.       *)
(*                                                                         *)
(*   - a third party is granted at most one probe per Cooldown, never while *)
(*     an ASN-wide rule stands, whatever becomes of the grant;             *)
(*   - a grant is spent at most once, within PermitTtl, and never on an    *)
(*     address excluded at that instant;                                   *)
(*   - a rule, once active, stays.                                         *)
(***************************************************************************)
EXTENDS ProbeParameters

VARIABLES clock, banned, grants, packets

governedVars == <<clock, banned, grants, packets>>

Init ==
  /\ clock = 0
  /\ banned = {}
  /\ grants = {}
  /\ packets = {}

Pass ==
  /\ clock' = clock + 1
  /\ UNCHANGED <<banned, grants, packets>>

Ban(r) ==
  /\ banned' = banned \cup {r}
  /\ UNCHANGED <<clock, grants, packets>>

(* Cooldown counts from the grant, so a crash after it costs the probe, not *)
(* the target's quiet time.                                                *)
MayDiscover(ip) ==
  /\ AsnRules(banned) = {}
  /\ \A g \in grants :
       g.ip = ip /\ g.purpose = "active_discovery" => g.at + Cooldown <= clock

Grant(l, ip, asn, p) ==
  /\ l \notin Leases(grants)
  /\ ~IsExcluded(banned, ip, asn)
  /\ p = "active_discovery" => asn \in Asn /\ MayDiscover(ip)
  /\ grants' = grants \cup
       {[lease |-> l, ip |-> ip, asn |-> asn, purpose |-> p, at |-> clock]}
  /\ UNCHANGED <<clock, banned, packets>>

Emit(g) ==
  /\ g.lease \notin Leases(packets)
  /\ clock <= g.at + PermitTtl
  /\ ~IsExcluded(banned, g.ip, g.asn)
  /\ packets' = packets \cup
       {[lease |-> g.lease, ip |-> g.ip, asn |-> g.asn, purpose |-> g.purpose,
         at |-> clock]}
  /\ UNCHANGED <<clock, banned, grants>>

Next ==
  \/ Pass
  \/ \E r \in Rule : Ban(r)
  \/ \E l \in LeaseId, ip \in Addr, asn \in AnyAsn, p \in Purpose :
       Grant(l, ip, asn, p)
  \/ \E g \in grants : Emit(g)

Spec == Init /\ [][Next]_governedVars
=============================================================================
