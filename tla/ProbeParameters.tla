--------------------------- MODULE ProbeParameters ---------------------------
(***************************************************************************)
(* What the permit path and its abstract specification share beside the    *)
(* rules: the three purposes a probe can have, and the two durations that  *)
(* bound third-party traffic.  Time is counted in units short enough that  *)
(* PERMIT_TTL_MS is a whole number of them.                                *)
(***************************************************************************)
EXTENDS ExclusionRules, Integers

CONSTANTS
  LeaseId,     \* the identifiers acquireLease draws (one lease, one permit)
  Cooldown,    \* ACTIVE_COOLDOWN_MS
  PermitTtl    \* PERMIT_TTL_MS

ASSUME ParameterAssumption ==
  /\ Cooldown \in Nat
  /\ PermitTtl \in Nat

Purpose == {"active_discovery", "hosted_self", "owned_canary"}

(* What was granted to, or emitted at, whom and when. *)
ProbeRecord ==
  [lease : LeaseId, ip : Addr, asn : AnyAsn, purpose : Purpose, at : Nat]

Leases(records) == {r.lease : r \in records}
=============================================================================
