---------------------------- MODULE ExclusionRules ----------------------------
(***************************************************************************)
(* Opt-out rules and what they match: shared by the permit path, the purge *)
(* and the activation of a removal request.                                *)
(***************************************************************************)

CONSTANTS
  Addr,        \* canonical public addresses
  Asn,         \* autonomous systems an address can be attributed to
  UnknownAsn,  \* "AS-UNKNOWN": no usable attribution
  Block        \* CIDR blocks an operator can name, each a set of addresses

ASSUME RuleAssumption ==
  /\ UnknownAsn \notin Asn
  /\ \A b \in Block : b \subseteq Addr
  \* No name is both a block and a system: entries carry their type.
  /\ Block \cap Asn = {}

AnyAsn == Asn \cup {UnknownAsn}

(* An exclusion is a CIDR block (a single address is a block of one) or an *)
(* autonomous system.                                                      *)
Rule == Block \cup Asn

(* An address block matches by address only; an ASN rule matches the      *)
(* attribution that comes with the address, never the address itself.      *)
RuleMatches(r, ip, asn) ==
  \/ r \in Asn /\ r = asn
  \/ r \in Block /\ ip \in r

IsExcluded(rules, ip, asn) == \E r \in rules : RuleMatches(r, ip, asn)

AsnRules(rules) == rules \cap Asn
=============================================================================
