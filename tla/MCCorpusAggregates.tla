-------------------------- MODULE MCCorpusAggregates --------------------------
(* Instances of CorpusAggregates for TLC. *)
EXTENDS CorpusAggregates

CONSTANTS as1, as2, stack1

(* An answer, a later answer attributed elsewhere, a passive row. *)
Observations ==
  {[seen |-> 1, asn |-> as1, stacks |-> {stack1}],
   [seen |-> 2, asn |-> as2, stacks |-> {}],
   [seen |-> 0, asn |-> as1, stacks |-> {}]}
=============================================================================
