----------------------------- MODULE MCKvCorpus -----------------------------
(* Values of the constants of KvCorpus for TLC.                            *)
EXTENDS KvCorpus, TLC

CONSTANTS a1, a2, ZZ, DE

Answer(a, l) == [a |-> a, label |-> l, answered |-> TRUE]
Listing(a, l) == [a |-> a, label |-> l, answered |-> FALSE]

(* Enriched answers of both hosts in one batch, and a mere listing.        *)
MCContacts == {<<Answer(a1, DE), Answer(a2, DE)>>, <<Listing(a2, DE)>>}
=============================================================================
