------------------------ MODULE MCExclusionActivation ------------------------
(* Instances of ExclusionActivation for TLC. *)
EXTENDS ExclusionActivation

CONSTANTS a1, a2

FirstAddress == {{a1}}
=============================================================================
