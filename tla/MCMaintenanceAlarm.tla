-------------------------- MODULE MCMaintenanceAlarm --------------------------
(* Instance of MaintenanceAlarm for TLC. *)
EXTENDS MaintenanceAlarm

CONSTANTS as1

(* Rows that expire but are not counted: counting is checked in             *)
(* MCCorpusAggregates, and a page costs its overhead here. *)
PassiveRows == {[seen |-> 0, asn |-> as1, stacks |-> {}]}
=============================================================================
