--------------------------- MODULE MCSearchIndex ----------------------------
(* Instances of SearchIndex.                                                *)
EXTENDS SearchIndex

CONSTANTS acme, globex, staff, finance

MCScope == [t \in Tenant |-> IF t = acme THEN {staff, finance} ELSE {}]
=============================================================================
