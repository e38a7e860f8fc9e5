--------------------------- MODULE MCCleanupLedger ---------------------------
(* An instance that may be made twice, or whose name somebody else has, and *)
(* a backup of it; a maker, and passes of plan or reconcile that overlap.   *)
EXTENDS CleanupLedger

CONSTANTS instance, backup, make, rec

MCOrder == <<backup, instance>>
MCSource == [n \in {backup, instance} |-> IF n = backup THEN instance ELSE None]
MCMaxClaims == [n \in {backup, instance} |-> IF n = instance THEN 2 ELSE 1]
==============================================================================
