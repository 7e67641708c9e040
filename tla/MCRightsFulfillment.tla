------------------------- MODULE MCRightsFulfillment -------------------------
(* Constants for checking RightsFulfillment with TLC.                         *)
EXTENDS RightsFulfillment, TLC

(* migrations/000008_create_gateway_and_supporting_tables.up.sql:47-51        *)
MigratedAlertTypes ==
    {"policy_violation", "breach_detected", "scan_anomaly", "rights_deadline",
     "retention_due", "cross_border_detected"}

(* The same CHECK widened by the alert type that execute_erasure inserts.     *)
WidenedAlertTypes == MigratedAlertTypes \cup {CompletionAlert}

(* Sound for the safety runs: no definition tells these values apart.         *)
Symmetry == Permutations(Workers) \cup Permutations(Tasks) \cup Permutations(Handlers)
=============================================================================
