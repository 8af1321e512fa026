------------------------------ MODULE MCAlerts ------------------------------
(* The instances of Alerts that TLC checks.                                *)
EXTENDS Alerts, TLC

(* Workers and alerts are interchangeable.                                 *)
Symmetry == Permutations(Worker) \union Permutations(Alert)

=============================================================================
