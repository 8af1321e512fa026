----------------------------- MODULE Deployment -----------------------------
(* What the modules of the monitoring subsystem have in common.            *)

CONSTANTS
  Pod,            \* backend processes, named by POD_ID
  None            \* SQL NULL, Python's None

=============================================================================
