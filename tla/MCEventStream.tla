--------------------------- MODULE MCEventStream ---------------------------
(* The instances of EventStream that TLC checks.                           *)
EXTENDS EventStream

=============================================================================
