--------------------------- MODULE MCContainment ---------------------------
(* A small instance of Containment for TLC.                                *)
EXTENDS Containment

=============================================================================
