---------------------------- MODULE MCIncidents ----------------------------
(* A small instance of Incidents for TLC.                                  *)
EXTENDS Incidents

=============================================================================
