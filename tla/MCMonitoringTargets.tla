------------------------ MODULE MCMonitoringTargets ------------------------
(* The instances of MonitoringTargets that TLC checks.                     *)
EXTENDS MonitoringTargets, TLC

(* A new user.                                                             *)
NoPreset == {}

(* Tokens, targets, pods and requests are interchangeable.                 *)
Symmetry == Permutations(Token) \union Permutations(Target)
              \union Permutations(Pod) \union Permutations(Request)

=============================================================================
