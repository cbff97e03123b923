---------------------------- MODULE MCPolicySync ----------------------------
(***************************************************************************)
(* Instances of PolicySync for TLC.                                        *)
(***************************************************************************)
EXTENDS PolicySync, TLC

\* Projects, pulls and shippers are interchangeable.
Symmetry ==
  Permutations(Projects) \cup Permutations(Pullers) \cup Permutations(Shippers)

=============================================================================
