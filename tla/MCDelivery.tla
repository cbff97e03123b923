----------------------------- MODULE MCDelivery -----------------------------
(***************************************************************************)
(* Instances of Delivery for TLC.  The clients of Ingest are replaced by   *)
(* the CLI, so no free request bodies are given.                           *)
(***************************************************************************)
EXTENDS Delivery, TLC

NoBodies == {}

\* Shippers, key ids, machine ids, key pairs, workspaces and events are
\* interchangeable.
Symmetry ==
  Permutations(Shippers) \cup Permutations(Keys) \cup Permutations(Machines)
    \cup Permutations(PublicKeys) \cup Permutations(Workspaces)
    \cup Permutations(Events)

\* A bound: one key at most is revoked.
OneRevocation == Cardinality({k \in Keys : apiKeys[k].revoked}) <= 1

=============================================================================
