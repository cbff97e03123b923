----------------------------- MODULE MCAccounts -----------------------------
(***************************************************************************)
(* Instances of Accounts for TLC: two domains, emails told apart by their  *)
(* domain.                                                                 *)
(***************************************************************************)
EXTENDS Accounts, TLC

CONSTANTS acme, other, ann, ann2, bob

TwoEmails   == {ann, bob}
ThreeEmails == {ann, ann2, bob}
DomainOfTwo   == (ann :> acme) @@ (bob :> other)
DomainOfThree == DomainOfTwo @@ (ann2 :> acme)

Symmetry == Permutations(SessionIds)

=============================================================================
