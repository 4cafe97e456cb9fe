----------------------------- MODULE MCAccounts -----------------------------
(* Accounts for TLC: sign-ups are interchangeable.  The symmetry is for  *)
(* runs of invariants; the run with EverySignupEnds cannot use it.        *)
EXTENDS Accounts, TLC

Symmetry == Permutations(Requests)

=============================================================================
