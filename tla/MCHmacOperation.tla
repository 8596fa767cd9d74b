--------------------------- MODULE MCHmacOperation ---------------------------
(***************************************************************************)
(* HmacOperation with two clients as model values; they are                *)
(* interchangeable, so the state space is reduced by symmetry.             *)
(***************************************************************************)
EXTENDS HmacOperation, TLC

ClientSymmetry == Permutations(Clients)

=============================================================================
