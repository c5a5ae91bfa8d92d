------------------------------ MODULE MCPayments ------------------------------
(* Small instances of Payments for TLC.                                      *)
EXTENDS Payments, TLC

Symmetry == Permutations(Handlers) \cup Permutations(Ids) \cup Permutations(Users)
              \cup Permutations(Accounts) \cup Permutations(Reports)

=============================================================================
