--------------------------- MODULE MCCreditLedger ---------------------------
(***************************************************************************)
(* The credit ledger on a small instance.                                  *)
(***************************************************************************)
EXTENDS CreditLedger, TLC

Symmetry == Permutations(IdempotencyKeys) \cup Permutations(ReservationKeys)
              \cup Permutations(Sessions)

=============================================================================
