---------------------------- MODULE CreditBudget ----------------------------
(***************************************************************************)
(* What the credit ledger promises its callers, without transactions, keys *)
(* or audit rows: a budget per owner from which holds are taken.  A hold   *)
(* is taken once, from money that is there, and then either spent or       *)
(* returned, once.                                                         *)
(***************************************************************************)
EXTENDS Integers

CONSTANTS Owners, ReservationKeys, Amounts

VARIABLES budget,  \* what an owner can still reserve
          holds    \* state and amount of each hold

Init ==
  /\ budget = [o \in Owners |-> 0]
  /\ holds  = [o \in Owners |-> [r \in ReservationKeys |-> [state |-> "absent", amount |-> 0]]]

Fund(o, amount) ==
  /\ budget' = [budget EXCEPT ![o] = @ + amount]
  /\ UNCHANGED holds

Hold(o, r, amount) ==
  /\ holds[o][r].state = "absent"
  /\ amount <= budget[o]
  /\ budget' = [budget EXCEPT ![o] = @ - amount]
  /\ holds'  = [holds EXCEPT ![o][r] = [state |-> "reserved", amount |-> amount]]

Spend(o, r) ==
  /\ holds[o][r].state = "reserved"
  /\ holds' = [holds EXCEPT ![o][r].state = "committed"]
  /\ UNCHANGED budget

Return(o, r) ==
  /\ holds[o][r].state = "reserved"
  /\ holds'  = [holds EXCEPT ![o][r].state = "refunded"]
  /\ budget' = [budget EXCEPT ![o] = @ + holds[o][r].amount]

Next ==
  \E o \in Owners :
    \/ \E amount \in Amounts : Fund(o, amount)
    \/ \E r \in ReservationKeys :
         \/ \E amount \in Amounts : Hold(o, r, amount)
         \/ Spend(o, r)
         \/ Return(o, r)

Spec == Init /\ [][Next]_<<budget, holds>>

=============================================================================
