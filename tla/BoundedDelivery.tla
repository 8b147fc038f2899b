-------------------------- MODULE BoundedDelivery --------------------------
(***************************************************************************)
(* What the notification outbox promises about each event, without         *)
(* workers, leases, jobs or failure rows.  An event is tried within its    *)
(* budget, and no message leaves without an attempt that was counted       *)
(* first; a message on its way may arrive, be lost, or arrive when nobody  *)
(* waits for it any more; an event counts as sent only if its receiver     *)
(* has it, and waits for another attempt only while it has one left; and   *)
(* what is finished stays so, but for a dead letter, which an operator     *)
(* may send on a new budget.                                               *)
(***************************************************************************)
EXTENDS Integers

CONSTANTS Events, AtOnce, MaxAttempts

VARIABLES delivery,  \* per event: its state and the attempts it has used
          underway,  \* events with a message on its way
          reached    \* events that their receiver has

Init ==
  /\ delivery = [e \in Events |-> [state |-> "absent", attempts |-> 0]]
  /\ underway = {}
  /\ reached  = {}

Becomes(e, from, to) ==
  /\ delivery[e].state \in from
  /\ delivery' = [delivery EXCEPT ![e].state = to]
  /\ UNCHANGED <<underway, reached>>

HasBudget(e) == delivery[e].attempts < MaxAttempts

(* A new attempt, the first or after one that nobody has answered for.     *)
Attempt(e, from, to) ==
  /\ delivery[e].state \in from
  /\ HasBudget(e)
  /\ delivery' = [delivery EXCEPT ![e] = [state |-> to, attempts |-> @.attempts + 1]]

Promise(e) == Becomes(e, {"absent"}, "pending")

Send(e) ==
  /\ e \notin AtOnce
  /\ Attempt(e, {"pending", "sending"}, "sending")
  /\ underway' = underway \cup {e}
  /\ UNCHANGED reached

(* A local event is attempted, received and recorded in one step.          *)
HandOver(e) ==
  /\ e \in AtOnce
  /\ Attempt(e, {"pending"}, "sent")
  /\ reached' = reached \cup {e}
  /\ UNCHANGED underway

(* A message arrives or not; another one of the same event may be behind.  *)
Land(e) ==
  /\ e \in underway
  /\ reached' \in {reached, reached \cup {e}}
  /\ underway' \in {underway, underway \ {e}}
  /\ UNCHANGED delivery

Confirm(e)  == e \in reached /\ Becomes(e, {"sending"}, "sent")
TryLater(e) == HasBudget(e) /\ Becomes(e, {"sending"}, "pending")
GiveUp(e)   == Becomes(e, {"sending"}, "dead_lettered")
Withdraw(e) == Becomes(e, {"pending", "sending"}, "cancelled")

(* The operator's reset, with a new budget.                                *)
Reset(e) ==
  /\ delivery[e].state = "dead_lettered"
  /\ delivery' = [delivery EXCEPT ![e] = [state |-> "pending", attempts |-> 0]]
  /\ UNCHANGED <<underway, reached>>

Next ==
  \E e \in Events :
    \/ Promise(e) \/ Send(e) \/ HandOver(e) \/ Land(e)
    \/ Confirm(e) \/ TryLater(e) \/ GiveUp(e) \/ Withdraw(e) \/ Reset(e)

Spec == Init /\ [][Next]_<<delivery, underway, reached>>

=============================================================================
