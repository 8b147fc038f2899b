----------------------------- MODULE FencedCall -----------------------------
(***************************************************************************)
(* What the credit fence promises about the paid calls of one opportunity  *)
(* version, without workers, locks, jobs or retries.  An identity is paid  *)
(* for by one account, out of units that account has, and is asked of the  *)
(* provider once.  What was never asked is returned; what was asked is     *)
(* answered and paid for in one step, or stays uncertain until an operator *)
(* decides, and no operator decides while the provider is being asked.     *)
(***************************************************************************)
EXTENDS Integers

CONSTANTS Keys, Accounts, Funding, None

VARIABLES purse,  \* the units an account can still spend
          call    \* per identity: how far its one paid call is, and who pays

Uncalled == [state |-> "free", payer |-> None]

Init ==
  /\ purse = Funding
  /\ call  = [k \in Keys |-> Uncalled]

Becomes(k, from, to) ==
  /\ call[k].state \in from
  /\ call' = [call EXCEPT ![k].state = to]

Keep        == UNCHANGED purse
GiveBack(k) == purse' = [purse EXCEPT ![call[k].payer] = @ + 1]

(* An account sets a unit aside for an identity that nobody pays for.      *)
Take(k, a) ==
  /\ call[k].state = "free"
  /\ purse[a] >= 1
  /\ call'  = [call EXCEPT ![k] = [state |-> "held", payer |-> a]]
  /\ purse' = [purse EXCEPT ![a] = @ - 1]

Ask(k)    == Becomes(k, {"held"}, "asking") /\ Keep
Answer(k) == Becomes(k, {"asking"}, "answered") /\ Keep
GiveUp(k) == Becomes(k, {"asking"}, "uncertain") /\ Keep
Return(k) == Becomes(k, {"held"}, "returned") /\ GiveBack(k)

(* An operator's decision: the unit is spent after all, or given back.     *)
Charge(k) == Becomes(k, {"held", "uncertain"}, "charged") /\ Keep
Repay(k)  == Becomes(k, {"held", "uncertain"}, "repaid") /\ GiveBack(k)

(* With credits disabled an answer is stored that nobody pays for.         *)
AnswerUnbilled(k) == Becomes(k, {"free"}, "unbilled") /\ Keep

Next ==
  \E k \in Keys :
    \/ \E a \in Accounts : Take(k, a)
    \/ Ask(k) \/ Answer(k) \/ GiveUp(k) \/ Return(k)
    \/ Charge(k) \/ Repay(k)
    \/ AnswerUnbilled(k)

Spec == Init /\ [][Next]_<<purse, call>>

=============================================================================
