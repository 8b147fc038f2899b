---------------------------- MODULE CreditLedger ----------------------------
(***************************************************************************)
(* The credit ledger of apps/api/app/credits/service.py over the tables    *)
(* credit_accounts, credit_reservations and credit_ledger_entries.         *)
(*                                                                         *)
(* Every operation of the service runs in a database transaction: it locks *)
(* the account row (SELECT ... FOR UPDATE), reads it into the session,     *)
(* computes the new balances there and writes them back as values.  A      *)
(* transaction is therefore two steps: LockAccount reads the row, and one  *)
(* of Grant, Reserve and Settle writes it and commits.  Release ends a     *)
(* transaction that changes nothing: a replayed request, a refused one, a  *)
(* rollback by the caller or a crash of the process.                       *)
(***************************************************************************)
EXTENDS Integers, Sequences, Functions

CONSTANTS
  Owners,           \* owner_user_id of the accounts
  Sessions,         \* database sessions that call the service
  IdempotencyKeys,  \* keys a caller may attach to a request
  ReservationKeys,  \* keys a caller may give a reservation
  References,       \* (reference_type, reference_key) pairs
  Amounts,          \* the amounts callers ask for
  MaxInt,           \* the largest value of an Integer column, 2^31 - 1 in PostgreSQL
  None              \* the absent reference, reservation or account

ASSUME LedgerAssumption ==
  /\ MaxInt \in Nat \ {0}
  /\ Amounts \subseteq 1..MaxInt        \* _require_amount
  /\ None \notin References \cup ReservationKeys \cup Owners

VARIABLES
  accounts,      \* credit_accounts, one row per owner
  reservations,  \* credit_reservations, by owner and reservation_key
  ledger,        \* credit_ledger_entries of each owner, in the order of insertion
  txn            \* per session: the account row it has locked and its copy of it

vars == <<accounts, reservations, ledger, txn>>

Kinds      == {"internal_budget", "billing_sandbox"}
Operations == {"grant", "reserve", "commit", "refund"}
Statuses   == {"reserved", "committed", "refunded"}

NoAccount     == [kind |-> "absent", available |-> 0, reserved |-> 0]
NoReservation == [status |-> "absent", amount |-> 0, ref |-> None]
NoTxn         == [owner |-> None, view |-> NoAccount]

Account     == [kind: Kinds \cup {"absent"}, available: 0..MaxInt, reserved: 0..MaxInt]
Reservation == [status: Statuses, amount: 1..MaxInt, ref: References] \cup {NoReservation}
Entry       == [key: IdempotencyKeys, op: Operations, amount: 1..MaxInt,
                ref: References, reservation: ReservationKeys \cup {None},
                availableAfter: 0..MaxInt, reservedAfter: 0..MaxInt]
Txn         == [owner: Owners, view: [kind: Kinds, available: 0..MaxInt, reserved: 0..MaxInt]]
                 \cup {NoTxn}

Init ==
  /\ accounts     = [o \in Owners |-> NoAccount]
  /\ reservations = [o \in Owners |-> [r \in ReservationKeys |-> NoReservation]]
  /\ ledger       = [o \in Owners |-> <<>>]
  /\ txn          = [s \in Sessions |-> NoTxn]

-----------------------------------------------------------------------------
(***************************************************************************)
(* Reading the tables.                                                     *)
(***************************************************************************)

(* The row lock of SELECT ... FOR UPDATE: some open transaction holds it.  *)
NoRowLock(o) == FALSE
RowLocked(o) == \E s \in Sessions : txn[s].owner = o

(* _idempotent_result: has this account seen the key, and if so with the   *)
(* same operation, amount and reference?                                   *)
IdempotencyPerOperation(o, key, op, amount, ref) ==
  IF \E i \in DOMAIN ledger[o] : ledger[o][i].key = key /\ ledger[o][i].op = op
  THEN "replay" ELSE "fresh"

Idempotency(o, key, op, amount, ref) ==
  LET seen == {i \in DOMAIN ledger[o] : ledger[o][i].key = key}
      same == {i \in seen : /\ ledger[o][i].op = op
                            /\ ledger[o][i].amount = amount
                            /\ ledger[o][i].ref = ref}
  IN  IF seen = {} THEN "fresh" ELSE IF same # {} THEN "replay" ELSE "conflict"

(* What the database accepts in a balance column: an Integer under the     *)
(* CHECK constraints of credit_accounts.                                   *)
FitsColumn(n) == n \in 0..MaxInt

(* The kind check of _locked_account; a missing account takes any kind.    *)
KindAccepted(o, kind) == accounts[o].kind \in {"absent", kind}

(* A reservation that may still be settled.                                *)
SettleableWhateverStatus(held) == held # NoReservation
Settleable(held) == held.status = "reserved"

-----------------------------------------------------------------------------
(***************************************************************************)
(* The transactions.                                                       *)
(***************************************************************************)

(* _locked_account: the row is inserted when it is missing, locked, read,  *)
(* and refused when it is of the other kind.                               *)
LockAccount(s, o, kind) ==
  /\ txn[s] = NoTxn
  /\ ~ RowLocked(o)
  /\ KindAccepted(o, kind)
  /\ txn' = [txn EXCEPT ![s] = [owner |-> o, view |-> [accounts[o] EXCEPT !.kind = kind]]]
  /\ UNCHANGED <<accounts, reservations, ledger>>

(* Flush and commit of an applied mutation: the session's copy of the      *)
(* account with the new balances, and the ledger row built by _entry.      *)
Write(s, available, reserved, key, op, amount, ref, r) ==
  LET o == txn[s].owner
  IN  /\ FitsColumn(available)
      /\ FitsColumn(reserved)
      /\ accounts' = [accounts EXCEPT ![o] =
                        [kind |-> txn[s].view.kind, available |-> available, reserved |-> reserved]]
      /\ ledger' = [ledger EXCEPT ![o] = Append(@,
                      [key |-> key, op |-> op, amount |-> amount, ref |-> ref, reservation |-> r,
                       availableAfter |-> available, reservedAfter |-> reserved])]
      /\ txn' = [txn EXCEPT ![s] = NoTxn]

(* grant_credits.  The range check looks at the available balance only.    *)
Grant(s, amount, key, ref) ==
  LET view == txn[s].view
  IN  /\ txn[s] # NoTxn
      /\ Idempotency(txn[s].owner, key, "grant", amount, ref) = "fresh"
      /\ view.available <= MaxInt - amount
      /\ Write(s, view.available + amount, view.reserved, key, "grant", amount, ref, None)
      /\ UNCHANGED reservations

(* reserve_credits. *)
Reserve(s, amount, r, key, ref) ==
  LET o    == txn[s].owner
      view == txn[s].view
  IN  /\ txn[s] # NoTxn
      /\ view.kind = "internal_budget"
      /\ Idempotency(o, key, "reserve", amount, ref) = "fresh"
      /\ reservations[o][r] = NoReservation
      /\ view.available >= amount
      /\ Write(s, view.available - amount, view.reserved + amount, key, "reserve", amount, ref, r)
      /\ reservations' = [reservations EXCEPT ![o][r] =
                            [status |-> "reserved", amount |-> amount, ref |-> ref]]

Settled(op) == IF op = "commit" THEN "committed" ELSE "refunded"

(* _settle, for commit_credits and refund_credits. *)
Settle(s, op, r, key) ==
  LET o    == txn[s].owner
      view == txn[s].view
      held == reservations[o][r]
  IN  /\ txn[s] # NoTxn
      /\ view.kind = "internal_budget"
      /\ held # NoReservation
      /\ Idempotency(o, key, op, held.amount, held.ref) = "fresh"
      /\ Settleable(held)
      /\ view.reserved >= held.amount
      /\ Write(s, view.available + (IF op = "refund" THEN held.amount ELSE 0),
               view.reserved - held.amount, key, op, held.amount, held.ref, r)
      /\ reservations' = [reservations EXCEPT ![o][r].status = Settled(op)]

(* The transaction ends without a change. *)
Release(s) ==
  /\ txn[s] # NoTxn
  /\ txn' = [txn EXCEPT ![s] = NoTxn]
  /\ UNCHANGED <<accounts, reservations, ledger>>

Next ==
  \E s \in Sessions :
    \/ \E o \in Owners, kind \in Kinds : LockAccount(s, o, kind)
    \/ \E amount \in Amounts, key \in IdempotencyKeys, ref \in References :
         Grant(s, amount, key, ref)
    \/ \E amount \in Amounts, r \in ReservationKeys, key \in IdempotencyKeys, ref \in References :
         Reserve(s, amount, r, key, ref)
    \/ \E op \in {"commit", "refund"}, r \in ReservationKeys, key \in IdempotencyKeys :
         Settle(s, op, r, key)
    \/ Release(s)

Spec == Init /\ [][Next]_vars

-----------------------------------------------------------------------------
(***************************************************************************)
(* Properties.                                                             *)
(***************************************************************************)

(* Type correctness; in particular no balance or amount leaves the range   *)
(* of its Integer column under any sequence of calls.                      *)
TypeOK ==
  /\ accounts \in [Owners -> Account]
  /\ reservations \in [Owners -> [ReservationKeys -> Reservation]]
  /\ ledger \in [Owners -> Seq(Entry)]
  /\ txn \in [Sessions -> Txn]

(* What a ledger row does to the two balances.                             *)
AvailableDelta(e) == CASE e.op = "grant"   -> e.amount
                       [] e.op = "refund"  -> e.amount
                       [] e.op = "reserve" -> - e.amount
                       [] e.op = "commit"  -> 0
ReservedDelta(e)  == CASE e.op = "grant"   -> 0
                       [] e.op = "refund"  -> - e.amount
                       [] e.op = "reserve" -> e.amount
                       [] e.op = "commit"  -> - e.amount

(* The balances an audit of the first n rows of a ledger arrives at.       *)
AuditedAvailable(rows, n) == IF n = 0 THEN 0 ELSE rows[n].availableAfter
AuditedReserved(rows, n)  == IF n = 0 THEN 0 ELSE rows[n].reservedAfter

(* The ledger explains the balances: each row's available_after and        *)
(* reserved_after are the previous row's plus what the row does, and the   *)
(* last row's are the account's current balances.  An update lost between  *)
(* two sessions, or one applied without a row, would break the chain.      *)
LedgerExplainsBalances ==
  \A o \in Owners :
    LET rows == ledger[o]
    IN  /\ \A n \in 1..Len(rows) :
             /\ rows[n].availableAfter = AuditedAvailable(rows, n - 1) + AvailableDelta(rows[n])
             /\ rows[n].reservedAfter = AuditedReserved(rows, n - 1) + ReservedDelta(rows[n])
        /\ accounts[o].available = AuditedAvailable(rows, Len(rows))
        /\ accounts[o].reserved = AuditedReserved(rows, Len(rows))

(* A retried request has at most one effect: no two ledger rows of an      *)
(* account carry the same idempotency key.                                 *)
OneRowPerIdempotencyKey ==
  \A o \in Owners : \A m, n \in DOMAIN ledger[o] :
    ledger[o][m].key = ledger[o][n].key => m = n

(* A reservation is settled exactly as often as its status says: an open   *)
(* one has only its reserve row, a terminal one has in addition one row of *)
(* the settlement that its status names, for the same amount.              *)
ReservationMatchesLedger ==
  \A o \in Owners, r \in ReservationKeys :
    LET held == reservations[o][r]
        rows == {n \in DOMAIN ledger[o] : ledger[o][n].reservation = r}
    IN  /\ \A n \in rows : ledger[o][n].amount = held.amount
        /\ \A m, n \in rows : ledger[o][m].op = ledger[o][n].op => m = n
        /\ {ledger[o][n].op : n \in rows} =
             CASE held.status = "absent"    -> {}
               [] held.status = "reserved"  -> {"reserve"}
               [] held.status = "committed" -> {"reserve", "commit"}
               [] held.status = "refunded"  -> {"reserve", "refund"}

(* The open reservations of an account, and what reservations hold.        *)
Open(o) == {r \in ReservationKeys : reservations[o][r].status = "reserved"}
Held(o) == [r \in ReservationKeys |-> reservations[o][r].amount]

(* The three tables agree: every reservation is settled exactly as often   *)
(* as the ledger says, and the account's reserved balance is the sum of    *)
(* its open reservations, so the "reserved credit balance is inconsistent" *)
(* branch of _settle is never taken.                                       *)
ReservedIsSumOfHolds ==
  /\ ReservationMatchesLedger
  /\ \A o \in Owners : accounts[o].reserved = SumFunctionOnSet(Held(o), Open(o))

(* Test money never pays for work: an account that holds billing sandbox   *)
(* credits has no reservation and nothing but grants in its ledger.        *)
SandboxNeverSpends ==
  \A o \in Owners :
    accounts[o].kind = "billing_sandbox" =>
      /\ \A r \in ReservationKeys : reservations[o][r] = NoReservation
      /\ \A n \in DOMAIN ledger[o] : ledger[o][n].op = "grant"

(* History is permanent: ledger rows are never changed or removed, an      *)
(* account never changes its kind, and a committed or refunded reservation *)
(* is never settled again.                                                 *)
HistoryIsPermanent ==
  [][\A o \in Owners :
       /\ SubSeq(ledger'[o], 1, Len(ledger[o])) = ledger[o]
       /\ accounts[o].kind # "absent" => accounts'[o].kind = accounts[o].kind
       /\ \A r \in ReservationKeys :
            reservations[o][r].status \in {"committed", "refunded"} =>
              reservations'[o][r] = reservations[o][r]]_vars

(* The ledger implements the budget: every transaction is one step of      *)
(* CreditBudget or changes nothing that CreditBudget shows.                *)
Budget == INSTANCE CreditBudget WITH
  budget <- [o \in Owners |-> accounts[o].available],
  holds  <- [o \in Owners |-> [r \in ReservationKeys |->
               [state |-> reservations[o][r].status, amount |-> reservations[o][r].amount]]]

ImplementsBudget == Budget!Spec

(* docs/credits.md: refund returns the reserved amount.  So the available  *)
(* balance must always have room for every open reservation.               *)
EveryHoldIsRefundable ==
  \A o \in Owners, r \in ReservationKeys :
    reservations[o][r].status = "reserved" =>
      accounts[o].available + reservations[o][r].amount <= MaxInt

(* docs/credits.md: only a repetition of the same request is answered with *)
(* the existing row.  So a settlement answered that way names a            *)
(* reservation that has indeed been settled so.                            *)
ReplayedSettlementWasApplied ==
  \A o \in Owners, r \in ReservationKeys, key \in IdempotencyKeys, op \in {"commit", "refund"} :
    LET held == reservations[o][r]
    IN  /\ held # NoReservation
        /\ Idempotency(o, key, op, held.amount, held.ref) = "replay"
        => held.status = Settled(op)

=============================================================================
