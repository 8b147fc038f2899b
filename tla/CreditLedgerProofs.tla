------------------------- MODULE CreditLedgerProofs -------------------------
(***************************************************************************)
(* Theorems about the credit ledger, for every set of owners, sessions and *)
(* keys and every width of the balance columns.                            *)
(***************************************************************************)
EXTENDS CreditLedger, FiniteSetTheorems, WellFoundedInduction, TLAPS

-----------------------------------------------------------------------------
(***************************************************************************)
(* Type correctness.                                                       *)
(***************************************************************************)

(* A committed mutation writes one account row, appends one well-typed     *)
(* ledger row and closes the session's transaction.                        *)
LEMMA WriteType ==
  ASSUME TypeOK, NEW s \in Sessions, txn[s] # NoTxn,
         NEW available, NEW reserved, NEW key \in IdempotencyKeys, NEW op \in Operations,
         NEW amount \in 1..MaxInt, NEW ref \in References, NEW r \in ReservationKeys \cup {None},
         Write(s, available, reserved, key, op, amount, ref, r)
  PROVE  /\ accounts' \in [Owners -> Account]
         /\ ledger' \in [Owners -> Seq(Entry)]
         /\ txn' \in [Sessions -> Txn]
<1>1. txn[s].owner \in Owners /\ txn[s].view.kind \in Kinds
  BY DEF TypeOK, Txn
<1>2. available \in 0..MaxInt /\ reserved \in 0..MaxInt
  BY DEF Write, FitsColumn
<1>3. accounts' \in [Owners -> Account]
  BY <1>1, <1>2 DEF Write, TypeOK, Account
<1>4. ledger' \in [Owners -> Seq(Entry)]
  <2> DEFINE e == [key |-> key, op |-> op, amount |-> amount, ref |-> ref, reservation |-> r,
                   availableAfter |-> available, reservedAfter |-> reserved]
  <2>1. e \in Entry
    BY <1>2 DEF Entry
  <2>2. ledger' = [ledger EXCEPT ![txn[s].owner] = Append(@, e)]
    BY DEF Write
  <2>3. Append(ledger[txn[s].owner], e) \in Seq(Entry)
    <3> HIDE DEF e
    <3> QED BY <1>1, <2>1 DEF TypeOK
  <2> HIDE DEF e
  <2> QED BY <1>1, <2>2, <2>3 DEF TypeOK
<1>5. txn' \in [Sessions -> Txn]
  BY DEF Write, TypeOK, Txn
<1> QED BY <1>3, <1>4, <1>5

(* Type correctness of the ledger: no sequence of grants, reservations and *)
(* settlements, in any interleaving of sessions, takes a balance out of    *)
(* its Integer column.                                                     *)
THEOREM TypeCorrect == Spec => []TypeOK
<1>1. Init => TypeOK
  <2> SUFFICES ASSUME Init PROVE TypeOK
    OBVIOUS
  <2>1. NoAccount \in Account /\ NoReservation \in Reservation /\ NoTxn \in Txn
    BY LedgerAssumption DEF NoAccount, Account, Reservation, Txn
  <2>2. <<>> \in Seq(Entry)
    OBVIOUS
  <2> QED BY <2>1, <2>2 DEF Init, TypeOK
<1>2. TypeOK /\ [Next]_vars => TypeOK'
  <2> SUFFICES ASSUME TypeOK, [Next]_vars PROVE TypeOK'
    OBVIOUS
  <2>1. ASSUME NEW s \in Sessions, NEW o \in Owners, NEW kind \in Kinds, LockAccount(s, o, kind)
        PROVE  TypeOK'
    <3>1. [owner |-> o, view |-> [accounts[o] EXCEPT !.kind = kind]] \in Txn
      BY DEF TypeOK, Account, Txn
    <3> QED BY <2>1, <3>1 DEF LockAccount, TypeOK
  <2>2. ASSUME NEW s \in Sessions, NEW amount \in Amounts, NEW key \in IdempotencyKeys,
               NEW ref \in References, Grant(s, amount, key, ref)
        PROVE  TypeOK'
    <3>1. amount \in 1..MaxInt /\ "grant" \in Operations
      BY LedgerAssumption DEF Operations
    <3> QED BY <2>2, <3>1, WriteType DEF Grant, TypeOK
  <2>3. ASSUME NEW s \in Sessions, NEW amount \in Amounts, NEW r \in ReservationKeys,
               NEW key \in IdempotencyKeys, NEW ref \in References, Reserve(s, amount, r, key, ref)
        PROVE  TypeOK'
    <3>1. amount \in 1..MaxInt /\ "reserve" \in Operations
      BY LedgerAssumption DEF Operations
    <3>2. [status |-> "reserved", amount |-> amount, ref |-> ref] \in Reservation
      BY <3>1 DEF Reservation, Statuses
    <3>3. reservations' \in [Owners -> [ReservationKeys -> Reservation]]
      BY <2>3, <3>2 DEF Reserve, TypeOK
    <3> QED BY <2>3, <3>1, <3>3, WriteType DEF Reserve, TypeOK
  <2>4. ASSUME NEW s \in Sessions, NEW op \in {"commit", "refund"}, NEW r \in ReservationKeys,
               NEW key \in IdempotencyKeys, Settle(s, op, r, key)
        PROVE  TypeOK'
    <3> DEFINE held == reservations[txn[s].owner][r]
    <3>1. txn[s].owner \in Owners
      BY <2>4 DEF Settle, TypeOK, Txn
    <3>2. held \in [status: Statuses, amount: 1..MaxInt, ref: References]
      BY <2>4, <3>1 DEF Settle, TypeOK, Reservation
    <3>3. op \in Operations /\ Settled(op) \in Statuses
      BY DEF Operations, Settled, Statuses
    <3>4. [held EXCEPT !.status = Settled(op)] \in Reservation
      BY <3>2, <3>3 DEF Reservation
    <3>5. reservations' \in [Owners -> [ReservationKeys -> Reservation]]
      BY <2>4, <3>1, <3>4 DEF Settle, TypeOK
    <3>6. \E a, b : Write(s, a, b, key, op, held.amount, held.ref, r)
      BY <2>4 DEF Settle
    <3>7. held.amount \in 1..MaxInt /\ held.ref \in References /\ txn[s] # NoTxn
      BY <2>4, <3>2 DEF Settle
    <3> HIDE DEF held
    <3> QED BY <3>3, <3>5, <3>6, <3>7, WriteType DEF TypeOK
  <2>5. ASSUME NEW s \in Sessions, Release(s)
        PROVE  TypeOK'
    BY <2>5 DEF Release, TypeOK, Txn
  <2>6. CASE UNCHANGED vars
    BY <2>6 DEF vars, TypeOK
  <2> QED BY <2>1, <2>2, <2>3, <2>4, <2>5, <2>6 DEF Next
<1> QED BY <1>1, <1>2, PTL DEF Spec

-----------------------------------------------------------------------------
(***************************************************************************)
(* The ledger explains the balances.                                       *)
(***************************************************************************)

(* While a transaction is open, the session's copy of the account is the   *)
(* row itself but for the kind of a row that is not there yet, and no      *)
(* other session holds that row.  This is what makes the ledger's chain    *)
(* inductive: the balances written back are computed from the copy.        *)
LockedViewIsCurrent ==
  \A s \in Sessions : txn[s].owner # None =>
    /\ txn[s].owner \in Owners
    /\ txn[s].view.available = accounts[txn[s].owner].available
    /\ txn[s].view.reserved = accounts[txn[s].owner].reserved
    /\ accounts[txn[s].owner].kind \in {"absent", txn[s].view.kind}
    /\ \A t \in Sessions : txn[t].owner = txn[s].owner => t = s

Chained(rows, n) ==
  /\ rows[n].availableAfter = AuditedAvailable(rows, n - 1) + AvailableDelta(rows[n])
  /\ rows[n].reservedAfter = AuditedReserved(rows, n - 1) + ReservedDelta(rows[n])

(* Appending a row that follows from the balances the ledger ends with     *)
(* keeps the chain and ends it with the row's balances.                    *)
LEMMA AppendKeepsChain ==
  ASSUME NEW rows \in Seq(Entry), NEW e \in Entry,
         \A n \in 1..Len(rows) : Chained(rows, n),
         e.availableAfter = AuditedAvailable(rows, Len(rows)) + AvailableDelta(e),
         e.reservedAfter = AuditedReserved(rows, Len(rows)) + ReservedDelta(e)
  PROVE  /\ \A n \in 1..Len(Append(rows, e)) : Chained(Append(rows, e), n)
         /\ AuditedAvailable(Append(rows, e), Len(Append(rows, e))) = e.availableAfter
         /\ AuditedReserved(Append(rows, e), Len(Append(rows, e))) = e.reservedAfter
<1> DEFINE new == Append(rows, e)
<1>1. /\ Len(new) = Len(rows) + 1
      /\ new[Len(rows) + 1] = e
      /\ \A n \in 1..Len(rows) : new[n] = rows[n]
      /\ Len(rows) \in Nat
  OBVIOUS
<1>2. ASSUME NEW n \in 1..Len(new) PROVE Chained(new, n)
  <2>1. CASE n \in 1..Len(rows)
    <3>1. n = 1 \/ n - 1 \in 1..Len(rows)
      BY <2>1, <1>1
    <3>2. new[n] = rows[n] /\ (n # 1 => new[n - 1] = rows[n - 1])
      BY <1>1, <2>1, <3>1
    <3>3. Chained(rows, n)
      BY <2>1
    <3> HIDE DEF new
    <3> QED
      BY <3>1, <3>2, <3>3 DEF Chained, AuditedAvailable, AuditedReserved
  <2>2. CASE n = Len(rows) + 1
    <3>1. n - 1 = Len(rows) /\ new[n] = e /\ (n # 1 => new[n - 1] = rows[n - 1])
      BY <1>1, <2>2
    <3> HIDE DEF new
    <3> QED
      BY <1>1, <3>1 DEF Chained, AuditedAvailable, AuditedReserved
  <2> QED
    BY <1>1, <2>1, <2>2
<1>3. QED
  <2> HIDE DEF new
  <2>1. Len(new) # 0 /\ new[Len(new)] = e
    BY <1>1
  <2>2. /\ AuditedAvailable(new, Len(new)) = e.availableAfter
        /\ AuditedReserved(new, Len(new)) = e.reservedAfter
    BY <2>1 DEF AuditedAvailable, AuditedReserved
  <2> QED
    BY <1>2, <2>2 DEF new

(* The lock discipline on its own: the copy that a session works on stays  *)
(* current until the session ends its transaction.                         *)
THEOREM LockDiscipline == Spec => []LockedViewIsCurrent
<1>1. Init => LockedViewIsCurrent
  BY DEF Init, LockedViewIsCurrent, NoTxn
<1>2. TypeOK /\ LockedViewIsCurrent /\ [Next]_vars => LockedViewIsCurrent'
  <2> SUFFICES ASSUME TypeOK, LockedViewIsCurrent, [Next]_vars PROVE LockedViewIsCurrent'
    OBVIOUS
  <2>0. \A s \in Sessions : txn[s].owner # None => txn[s] # NoTxn
    BY DEF NoTxn
  <2>1. ASSUME NEW s \in Sessions, NEW o \in Owners, NEW kind \in Kinds, LockAccount(s, o, kind)
        PROVE  LockedViewIsCurrent'
    <3>1. /\ txn'[s].owner = o
          /\ txn'[s].view.available = accounts[o].available
          /\ txn'[s].view.reserved = accounts[o].reserved
          /\ txn'[s].view.kind = kind
          /\ \A t \in Sessions : t # s => txn'[t] = txn[t]
          /\ accounts' = accounts
      BY <2>1 DEF LockAccount, TypeOK, Account
    <3>2. \A t \in Sessions : txn[t].owner # o
      BY <2>1 DEF LockAccount, RowLocked
    <3> QED BY <2>1, <3>1, <3>2 DEF LockAccount, KindAccepted, LockedViewIsCurrent
  <2>2. ASSUME NEW s \in Sessions, txn[s] # NoTxn,
               txn' = [txn EXCEPT ![s] = NoTxn],
               NEW row, accounts' = [accounts EXCEPT ![txn[s].owner] = row] \/ accounts' = accounts
        PROVE  LockedViewIsCurrent'
    <3>1. txn[s].owner \in Owners
      BY <2>2 DEF TypeOK, Txn
    <3>2. txn[s].owner # None
      BY <3>1, LedgerAssumption
    <3>3. ASSUME NEW t \in Sessions, txn'[t].owner # None
          PROVE  /\ txn'[t] = txn[t]
                 /\ t # s
                 /\ txn[t].owner # txn[s].owner
                 /\ accounts'[txn[t].owner] = accounts[txn[t].owner]
      <4>1. t # s /\ txn'[t] = txn[t]
        BY <2>2, <3>3 DEF TypeOK, NoTxn
      <4>2. txn[t].owner # txn[s].owner
        BY <3>2, <3>3, <4>1 DEF LockedViewIsCurrent
      <4>3. txn[t].owner \in Owners
        BY <3>3, <4>1 DEF LockedViewIsCurrent
      <4> QED BY <2>2, <4>1, <4>2, <4>3 DEF TypeOK
    <3> QED BY <3>3 DEF LockedViewIsCurrent
  <2>3. ASSUME NEW s \in Sessions, NEW amount \in Amounts, NEW key \in IdempotencyKeys,
               NEW ref \in References, Grant(s, amount, key, ref)
        PROVE  LockedViewIsCurrent'
    BY <2>2, <2>3 DEF Grant, Write
  <2>4. ASSUME NEW s \in Sessions, NEW amount \in Amounts, NEW r \in ReservationKeys,
               NEW key \in IdempotencyKeys, NEW ref \in References, Reserve(s, amount, r, key, ref)
        PROVE  LockedViewIsCurrent'
    BY <2>2, <2>4 DEF Reserve, Write
  <2>5. ASSUME NEW s \in Sessions, NEW op \in {"commit", "refund"}, NEW r \in ReservationKeys,
               NEW key \in IdempotencyKeys, Settle(s, op, r, key)
        PROVE  LockedViewIsCurrent'
    BY <2>2, <2>5 DEF Settle, Write
  <2>6. ASSUME NEW s \in Sessions, Release(s)
        PROVE  LockedViewIsCurrent'
    BY <2>2, <2>6 DEF Release
  <2>7. CASE UNCHANGED vars
    BY <2>7 DEF vars, LockedViewIsCurrent
  <2> QED BY <2>1, <2>3, <2>4, <2>5, <2>6, <2>7 DEF Next
<1> QED BY <1>1, <1>2, TypeCorrect, PTL DEF Spec

(* A committed mutation whose row is the step from the old balances to the *)
(* new ones keeps the ledger's account of the balances.                    *)
LEMMA WriteKeepsExplanation ==
  ASSUME TypeOK, LockedViewIsCurrent, LedgerExplainsBalances,
         NEW s \in Sessions, txn[s] # NoTxn,
         NEW available, NEW reserved, NEW key \in IdempotencyKeys, NEW op \in Operations,
         NEW amount \in 1..MaxInt, NEW ref \in References, NEW r \in ReservationKeys \cup {None},
         Write(s, available, reserved, key, op, amount, ref, r),
         available = txn[s].view.available + AvailableDelta([op |-> op, amount |-> amount]),
         reserved = txn[s].view.reserved + ReservedDelta([op |-> op, amount |-> amount])
  PROVE  LedgerExplainsBalances'
<1> DEFINE o == txn[s].owner
           e == [key |-> key, op |-> op, amount |-> amount, ref |-> ref, reservation |-> r,
                 availableAfter |-> available, reservedAfter |-> reserved]
<1>1. o \in Owners /\ o # None
  BY LedgerAssumption DEF TypeOK, Txn
<1>2. e \in Entry
  BY DEF Entry, Write, FitsColumn
<1>3. /\ accounts'[o].available = available
      /\ accounts'[o].reserved = reserved
      /\ \A p \in Owners : p # o => accounts'[p] = accounts[p]
      /\ ledger'[o] = Append(ledger[o], e)
      /\ \A p \in Owners : p # o => ledger'[p] = ledger[p]
  BY <1>1 DEF Write, TypeOK
<1>4. /\ AvailableDelta(e) = AvailableDelta([op |-> op, amount |-> amount])
      /\ ReservedDelta(e) = ReservedDelta([op |-> op, amount |-> amount])
  BY DEF AvailableDelta, ReservedDelta
<1>5. /\ ledger[o] \in Seq(Entry)
      /\ \A n \in 1..Len(ledger[o]) : Chained(ledger[o], n)
      /\ txn[s].view.available = AuditedAvailable(ledger[o], Len(ledger[o]))
      /\ txn[s].view.reserved = AuditedReserved(ledger[o], Len(ledger[o]))
  BY <1>1 DEF TypeOK, LedgerExplainsBalances, LockedViewIsCurrent, Chained
<1>6. /\ \A n \in 1..Len(ledger'[o]) : Chained(ledger'[o], n)
      /\ AuditedAvailable(ledger'[o], Len(ledger'[o])) = available
      /\ AuditedReserved(ledger'[o], Len(ledger'[o])) = reserved
  <2>1. e.availableAfter = available /\ e.reservedAfter = reserved
    OBVIOUS
  <2>2. /\ e.availableAfter = AuditedAvailable(ledger[o], Len(ledger[o])) + AvailableDelta(e)
        /\ e.reservedAfter = AuditedReserved(ledger[o], Len(ledger[o])) + ReservedDelta(e)
    BY <1>4, <1>5, <2>1
  <2> HIDE DEF e, o
  <2> QED BY <1>2, <1>3, <1>5, <2>1, <2>2, AppendKeepsChain
<1>7. ASSUME NEW p \in Owners
      PROVE  /\ \A n \in 1..Len(ledger'[p]) : Chained(ledger'[p], n)
             /\ accounts'[p].available = AuditedAvailable(ledger'[p], Len(ledger'[p]))
             /\ accounts'[p].reserved = AuditedReserved(ledger'[p], Len(ledger'[p]))
  <2>1. CASE p = o
    BY <1>3, <1>6, <2>1
  <2>2. CASE p # o
    BY <1>3, <2>2 DEF LedgerExplainsBalances, Chained
  <2> QED BY <2>1, <2>2
<1> QED BY <1>7 DEF LedgerExplainsBalances, Chained

(* Every account's balances are those its ledger arrives at, row by row,   *)
(* whatever sessions interleave: no update is lost and none is unrecorded. *)
THEOREM LedgerExplainsBalancesAlways == Spec => []LedgerExplainsBalances
<1>1. Init => LedgerExplainsBalances
  <2> SUFFICES ASSUME Init, NEW o \in Owners
               PROVE  /\ \A n \in 1..Len(ledger[o]) : Chained(ledger[o], n)
                      /\ accounts[o].available = AuditedAvailable(ledger[o], Len(ledger[o]))
                      /\ accounts[o].reserved = AuditedReserved(ledger[o], Len(ledger[o]))
    BY DEF LedgerExplainsBalances, Chained
  <2>1. Len(ledger[o]) = 0 /\ accounts[o].available = 0 /\ accounts[o].reserved = 0
    BY DEF Init, NoAccount
  <2> QED BY <2>1 DEF AuditedAvailable, AuditedReserved
<1>2. TypeOK /\ LockedViewIsCurrent /\ LedgerExplainsBalances /\ [Next]_vars
        => LedgerExplainsBalances'
  <2> SUFFICES ASSUME TypeOK, LockedViewIsCurrent, LedgerExplainsBalances, [Next]_vars
               PROVE  LedgerExplainsBalances'
    OBVIOUS
  <2>1. ASSUME NEW s \in Sessions, NEW amount \in Amounts, NEW key \in IdempotencyKeys,
               NEW ref \in References, Grant(s, amount, key, ref)
        PROVE  LedgerExplainsBalances'
    <3>1. /\ txn[s] # NoTxn
          /\ Write(s, txn[s].view.available + amount, txn[s].view.reserved, key, "grant",
                   amount, ref, None)
      BY <2>1 DEF Grant
    <3>2. amount \in 1..MaxInt /\ "grant" \in Operations
      BY LedgerAssumption DEF Operations
    <3>3. /\ AvailableDelta([op |-> "grant", amount |-> amount]) = amount
          /\ ReservedDelta([op |-> "grant", amount |-> amount]) = 0
      BY DEF AvailableDelta, ReservedDelta
    <3>4. txn[s].view.reserved + 0 = txn[s].view.reserved
      BY DEF TypeOK, Txn, NoTxn, NoAccount
    <3> QED BY <3>1, <3>2, <3>3, <3>4, WriteKeepsExplanation
  <2>2. ASSUME NEW s \in Sessions, NEW amount \in Amounts, NEW r \in ReservationKeys,
               NEW key \in IdempotencyKeys, NEW ref \in References, Reserve(s, amount, r, key, ref)
        PROVE  LedgerExplainsBalances'
    <3>1. /\ txn[s] # NoTxn
          /\ Write(s, txn[s].view.available - amount, txn[s].view.reserved + amount, key, "reserve",
                   amount, ref, r)
      BY <2>2 DEF Reserve
    <3>2. amount \in 1..MaxInt /\ "reserve" \in Operations
      BY LedgerAssumption DEF Operations
    <3>3. /\ AvailableDelta([op |-> "reserve", amount |-> amount]) = - amount
          /\ ReservedDelta([op |-> "reserve", amount |-> amount]) = amount
      BY DEF AvailableDelta, ReservedDelta
    <3>4. txn[s].view.available + (- amount) = txn[s].view.available - amount
      BY <3>2 DEF TypeOK, Txn, NoTxn, NoAccount
    <3> QED BY <3>1, <3>2, <3>3, <3>4, WriteKeepsExplanation
  <2>3. ASSUME NEW s \in Sessions, NEW op \in {"commit", "refund"}, NEW r \in ReservationKeys,
               NEW key \in IdempotencyKeys, Settle(s, op, r, key)
        PROVE  LedgerExplainsBalances'
    <3> DEFINE held  == reservations[txn[s].owner][r]
               given == IF op = "refund" THEN held.amount ELSE 0
    <3>1. /\ txn[s] # NoTxn
          /\ held # NoReservation
          /\ Write(s, txn[s].view.available + given, txn[s].view.reserved - held.amount, key, op,
                   held.amount, held.ref, r)
      BY <2>3 DEF Settle
    <3>2. txn[s].owner \in Owners
      BY <3>1 DEF TypeOK, Txn
    <3>3. held.amount \in 1..MaxInt /\ held.ref \in References /\ op \in Operations
      BY <3>1, <3>2 DEF TypeOK, Reservation, Operations
    <3> HIDE DEF held
    <3>4. /\ AvailableDelta([op |-> op, amount |-> held.amount]) = given
          /\ ReservedDelta([op |-> op, amount |-> held.amount]) = - held.amount
      BY DEF AvailableDelta, ReservedDelta
    <3>5. txn[s].view.reserved + (- held.amount) = txn[s].view.reserved - held.amount
      BY <3>3 DEF TypeOK, Txn, NoTxn, NoAccount
    <3> HIDE DEF given
    <3> QED BY <3>1, <3>3, <3>4, <3>5, WriteKeepsExplanation
  <2>4. ASSUME accounts' = accounts, ledger' = ledger
        PROVE  LedgerExplainsBalances'
    BY <2>4 DEF LedgerExplainsBalances
  <2> QED BY <2>1, <2>2, <2>3, <2>4 DEF Next, LockAccount, Release, vars
<1> QED BY <1>1, <1>2, TypeCorrect, LockDiscipline, PTL DEF Spec

-----------------------------------------------------------------------------
(***************************************************************************)
(* Replays have no second effect.                                          *)
(***************************************************************************)

(* No idempotency key of an account is ever used for two ledger rows.      *)
THEOREM OneRowPerIdempotencyKeyAlways == Spec => []OneRowPerIdempotencyKey
<1>1. Init => OneRowPerIdempotencyKey
  BY DEF Init, OneRowPerIdempotencyKey
<1>2. TypeOK /\ OneRowPerIdempotencyKey /\ [Next]_vars => OneRowPerIdempotencyKey'
  <2> SUFFICES ASSUME TypeOK, OneRowPerIdempotencyKey, [Next]_vars
               PROVE  OneRowPerIdempotencyKey'
    OBVIOUS
  <2>1. ASSUME NEW o \in Owners, NEW e, e.key \in IdempotencyKeys,
               \A n \in DOMAIN ledger[o] : ledger[o][n].key # e.key,
               ledger' = [ledger EXCEPT ![o] = Append(@, e)]
        PROVE  OneRowPerIdempotencyKey'
    <3>1. ledger[o] \in Seq(Entry) /\ ledger'[o] = Append(ledger[o], e)
      BY <2>1 DEF TypeOK
    <3>2. /\ DOMAIN ledger'[o] = 1..(Len(ledger[o]) + 1)
          /\ \A n \in 1..Len(ledger[o]) : ledger'[o][n] = ledger[o][n]
          /\ ledger'[o][Len(ledger[o]) + 1] = e
          /\ DOMAIN ledger[o] = 1..Len(ledger[o])
          /\ Len(ledger[o]) \in Nat
      BY <3>1
    <3>3. \A p \in Owners : p # o => ledger'[p] = ledger[p]
      BY <2>1 DEF TypeOK
    <3>4. \A m, n \in DOMAIN ledger'[o] : ledger'[o][m].key = ledger'[o][n].key => m = n
      BY <2>1, <3>2 DEF OneRowPerIdempotencyKey
    <3> QED BY <3>3, <3>4 DEF OneRowPerIdempotencyKey
  <2>2. ASSUME NEW s \in Sessions, txn[s] # NoTxn, NEW a, NEW b, NEW key \in IdempotencyKeys,
               NEW op, NEW amount, NEW ref, NEW r,
               Idempotency(txn[s].owner, key, op, amount, ref) = "fresh",
               Write(s, a, b, key, op, amount, ref, r)
        PROVE  OneRowPerIdempotencyKey'
    <3>1. txn[s].owner \in Owners
      BY <2>2 DEF TypeOK, Txn
    <3>2. \A n \in DOMAIN ledger[txn[s].owner] : ledger[txn[s].owner][n].key # key
      BY <2>2 DEF Idempotency
    <3> DEFINE e == [key |-> key, op |-> op, amount |-> amount, ref |-> ref, reservation |-> r,
                     availableAfter |-> a, reservedAfter |-> b]
    <3>3. e.key = key
      OBVIOUS
    <3>4. ledger' = [ledger EXCEPT ![txn[s].owner] = Append(@, e)]
      BY <2>2 DEF Write
    <3> HIDE DEF e
    <3> QED BY <2>1, <3>1, <3>2, <3>3, <3>4
  <2>3. ASSUME NEW s \in Sessions, NEW amount \in Amounts, NEW key \in IdempotencyKeys,
               NEW ref \in References, Grant(s, amount, key, ref)
        PROVE  OneRowPerIdempotencyKey'
    BY <2>2, <2>3 DEF Grant
  <2>4. ASSUME NEW s \in Sessions, NEW amount \in Amounts, NEW r \in ReservationKeys,
               NEW key \in IdempotencyKeys, NEW ref \in References, Reserve(s, amount, r, key, ref)
        PROVE  OneRowPerIdempotencyKey'
    BY <2>2, <2>4 DEF Reserve
  <2>5. ASSUME NEW s \in Sessions, NEW op \in {"commit", "refund"}, NEW r \in ReservationKeys,
               NEW key \in IdempotencyKeys, Settle(s, op, r, key)
        PROVE  OneRowPerIdempotencyKey'
    BY <2>2, <2>5 DEF Settle
  <2>6. ASSUME ledger' = ledger
        PROVE  OneRowPerIdempotencyKey'
    BY <2>6 DEF OneRowPerIdempotencyKey
  <2> QED BY <2>3, <2>4, <2>5, <2>6 DEF Next, LockAccount, Release, vars
<1> QED BY <1>1, <1>2, TypeCorrect, PTL DEF Spec

-----------------------------------------------------------------------------
(***************************************************************************)
(* What a step may never do.                                               *)
(***************************************************************************)

(* Ledger rows, account kinds and terminal reservations never change.      *)
THEOREM HistoryIsPermanentAlways == Spec => HistoryIsPermanent
<1> DEFINE Permanent ==
      \A o \in Owners :
        /\ SubSeq(ledger'[o], 1, Len(ledger[o])) = ledger[o]
        /\ accounts[o].kind # "absent" => accounts'[o].kind = accounts[o].kind
        /\ \A r \in ReservationKeys :
             reservations[o][r].status \in {"committed", "refunded"} =>
               reservations'[o][r] = reservations[o][r]
<1>1. TypeOK /\ LockedViewIsCurrent /\ [Next]_vars => Permanent \/ UNCHANGED vars
  <2> SUFFICES ASSUME TypeOK, LockedViewIsCurrent, Next PROVE Permanent
    OBVIOUS
  <2>1. ASSUME NEW q \in Seq(Entry)
        PROVE  SubSeq(q, 1, Len(q)) = q
    OBVIOUS
  <2>2. ASSUME NEW q \in Seq(Entry), NEW e \in Entry
        PROVE  SubSeq(Append(q, e), 1, Len(q)) = q
    OBVIOUS
  <2>3. ASSUME NEW s \in Sessions, txn[s] # NoTxn, NEW a, NEW b,
               NEW key \in IdempotencyKeys, NEW op \in Operations,
               NEW amount \in 1..MaxInt, NEW ref \in References, NEW r \in ReservationKeys \cup {None},
               Write(s, a, b, key, op, amount, ref, r), NEW o \in Owners
        PROVE  /\ SubSeq(ledger'[o], 1, Len(ledger[o])) = ledger[o]
               /\ accounts[o].kind # "absent" => accounts'[o].kind = accounts[o].kind
    <3>1. txn[s].owner \in Owners /\ txn[s].owner # None
      BY <2>3, LedgerAssumption DEF TypeOK, Txn
    <3>2. accounts[o].kind # "absent" => accounts'[o].kind = accounts[o].kind
      BY <2>3, <3>1 DEF Write, TypeOK, LockedViewIsCurrent
    <3> DEFINE e == [key |-> key, op |-> op, amount |-> amount, ref |-> ref, reservation |-> r,
                     availableAfter |-> a, reservedAfter |-> b]
    <3>3. e \in Entry
      BY <2>3 DEF Write, FitsColumn, Entry
    <3>4. ledger' = [ledger EXCEPT ![txn[s].owner] = Append(@, e)]
      BY <2>3 DEF Write
    <3> HIDE DEF e
    <3>5. ledger'[o] = ledger[o] \/ ledger'[o] = Append(ledger[o], e)
      BY <3>1, <3>4 DEF TypeOK
    <3>6. ledger[o] \in Seq(Entry)
      BY DEF TypeOK
    <3>7. SubSeq(ledger'[o], 1, Len(ledger[o])) = ledger[o]
      BY <2>1, <2>2, <3>3, <3>5, <3>6
    <3> QED BY <3>2, <3>7
  <2>4. ASSUME NEW s \in Sessions, NEW amount \in Amounts, NEW key \in IdempotencyKeys,
               NEW ref \in References, Grant(s, amount, key, ref)
        PROVE  Permanent
    <3>1. amount \in 1..MaxInt /\ "grant" \in Operations
      BY LedgerAssumption DEF Operations
    <3> QED BY <2>3, <2>4, <3>1 DEF Grant
  <2>5. ASSUME NEW s \in Sessions, NEW amount \in Amounts, NEW r \in ReservationKeys,
               NEW key \in IdempotencyKeys, NEW ref \in References, Reserve(s, amount, r, key, ref)
        PROVE  Permanent
    <3>1. amount \in 1..MaxInt /\ "reserve" \in Operations
      BY LedgerAssumption DEF Operations
    <3>2. txn[s].owner \in Owners
      BY <2>5 DEF Reserve, TypeOK, Txn
    <3>3. \A o \in Owners, q \in ReservationKeys :
            reservations[o][q].status \in {"committed", "refunded"} =>
              reservations'[o][q] = reservations[o][q]
      BY <2>5, <3>2 DEF Reserve, TypeOK, NoReservation
    <3> QED BY <2>3, <2>5, <3>1, <3>3 DEF Reserve
  <2>6. ASSUME NEW s \in Sessions, NEW op \in {"commit", "refund"}, NEW r \in ReservationKeys,
               NEW key \in IdempotencyKeys, Settle(s, op, r, key)
        PROVE  Permanent
    <3> DEFINE held == reservations[txn[s].owner][r]
    <3>1. txn[s].owner \in Owners
      BY <2>6 DEF Settle, TypeOK, Txn
    <3>2. held.amount \in 1..MaxInt /\ held.ref \in References /\ op \in Operations
      BY <2>6, <3>1 DEF Settle, TypeOK, Reservation, Operations
    <3>3. \A o \in Owners, q \in ReservationKeys :
            reservations[o][q].status \in {"committed", "refunded"} =>
              reservations'[o][q] = reservations[o][q]
      BY <2>6, <3>1 DEF Settle, Settleable, TypeOK
    <3>4. txn[s] # NoTxn /\ \E a, b : Write(s, a, b, key, op, held.amount, held.ref, r)
      BY <2>6 DEF Settle
    <3> HIDE DEF held
    <3> QED BY <2>3, <3>2, <3>3, <3>4
  <2>7. ASSUME accounts' = accounts, reservations' = reservations, ledger' = ledger
        PROVE  Permanent
    BY <2>1, <2>7 DEF TypeOK
  <2> QED BY <2>4, <2>5, <2>6, <2>7 DEF Next, LockAccount, Release
<1>2. TypeOK /\ LockedViewIsCurrent /\ [Next]_vars => [Permanent]_vars
  BY <1>1
<1> QED BY <1>2, TypeCorrect, LockDiscipline, PTL DEF Spec, HistoryIsPermanent

-----------------------------------------------------------------------------
(***************************************************************************)
(* Test money never pays for work.                                         *)
(***************************************************************************)

(* An account of kind billing_sandbox never holds a reservation and its    *)
(* ledger has only grants.  Inductive only together with what holds before *)
(* the account exists: no reservation and no row.                          *)
EmptyUntilCreated ==
  \A o \in Owners : accounts[o].kind = "absent" =>
    /\ \A r \in ReservationKeys : reservations[o][r] = NoReservation
    /\ ledger[o] = <<>>

THEOREM SandboxNeverSpendsAlways == Spec => []SandboxNeverSpends
<1>1. Init => SandboxNeverSpends /\ EmptyUntilCreated
  BY DEF Init, SandboxNeverSpends, EmptyUntilCreated, NoAccount
<1>2. TypeOK /\ LockedViewIsCurrent /\ SandboxNeverSpends /\ EmptyUntilCreated /\ [Next]_vars
        => SandboxNeverSpends' /\ EmptyUntilCreated'
  <2> SUFFICES ASSUME TypeOK, LockedViewIsCurrent, SandboxNeverSpends, EmptyUntilCreated, [Next]_vars
               PROVE  SandboxNeverSpends' /\ EmptyUntilCreated'
    OBVIOUS
  <2>1. ASSUME NEW s \in Sessions, NEW amount \in Amounts, NEW key \in IdempotencyKeys,
               NEW ref \in References, Grant(s, amount, key, ref)
        PROVE  SandboxNeverSpends' /\ EmptyUntilCreated'
    <3> DEFINE o == txn[s].owner
               e == [key |-> key, op |-> "grant", amount |-> amount, ref |-> ref,
                     reservation |-> None, availableAfter |-> txn[s].view.available + amount,
                     reservedAfter |-> txn[s].view.reserved]
    <3>1. o \in Owners /\ o # None /\ txn[s].view.kind \in Kinds
      BY <2>1, LedgerAssumption DEF Grant, TypeOK, Txn
    <3>2. /\ accounts'[o].kind = txn[s].view.kind
          /\ accounts[o].kind \in {"absent", txn[s].view.kind}
          /\ \A p \in Owners : p # o => accounts'[p] = accounts[p] /\ ledger'[p] = ledger[p]
          /\ ledger'[o] = Append(ledger[o], e)
          /\ reservations' = reservations
      BY <2>1, <3>1 DEF Grant, Write, TypeOK, LockedViewIsCurrent
    <3>3. accounts'[o].kind # "absent"
      BY <3>1, <3>2 DEF Kinds
    <3>4. e.op = "grant"
      OBVIOUS
    <3>5. ledger[o] \in Seq(Entry)
      BY <3>1 DEF TypeOK
    <3> HIDE DEF e, o
    <3>6. \A n \in DOMAIN ledger'[o] :
            (n \in DOMAIN ledger[o] /\ ledger'[o][n] = ledger[o][n]) \/ ledger'[o][n] = e
      BY <3>2, <3>5
    <3>7. accounts'[o].kind = "billing_sandbox" =>
            /\ \A r \in ReservationKeys : reservations[o][r] = NoReservation
            /\ \A n \in DOMAIN ledger[o] : ledger[o][n].op = "grant"
      BY <3>1, <3>2 DEF SandboxNeverSpends, EmptyUntilCreated
    <3>8. SandboxNeverSpends'
      BY <3>2, <3>4, <3>6, <3>7 DEF SandboxNeverSpends
    <3>9. EmptyUntilCreated'
      BY <3>2, <3>3 DEF EmptyUntilCreated
    <3> QED BY <3>8, <3>9
  <2>2. ASSUME NEW s \in Sessions, txn[s] # NoTxn, txn[s].view.kind = "internal_budget",
               NEW a, NEW b, NEW key, NEW op, NEW amount, NEW ref, NEW r, NEW row, NEW q,
               Write(s, a, b, key, op, amount, ref, r),
               reservations' = [reservations EXCEPT ![txn[s].owner][q] = row]
        PROVE  SandboxNeverSpends' /\ EmptyUntilCreated'
    <3>1. txn[s].owner \in Owners
      BY <2>2 DEF TypeOK, Txn
    <3>2. /\ accounts'[txn[s].owner].kind = "internal_budget"
          /\ \A p \in Owners : p # txn[s].owner =>
               accounts'[p] = accounts[p] /\ ledger'[p] = ledger[p] /\ reservations'[p] = reservations[p]
      BY <2>2, <3>1 DEF Write, TypeOK
    <3> QED BY <3>2 DEF SandboxNeverSpends, EmptyUntilCreated
  <2>3. ASSUME NEW s \in Sessions, NEW amount \in Amounts, NEW r \in ReservationKeys,
               NEW key \in IdempotencyKeys, NEW ref \in References, Reserve(s, amount, r, key, ref)
        PROVE  SandboxNeverSpends' /\ EmptyUntilCreated'
    BY <2>2, <2>3 DEF Reserve
  <2>4. ASSUME NEW s \in Sessions, NEW op \in {"commit", "refund"}, NEW r \in ReservationKeys,
               NEW key \in IdempotencyKeys, Settle(s, op, r, key)
        PROVE  SandboxNeverSpends' /\ EmptyUntilCreated'
    <3> DEFINE row == [reservations[txn[s].owner][r] EXCEPT !.status = Settled(op)]
    <3>1. txn[s].owner \in Owners
      BY <2>4 DEF Settle, TypeOK, Txn
    <3>2. reservations' = [reservations EXCEPT ![txn[s].owner][r] = row]
      BY <2>4, <3>1 DEF Settle, TypeOK
    <3>3. /\ txn[s] # NoTxn
          /\ txn[s].view.kind = "internal_budget"
          /\ \E a, b, amount, ref : Write(s, a, b, key, op, amount, ref, r)
      BY <2>4 DEF Settle
    <3> HIDE DEF row
    <3> QED BY <2>2, <3>2, <3>3
  <2>5. ASSUME accounts' = accounts, reservations' = reservations, ledger' = ledger
        PROVE  SandboxNeverSpends' /\ EmptyUntilCreated'
    BY <2>5 DEF SandboxNeverSpends, EmptyUntilCreated
  <2> QED BY <2>1, <2>3, <2>4, <2>5 DEF Next, LockAccount, Release, vars
<1> QED BY <1>1, <1>2, TypeCorrect, LockDiscipline, PTL DEF Spec

-----------------------------------------------------------------------------
(***************************************************************************)
(* The ledger implements the budget.                                       *)
(***************************************************************************)

(* Every behaviour of the ledger is, seen through the available balances   *)
(* and the reservations, a behaviour of CreditBudget.                      *)
THEOREM LedgerImplementsBudget == Spec => ImplementsBudget
<1> DEFINE budget == [o \in Owners |-> accounts[o].available]
           holds  == [o \in Owners |-> [r \in ReservationKeys |->
                        [state |-> reservations[o][r].status, amount |-> reservations[o][r].amount]]]
<1>1. Init => Budget!Init
  BY DEF Init, Budget!Init, NoAccount, NoReservation
<1>2. TypeOK /\ LockedViewIsCurrent /\ [Next]_vars => [Budget!Next]_<<budget, holds>>
  <2> SUFFICES ASSUME TypeOK, LockedViewIsCurrent, [Next]_vars
               PROVE  Budget!Next \/ (budget' = budget /\ holds' = holds)
    OBVIOUS
  <2>0. ASSUME NEW s \in Sessions, txn[s] # NoTxn
        PROVE  /\ txn[s].owner \in Owners
               /\ txn[s].view.available = accounts[txn[s].owner].available
    BY <2>0, LedgerAssumption DEF TypeOK, Txn, LockedViewIsCurrent
  <2>1. ASSUME NEW s \in Sessions, txn[s] # NoTxn, NEW a, NEW b, NEW key, NEW op, NEW amount,
               NEW ref, NEW r, Write(s, a, b, key, op, amount, ref, r)
        PROVE  budget' = [budget EXCEPT ![txn[s].owner] = a]
    BY <2>0, <2>1 DEF Write, TypeOK
  <2>9. ASSUME NEW o \in Owners, NEW r \in ReservationKeys,
               Budget!Spend(o, r) \/ Budget!Return(o, r)
        PROVE  Budget!Next
    BY <2>9 DEF Budget!Next
  <2>2. ASSUME NEW s \in Sessions, NEW amount \in Amounts, NEW key \in IdempotencyKeys,
               NEW ref \in References, Grant(s, amount, key, ref)
        PROVE  Budget!Next
    <3>1. txn[s] # NoTxn /\ txn[s].owner \in Owners
      BY <2>0, <2>2 DEF Grant
    <3>2. budget' = [budget EXCEPT ![txn[s].owner] = txn[s].view.available + amount]
      BY <2>1, <2>2 DEF Grant
    <3>3. budget' = [budget EXCEPT ![txn[s].owner] = @ + amount]
      BY <2>0, <3>1, <3>2
    <3>4. holds' = holds
      BY <2>2 DEF Grant
    <3>5. Budget!Fund(txn[s].owner, amount)
      BY <3>3, <3>4 DEF Budget!Fund
    <3> QED BY <3>1, <3>5 DEF Budget!Next
  <2>3. ASSUME NEW s \in Sessions, NEW amount \in Amounts, NEW r \in ReservationKeys,
               NEW key \in IdempotencyKeys, NEW ref \in References, Reserve(s, amount, r, key, ref)
        PROVE  Budget!Next
    <3>1. txn[s] # NoTxn /\ txn[s].owner \in Owners
      BY <2>0, <2>3 DEF Reserve
    <3>2. budget' = [budget EXCEPT ![txn[s].owner] = txn[s].view.available - amount]
      BY <2>1, <2>3 DEF Reserve
    <3>3. budget' = [budget EXCEPT ![txn[s].owner] = @ - amount]
      BY <2>0, <3>1, <3>2
    <3>4. holds' = [holds EXCEPT ![txn[s].owner][r] = [state |-> "reserved", amount |-> amount]]
      BY <2>3, <3>1 DEF Reserve, TypeOK
    <3>5. holds[txn[s].owner][r].state = "absent"
      BY <2>3, <3>1 DEF Reserve, NoReservation
    <3>6. amount <= budget[txn[s].owner]
      <4>1. accounts[txn[s].owner].available \in Int /\ amount \in Int
        BY <3>1, LedgerAssumption DEF TypeOK, Account
      <4> QED BY <2>0, <2>3, <3>1, <4>1 DEF Reserve
    <3>7. Budget!Hold(txn[s].owner, r, amount)
      BY <3>3, <3>4, <3>5, <3>6 DEF Budget!Hold
    <3> QED BY <3>1, <3>7 DEF Budget!Next
  <2>4. ASSUME NEW s \in Sessions, NEW op \in {"commit", "refund"}, NEW r \in ReservationKeys,
               NEW key \in IdempotencyKeys, Settle(s, op, r, key)
        PROVE  Budget!Next
    <3> DEFINE held == reservations[txn[s].owner][r]
    <3>1. txn[s] # NoTxn /\ txn[s].owner \in Owners
      BY <2>0, <2>4 DEF Settle
    <3>0. PICK o \in Owners : o = txn[s].owner
      BY <3>1
    <3>2. budget' = [budget EXCEPT ![txn[s].owner] =
                       txn[s].view.available + (IF op = "refund" THEN held.amount ELSE 0)]
      BY <2>1, <2>4 DEF Settle
    <3>3. holds' = [holds EXCEPT ![txn[s].owner][r].state = Settled(op)]
      <4> DEFINE row == [held EXCEPT !.status = Settled(op)]
      <4>1. held \in [status: Statuses, amount: 1..MaxInt, ref: References]
        BY <2>4, <3>1 DEF Settle, TypeOK, Reservation
      <4>2. row.status = Settled(op) /\ row.amount = held.amount
        BY <4>1
      <4>3. reservations' = [reservations EXCEPT ![o][r] = row]
        BY <2>4, <3>0, <3>1 DEF Settle, TypeOK
      <4> HIDE DEF row
      <4>4. holds' = [holds EXCEPT ![o][r] = [state |-> Settled(op), amount |-> held.amount]]
        BY <4>2, <4>3 DEF TypeOK
      <4>5. holds[o][r] = [state |-> held.status, amount |-> held.amount]
        BY <3>0
      <4>6. [holds[o][r] EXCEPT !.state = Settled(op)] = [state |-> Settled(op), amount |-> held.amount]
        BY <4>5
      <4> QED BY <3>0, <4>4, <4>6
    <3>4. /\ holds[txn[s].owner][r].state = "reserved"
          /\ holds[txn[s].owner][r].amount = held.amount
      BY <2>4, <3>1 DEF Settle, Settleable
    <3>5. CASE op = "refund"
      <4>1. budget' = [budget EXCEPT ![txn[s].owner] = @ + held.amount]
        BY <2>0, <3>1, <3>2, <3>5
      <4>2. Budget!Return(o, r)
        BY <3>0, <3>3, <3>4, <3>5, <4>1 DEF Budget!Return, Settled
      <4> QED BY <2>9, <4>2
    <3>6. CASE op = "commit"
      <4>1. budget' = budget
        <5>1. accounts[txn[s].owner].available + 0 = accounts[txn[s].owner].available
          BY <3>1 DEF TypeOK, Account
        <5>2. budget' = [budget EXCEPT ![txn[s].owner] = accounts[txn[s].owner].available]
          BY <2>0, <3>1, <3>2, <3>6, <5>1
        <5> QED BY <3>1, <5>2
      <4>2. Budget!Spend(o, r)
        BY <3>0, <3>3, <3>4, <3>6, <4>1 DEF Budget!Spend, Settled
      <4> QED BY <2>9, <4>2
    <3> QED BY <3>5, <3>6
  <2>5. ASSUME accounts' = accounts, reservations' = reservations
        PROVE  budget' = budget /\ holds' = holds
    BY <2>5
  <2> QED BY <2>2, <2>3, <2>4, <2>5 DEF Next, LockAccount, Release, vars
<1> QED BY <1>1, <1>2, TypeCorrect, LockDiscipline, PTL DEF Spec, ImplementsBudget, Budget!Spec

-----------------------------------------------------------------------------
(***************************************************************************)
(* Sums over finite sets.  SumFunctionOnSet is a recursion that takes the  *)
(* elements in an order of its own; that it adds them up whatever the      *)
(* order follows by induction on their number, and the induction from the  *)
(* fact that a set of numbers that refutes a claim has a least member.     *)
(***************************************************************************)

(* The recursion behind a sum: what is chosen first, and the rest.         *)
Chosen(s) == CHOOSE x \in s : TRUE

SumStep(sum, f, s) == IF s = {} THEN 0 ELSE f[Chosen(s)] + sum[s \ {Chosen(s)}]

(* sum gives the sums of f over the sets of D.                             *)
SumsUp(sum, f, D) == sum = [s \in D |-> SumStep(sum, f, s)]

(* The subsets of S with at most n elements.                               *)
UpTo(S, n) == {s \in SUBSET S : Cardinality(s) <= n}

(* Induction over the natural numbers, by a least counterexample.          *)
LEMMA LeastCounterexample ==
  ASSUME NEW B \in SUBSET Nat, B # {}
  PROVE  \E n \in B : \A m \in Nat : m < n => m \notin B
<1>1. PICK n \in B : \A m \in B : <<m, n>> \notin OpToRel(<, Nat)
  BY NatLessThanWellFounded, WFMin
<1>2. ASSUME NEW m \in B PROVE ~ (m < n)
  <2>1. <<m, n>> \in Nat \X Nat /\ <<m, n>>[1] = m /\ <<m, n>>[2] = n
    OBVIOUS
  <2> QED
    BY <1>1, <2>1, Zenon DEF OpToRel
<1> QED
  BY <1>2

(* A set that has elements has the one that is taken first.                *)
LEMMA ChosenIsMember ==
  ASSUME NEW s, s # {}
  PROVE  Chosen(s) \in s
BY DEF Chosen

(* Taking an element away leaves a smaller set.                            *)
LEMMA SmallerWithoutOne ==
  ASSUME NEW S, IsFiniteSet(S), NEW s \in SUBSET S, NEW x \in s
  PROVE  /\ s \ {x} \in SUBSET S /\ Cardinality(s) \in Nat
         /\ Cardinality(s \ {x}) \in Nat /\ Cardinality(s \ {x}) < Cardinality(s)
<1>1. IsFiniteSet(s)
  BY FS_Subset
<1>2. Cardinality(s) \in Nat /\ IsFiniteSet(s \ {x}) /\ Cardinality(s \ {x}) = Cardinality(s) - 1
  BY <1>1, FS_RemoveElement, FS_CardinalityType
<1>3. Cardinality(s \ {x}) \in Nat
  BY <1>2, FS_CardinalityType
<1> QED
  BY <1>2, <1>3

(* A finite set has a sum: by the number of the elements.                  *)
LEMMA SumsExist ==
  ASSUME NEW f, NEW S, IsFiniteSet(S)
  PROVE  \E sum : SumsUp(sum, f, SUBSET S)
<1> DEFINE B == {n \in Nat : ~ \E sum : SumsUp(sum, f, UpTo(S, n))}
<1>1. ASSUME NEW n \in B, \A m \in Nat : m < n => m \notin B
      PROVE  FALSE
  <2>1. CASE n = 0
    <3> DEFINE zero == [s \in UpTo(S, 0) |-> 0]
    <3>1. ASSUME NEW s \in UpTo(S, 0) PROVE s = {}
      <4>1. IsFiniteSet(s) /\ Cardinality(s) <= 0
        BY FS_Subset DEF UpTo
      <4>2. Cardinality(s) = 0
        BY <4>1, FS_CardinalityType
      <4> QED
        BY <4>1, <4>2, FS_EmptySet
    <3>2. SumsUp(zero, f, UpTo(S, 0))
      BY <3>1 DEF SumsUp, SumStep
    <3> QED
      BY <2>1, <3>2
  <2>2. CASE n # 0
    <3>1. n - 1 \in Nat /\ n - 1 < n
      BY <2>2
    <3>2. PICK small : SumsUp(small, f, UpTo(S, n - 1))
      BY <1>1, <3>1
    <3> DEFINE sum == [s \in UpTo(S, n) |-> SumStep(small, f, s)]
    <3>3. ASSUME NEW s \in UpTo(S, n)
          PROVE  SumStep(small, f, s) = SumStep(sum, f, s)
      <4>1. CASE s = {}
        BY <4>1 DEF SumStep
      <4>2. CASE s # {}
        <5> DEFINE rest == s \ {Chosen(s)}
        <5>1. s \in SUBSET S /\ Cardinality(s) <= n /\ Chosen(s) \in s
          BY <4>2, ChosenIsMember DEF UpTo
        <5>2. /\ rest \in SUBSET S /\ Cardinality(s) \in Nat
              /\ Cardinality(rest) \in Nat /\ Cardinality(rest) < Cardinality(s)
          BY <5>1, SmallerWithoutOne
        <5>3. rest \in UpTo(S, n - 1) /\ rest \in UpTo(S, n)
          <6> HIDE DEF rest
          <6>1. Cardinality(rest) <= n - 1 /\ Cardinality(rest) <= n
            BY <5>1, <5>2
          <6> QED
            BY <5>2, <6>1 DEF UpTo
        <5>4. small[rest] = SumStep(small, f, rest)
          BY <3>2, <5>3 DEF SumsUp
        <5>5. sum[rest] = small[rest]
          BY <5>3, <5>4
        <5> QED
          BY <4>2, <5>5 DEF SumStep
      <4> QED
        BY <4>1, <4>2
    <3>4. SumsUp(sum, f, UpTo(S, n))
      BY <3>3 DEF SumsUp
    <3> QED
      BY <3>4
  <2> QED
    BY <2>1, <2>2
<1>2. B = {}
  <2> HIDE DEF B
  <2>1. B \in SUBSET Nat
    BY DEF B
  <2> QED
    BY <1>1, <2>1, LeastCounterexample
<1>3. Cardinality(S) \in Nat /\ UpTo(S, Cardinality(S)) = SUBSET S
  BY FS_CardinalityType, FS_Subset DEF UpTo
<1>4. \E sum : SumsUp(sum, f, UpTo(S, Cardinality(S)))
  BY <1>2, <1>3
<1> QED
  BY <1>3, <1>4, Zenon

(* Sums are integers, and any element may be taken first.                  *)
LEMMA AnyFirst ==
  ASSUME NEW S, IsFiniteSet(S), NEW f, \A x \in S : f[x] \in Int,
         NEW sum, SumsUp(sum, f, SUBSET S)
  PROVE  /\ sum[{}] = 0
         /\ \A s \in SUBSET S : sum[s] \in Int /\ \A x \in s : sum[s] = f[x] + sum[s \ {x}]
<1> DEFINE Good(s) == sum[s] \in Int /\ \A x \in s : sum[s] = f[x] + sum[s \ {x}]
           B == {n \in Nat : \E s \in SUBSET S : Cardinality(s) = n /\ ~ Good(s)}
<1>1. \A s \in SUBSET S : sum[s] = SumStep(sum, f, s)
  BY DEF SumsUp
<1>2. sum[{}] = 0
  BY <1>1 DEF SumStep
<1>3. ASSUME NEW n \in B, \A m \in Nat : m < n => m \notin B
      PROVE  FALSE
  <2>1. PICK s \in SUBSET S : Cardinality(s) = n /\ ~ Good(s)
    OBVIOUS
  <2>2. s # {}
    <3>1. Good({})
      BY <1>2
    <3> QED
      BY <2>1, <3>1
  <2> DEFINE c == Chosen(s)
  <2>3. c \in s /\ sum[s] = f[c] + sum[s \ {c}]
    BY <1>1, <2>2, ChosenIsMember DEF SumStep
  <2>4. ASSUME NEW t \in SUBSET S, NEW x \in s, t = s \ {x}
        PROVE  Good(t)
    <3>1. Cardinality(t) \in Nat /\ Cardinality(t) < n
      BY <2>1, <2>4, SmallerWithoutOne
    <3> QED
      BY <1>3, <3>1
  <2> HIDE DEF c
  <2>5. s \ {c} \in SUBSET S /\ Good(s \ {c})
    BY <2>3, <2>4
  <2>6. sum[s] \in Int
    BY <2>3, <2>5
  <2>7. ASSUME NEW x \in s, x # c
        PROVE  sum[s] = f[x] + sum[s \ {x}]
    <3>1. s \ {x} \in SUBSET S /\ Good(s \ {x})
      BY <2>4
    <3>2. x \in s \ {c} /\ c \in s \ {x} /\ (s \ {c}) \ {x} = (s \ {x}) \ {c}
      BY <2>3, <2>7
    <3>3. sum[s \ {c}] = f[x] + sum[(s \ {c}) \ {x}] /\ sum[s \ {x}] = f[c] + sum[(s \ {x}) \ {c}]
      BY <2>5, <3>1, <3>2
    <3>4. sum[(s \ {c}) \ {x}] \in Int
      <4>1. (s \ {c}) \ {x} \in SUBSET S
        OBVIOUS
      <4>2. sum[s \ {c}] \in Int /\ sum[s \ {x}] \in Int
        BY <2>5, <3>1
      <4>3. Cardinality((s \ {c}) \ {x}) \in Nat /\ Cardinality((s \ {c}) \ {x}) < n
        <5>1. Cardinality(s \ {c}) \in Nat /\ Cardinality(s \ {c}) < n
          BY <2>1, <2>3, SmallerWithoutOne
        <5>2. Cardinality((s \ {c}) \ {x}) \in Nat
              /\ Cardinality((s \ {c}) \ {x}) < Cardinality(s \ {c})
          BY <2>5, <3>2, SmallerWithoutOne
        <5> QED
          BY <5>1, <5>2
      <4> QED
        BY <1>3, <4>1, <4>3
    <3>5. f[x] \in Int /\ f[c] \in Int
      BY <2>3
    <3> DEFINE k == sum[(s \ {c}) \ {x}]
    <3>6. sum[s] = f[c] + (f[x] + k)
      BY <2>3, <3>3
    <3>7. sum[s \ {x}] = f[c] + k
      BY <3>2, <3>3, Zenon
    <3>8. k \in Int
      BY <3>4
    <3> HIDE DEF k
    <3>9. f[c] + (f[x] + k) = f[x] + (f[c] + k)
      BY <3>5, <3>8
    <3> QED
      BY <3>6, <3>7, <3>9
  <2>8. Good(s)
    BY <2>3, <2>6, <2>7
  <2> QED
    BY <2>1, <2>8
<1>4. B = {}
  <2> HIDE DEF B
  <2>1. B \in SUBSET Nat
    BY DEF B
  <2> QED
    BY <1>3, <2>1, LeastCounterexample
<1>5. \A s \in SUBSET S : Good(s)
  <2>1. \A s \in SUBSET S : Cardinality(s) \in Nat
    BY FS_Subset, FS_CardinalityType
  <2> QED
    BY <1>4, <2>1
<1> QED
  BY <1>2, <1>5

(* Where two functions agree, so do their sums.                            *)
LEMMA SumsAgree ==
  ASSUME NEW T, IsFiniteSet(T), NEW S \in SUBSET T, NEW f, NEW g, NEW sum, NEW other,
         SumsUp(sum, f, SUBSET S), SumsUp(other, g, SUBSET T),
         \A x \in S : f[x] = g[x]
  PROVE  sum[S] = other[S]
<1> DEFINE B == {n \in Nat : \E s \in SUBSET S : Cardinality(s) = n /\ sum[s] # other[s]}
<1>0. IsFiniteSet(S)
  BY FS_Subset
<1>1. \A s \in SUBSET S : sum[s] = SumStep(sum, f, s) /\ other[s] = SumStep(other, g, s)
  BY DEF SumsUp
<1>2. ASSUME NEW n \in B, \A m \in Nat : m < n => m \notin B
      PROVE  FALSE
  <2>1. PICK s \in SUBSET S : Cardinality(s) = n /\ sum[s] # other[s]
    OBVIOUS
  <2>2. s # {}
    BY <1>1, <2>1 DEF SumStep
  <2> DEFINE c == Chosen(s)
             rest == s \ {c}
  <2>3. c \in s
    BY <2>2, ChosenIsMember
  <2>4. sum[s] = f[c] + sum[rest] /\ other[s] = g[c] + other[rest]
    BY <1>1, <2>2 DEF SumStep
  <2>5. f[c] = g[c]
    BY <2>3
  <2> HIDE DEF c
  <2>6. Cardinality(rest) \in Nat /\ Cardinality(rest) < n /\ rest \in SUBSET S
    BY <1>0, <2>1, <2>3, SmallerWithoutOne
  <2> HIDE DEF rest
  <2>7. sum[rest] = other[rest]
    BY <1>2, <2>6
  <2> QED
    BY <2>1, <2>4, <2>5, <2>7
<1>3. B = {}
  <2> HIDE DEF B
  <2>1. B \in SUBSET Nat
    BY DEF B
  <2> QED
    BY <1>2, <2>1, LeastCounterexample
<1>4. \A s \in SUBSET S : Cardinality(s) \in Nat
  BY <1>0, FS_Subset, FS_CardinalityType
<1>5. S \in SUBSET S
  OBVIOUS
<1> QED
  BY <1>3, <1>4, <1>5

(* The fold of SumFunctionOnSet is such a recursion.                       *)
LEMMA FoldSumsUp ==
  ASSUME NEW f, NEW S, IsFiniteSet(S)
  PROVE  \E sum : SumsUp(sum, f, SUBSET S) /\ SumFunctionOnSet(f, S) = sum[S]
<1> DEFINE fold == CHOOSE sum : SumsUp(sum, f, SUBSET S)
<1>1. SumsUp(fold, f, SUBSET S)
  BY SumsExist
<1>2. SumFunctionOnSet(f, S) = fold[S]
  BY Zenon DEF SumFunctionOnSet, FoldFunctionOnSet, MapThenFoldSet, SumsUp, SumStep, Chosen
<1> QED
  BY <1>1, <1>2

(* Functions that agree on a set have the same sum over it.                *)
LEMMA SameSums ==
  ASSUME NEW f, NEW g, NEW S, IsFiniteSet(S), \A x \in S : f[x] = g[x]
  PROVE  SumFunctionOnSet(f, S) = SumFunctionOnSet(g, S)
<1>1. PICK sum : SumsUp(sum, f, SUBSET S) /\ SumFunctionOnSet(f, S) = sum[S]
  BY FoldSumsUp
<1>2. PICK other : SumsUp(other, g, SUBSET S) /\ SumFunctionOnSet(g, S) = other[S]
  BY FoldSumsUp
<1>3. sum[S] = other[S]
  <2>1. S \in SUBSET S /\ SumsUp(sum, f, SUBSET S) /\ SumsUp(other, g, SUBSET S)
    BY <1>1, <1>2
  <2> QED
    BY <2>1, SumsAgree
<1> QED
  BY <1>1, <1>2, <1>3

(* One more element adds what the function gives for it.                   *)
LEMMA SumWithOneMore ==
  ASSUME NEW S, IsFiniteSet(S), NEW x, x \notin S, NEW f, \A y \in S \cup {x} : f[y] \in Int
  PROVE  /\ SumFunctionOnSet(f, S) \in Int
         /\ SumFunctionOnSet(f, S \cup {x}) = f[x] + SumFunctionOnSet(f, S)
<1> DEFINE T == S \cup {x}
<1>1. IsFiniteSet(T)
  BY FS_AddElement
<1>2. PICK sum : SumsUp(sum, f, SUBSET S) /\ SumFunctionOnSet(f, S) = sum[S]
  BY FoldSumsUp
<1>3. PICK all : SumsUp(all, f, SUBSET T) /\ SumFunctionOnSet(f, T) = all[T]
  BY <1>1, FoldSumsUp
<1>4. S \in SUBSET T /\ x \in T /\ T \ {x} = S /\ T \in SUBSET T /\ S \in SUBSET S
  OBVIOUS
<1> HIDE DEF T
<1>5. \A y \in T : f[y] \in Int
  BY DEF T
<1>6. all[T] = f[x] + all[T \ {x}]
  BY <1>1, <1>3, <1>4, <1>5, AnyFirst
<1>7. sum[S] = all[S]
  BY <1>1, <1>2, <1>3, <1>4, SumsAgree
<1>8. sum[S] \in Int
  BY <1>2, <1>4, AnyFirst
<1> QED
  BY <1>2, <1>3, <1>4, <1>6, <1>7, <1>8 DEF T

(* The empty sum.                                                          *)
LEMMA SumOfNothing ==
  ASSUME NEW f
  PROVE  SumFunctionOnSet(f, {}) = 0
<1>1. IsFiniteSet({})
  BY FS_EmptySet
<1>2. PICK sum : SumsUp(sum, f, SUBSET {}) /\ SumFunctionOnSet(f, {}) = sum[{}]
  BY <1>1, FoldSumsUp
<1> QED
  BY <1>2 DEF SumsUp, SumStep

-----------------------------------------------------------------------------
(***************************************************************************)
(* Reservations, ledger and reserved balance agree.                        *)
(***************************************************************************)

(* The operations on the ledger's rows of a reservation, by its status.    *)
OpsOf(status) == CASE status = "absent"    -> {}
                   [] status = "reserved"  -> {"reserve"}
                   [] status = "committed" -> {"reserve", "commit"}
                   [] status = "refunded"  -> {"reserve", "refund"}

(* What ReservationMatchesLedger says of one reservation.                  *)
Matching(held, rows, r) ==
  LET own == {n \in DOMAIN rows : rows[n].reservation = r}
  IN  /\ \A n \in own : rows[n].amount = held.amount
      /\ \A m, n \in own : rows[m].op = rows[n].op => m = n
      /\ {rows[n].op : n \in own} =
           OpsOf(held.status)

(* What a ledger row over amount does to its reservation: it opens it, or  *)
(* settles it.                                                             *)
Moves(held, op, amount, new) ==
  /\ new.amount = amount
  /\ \/ held.status = "absent" /\ op = "reserve" /\ new.status = "reserved"
     \/ /\ held.status = "reserved" /\ held.amount = amount
        /\ op \in {"commit", "refund"} /\ new.status = Settled(op)

(* Appending a row leaves the other reservations alone, and takes its own  *)
(* one from absent to reserved, or from reserved to settled.               *)
LEMMA MatchingWithOneMore ==
  ASSUME NEW rows \in Seq(Entry), NEW e \in Entry, NEW r, NEW held, NEW new,
         Matching(held, rows, r),
         \/ e.reservation # r /\ new = held
         \/ e.reservation = r /\ Moves(held, e.op, e.amount, new)
  PROVE  Matching(new, Append(rows, e), r)
<1> DEFINE more == Append(rows, e)
           last == Len(rows) + 1
           own  == {n \in DOMAIN rows : rows[n].reservation = r}
           now  == {n \in DOMAIN more : more[n].reservation = r}
<1>1. /\ DOMAIN more = DOMAIN rows \cup {last} /\ last \notin DOMAIN rows
      /\ more[last] = e /\ \A n \in DOMAIN rows : more[n] = rows[n]
  OBVIOUS
<1> HIDE DEF more, last
<1>2. CASE e.reservation # r /\ new = held
  <2>1. now = own /\ \A n \in own : more[n] = rows[n]
    BY <1>1, <1>2
  <2>2. {more[n].op : n \in now} = {rows[n].op : n \in own}
    BY <2>1
  <2> QED
    BY <1>2, <2>1, <2>2 DEF Matching, more
<1>3. CASE e.reservation = r
  <2>1. /\ now = own \cup {last} /\ last \notin own /\ more[last] = e
        /\ \A n \in own : more[n] = rows[n]
    BY <1>1, <1>3
  <2>2. {more[n].op : n \in now} = {rows[n].op : n \in own} \cup {e.op}
    BY <2>1
  <2>0. e.amount = new.amount
    BY <1>2, <1>3 DEF Moves
  <2>3. CASE held.status = "absent" /\ e.op = "reserve" /\ new.status = "reserved"
    <3>1. {rows[n].op : n \in own} = {}
      <4>1. {rows[n].op : n \in own} = OpsOf(held.status)
        BY DEF Matching
      <4>2. OpsOf(held.status) = {}
        BY <2>3 DEF OpsOf
      <4> QED
        BY <4>1, <4>2
    <3>2. now = {last}
      <4>1. \A n \in own : rows[n].op \in {rows[m].op : m \in own}
        OBVIOUS
      <4>2. own = {}
        BY <3>1, <4>1
      <4> QED
        BY <2>1, <4>2
    <3>3. {more[n].op : n \in now} = {"reserve"}
      BY <2>2, <2>3, <3>1
    <3>4. \A n \in now : more[n].amount = new.amount
      BY <2>0, <2>1, <3>2
    <3>5. \A m, n \in now : m = n
      BY <3>2
    <3>6. {more[n].op : n \in now} = OpsOf(new.status)
      <4>1. OpsOf(new.status) = {"reserve"}
        BY <2>3 DEF OpsOf
      <4> QED
        BY <3>3, <4>1
    <3> QED
      BY <3>4, <3>5, <3>6 DEF Matching, more
  <2>4. CASE /\ held.status = "reserved" /\ held.amount = new.amount
             /\ e.op \in {"commit", "refund"} /\ new.status = Settled(e.op)
    <3>1. /\ {rows[n].op : n \in own} = {"reserve"}
          /\ \A n \in own : rows[n].amount = held.amount
          /\ \A m, n \in own : rows[m].op = rows[n].op => m = n
      <4>1. {rows[n].op : n \in own} = OpsOf(held.status)
        BY DEF Matching
      <4>2. OpsOf(held.status) = {"reserve"}
        BY <2>4 DEF OpsOf
      <4>3. /\ \A n \in own : rows[n].amount = held.amount
            /\ \A m, n \in own : rows[m].op = rows[n].op => m = n
        BY DEF Matching
      <4> HIDE DEF own
      <4> QED
        BY <4>1, <4>2, <4>3
    <3>2. \A n \in own : rows[n].op = "reserve"
      <4>1. \A n \in own : rows[n].op \in {rows[m].op : m \in own}
        OBVIOUS
      <4> HIDE DEF own
      <4> QED
        BY <3>1, <4>1
    <3>3. \A m, n \in now : more[m].op = more[n].op => m = n
      BY <2>1, <2>4, <3>1, <3>2
    <3>4. \A n \in now : more[n].amount = new.amount
      BY <2>0, <2>1, <2>4, <3>1
    <3>5. {more[n].op : n \in now} = OpsOf(new.status)
      <4>1. OpsOf(new.status) = {"reserve"} \cup {e.op}
        BY <2>4 DEF OpsOf, Settled
      <4> QED
        BY <2>2, <3>1, <4>1
    <3> QED
      BY <3>3, <3>4, <3>5 DEF Matching, more
  <2> QED
    BY <1>2, <1>3, <2>3, <2>4 DEF Moves
<1> QED
  BY <1>2, <1>3

(* A reservation at a time.                                                *)
LEMMA MatchingPerReservation ==
  ReservationMatchesLedger <=>
    \A o \in Owners, r \in ReservationKeys : Matching(reservations[o][r], ledger[o], r)
BY DEF ReservationMatchesLedger, Matching, OpsOf

(* The three ways a transaction changes the reservations and the ledger    *)
(* keep them matching.                                                     *)
LEMMA MatchingKept ==
  ASSUME TypeOK, ReservationMatchesLedger, NEW s \in Sessions, txn[s].owner \in Owners,
         NEW available, NEW reserved, NEW key \in IdempotencyKeys, NEW op \in Operations,
         NEW amount \in 1..MaxInt, NEW ref \in References, NEW r \in ReservationKeys \cup {None},
         Write(s, available, reserved, key, op, amount, ref, r),
         NEW new,
         \/ r = None /\ reservations' = reservations
         \/ /\ r \in ReservationKeys
            /\ reservations' = [reservations EXCEPT ![txn[s].owner][r] = new]
            /\ Moves(reservations[txn[s].owner][r], op, amount, new)
  PROVE  ReservationMatchesLedger'
<1> DEFINE o == txn[s].owner
           e == [key |-> key, op |-> op, amount |-> amount, ref |-> ref, reservation |-> r,
                 availableAfter |-> available, reservedAfter |-> reserved]
<1>1. /\ e \in Entry /\ e.reservation = r /\ e.op = op /\ e.amount = amount
      /\ ledger' = [ledger EXCEPT ![o] = Append(@, e)]
  BY DEF Write, FitsColumn, Entry
<1>2. o \in Owners
  OBVIOUS
<1>3. /\ ledger[o] \in Seq(Entry) /\ ledger'[o] = Append(ledger[o], e)
      /\ \A p \in Owners : p # o => ledger'[p] = ledger[p]
  <2> HIDE DEF o, e
  <2> QED
    BY <1>1, <1>2 DEF TypeOK
<1>4. ASSUME NEW p \in Owners, NEW q \in ReservationKeys
      PROVE  Matching(reservations'[p][q], ledger'[p], q)
  <2>1. Matching(reservations[p][q], ledger[p], q)
    BY MatchingPerReservation
  <2>2. CASE p # o
    <3>1. reservations'[p] = reservations[p]
      BY <1>2, <2>2 DEF TypeOK
    <3> QED
      BY <1>3, <2>1, <2>2, <3>1
  <2>3. CASE p = o /\ q # r
    <3>1. reservations'[p][q] = reservations[p][q]
      BY <1>2, <2>3 DEF TypeOK
    <3> HIDE DEF o, e
    <3> QED
      BY <1>1, <1>3, <2>1, <2>3, <3>1, MatchingWithOneMore
  <2>4. CASE p = o /\ q = r
    <3>1. r \in ReservationKeys
      BY <2>4
    <3>2. reservations'[p][q] = new
      BY <1>2, <2>4, <3>1, LedgerAssumption DEF TypeOK
    <3>3. Moves(reservations[p][q], op, amount, new)
      BY <2>4, <3>1, LedgerAssumption
    <3> HIDE DEF o, e
    <3>4. Matching(new, Append(ledger[o], e), r)
      BY <1>1, <1>3, <2>1, <2>4, <3>3, MatchingWithOneMore
    <3> QED
      BY <1>3, <2>4, <3>2, <3>4
  <2> QED
    BY <2>2, <2>3, <2>4
<1> QED
  BY <1>4 DEF ReservationMatchesLedger, Matching, OpsOf

-----------------------------------------------------------------------------
(***************************************************************************)
(* The reserved balance is the sum of the open reservations.               *)
(***************************************************************************)

OpenIn(row) == {r \in ReservationKeys : row[r].status = "reserved"}
HeldIn(row) == [r \in ReservationKeys |-> row[r].amount]
HoldsOf(row) == SumFunctionOnSet(HeldIn(row), OpenIn(row))

(* Two accounts' reservations that differ in one, open in the second only, *)
(* differ in what they hold by its amount.                                 *)
LEMMA OneHoldMore ==
  ASSUME NEW row \in [ReservationKeys -> Reservation], NEW more \in [ReservationKeys -> Reservation],
         NEW r \in ReservationKeys, row[r].status # "reserved", more[r].status = "reserved",
         \A q \in ReservationKeys : q # r => more[q] = row[q],
         IsFiniteSet(OpenIn(row))
  PROVE  /\ IsFiniteSet(OpenIn(more)) /\ HoldsOf(row) \in Int
         /\ HoldsOf(more) = more[r].amount + HoldsOf(row)
<1>1. /\ OpenIn(more) = OpenIn(row) \cup {r} /\ r \notin OpenIn(row)
      /\ OpenIn(row) \subseteq ReservationKeys
  BY DEF OpenIn
<1>2. \A q \in OpenIn(row) : HeldIn(more)[q] = HeldIn(row)[q]
  BY <1>1 DEF HeldIn
<1>3. HeldIn(more)[r] = more[r].amount
  BY DEF HeldIn
<1>4. \A q \in OpenIn(row) \cup {r} : HeldIn(more)[q] \in Int
  <2>1. \A q \in ReservationKeys : more[q].amount \in Int
    BY DEF Reservation, NoReservation
  <2> QED
    BY <1>1, <2>1 DEF HeldIn
<1>5. SumFunctionOnSet(HeldIn(more), OpenIn(row)) = HoldsOf(row)
  BY <1>2, SameSums DEF HoldsOf
<1>6. /\ SumFunctionOnSet(HeldIn(more), OpenIn(row)) \in Int
      /\ SumFunctionOnSet(HeldIn(more), OpenIn(row) \cup {r})
           = HeldIn(more)[r] + SumFunctionOnSet(HeldIn(more), OpenIn(row))
  BY <1>1, <1>4, SumWithOneMore
<1>7. IsFiniteSet(OpenIn(more))
  BY <1>1, FS_AddElement
<1> QED
  BY <1>1, <1>3, <1>5, <1>6, <1>7 DEF HoldsOf

(* The open reservations of an account are finitely many, and its reserved *)
(* balance is their sum.                                                   *)
HoldsAddUp ==
  \A o \in Owners : /\ IsFiniteSet(OpenIn(reservations[o]))
                    /\ accounts[o].reserved = HoldsOf(reservations[o])

(* The reserved balance is the sum of the open reservations and every      *)
(* reservation is settled as often as the ledger says, whatever the        *)
(* sessions do: _settle never finds the balance inconsistent.              *)
THEOREM ReservedIsAlwaysSumOfHolds == Spec => []ReservedIsSumOfHolds
<1>1. Init => ReservationMatchesLedger /\ HoldsAddUp
  <2> SUFFICES ASSUME Init PROVE ReservationMatchesLedger /\ HoldsAddUp
    OBVIOUS
  <2>1. ReservationMatchesLedger
    BY DEF Init, ReservationMatchesLedger, NoReservation
  <2>2. ASSUME NEW o \in Owners
        PROVE  OpenIn(reservations[o]) = {} /\ accounts[o].reserved = 0
    BY DEF Init, OpenIn, NoReservation, NoAccount
  <2>3. HoldsAddUp
    BY <2>2, SumOfNothing, FS_EmptySet DEF HoldsAddUp, HoldsOf
  <2> QED
    BY <2>1, <2>3
<1>2. TypeOK /\ LockedViewIsCurrent /\ ReservationMatchesLedger /\ HoldsAddUp /\ TypeOK' /\ [Next]_vars
        => ReservationMatchesLedger' /\ HoldsAddUp'
  <2> SUFFICES ASSUME TypeOK, LockedViewIsCurrent, ReservationMatchesLedger, HoldsAddUp, TypeOK',
                      [Next]_vars
               PROVE  ReservationMatchesLedger' /\ HoldsAddUp'
    OBVIOUS
  <2>0. ASSUME NEW s \in Sessions, txn[s] # NoTxn
        PROVE  /\ txn[s].owner \in Owners
               /\ txn[s].view.reserved = accounts[txn[s].owner].reserved
    BY <2>0, LedgerAssumption DEF TypeOK, Txn, LockedViewIsCurrent
  <2>1. ASSUME NEW s \in Sessions, txn[s].owner \in Owners, NEW available, NEW reserved, NEW key,
               NEW op, NEW amount, NEW ref, NEW r, Write(s, available, reserved, key, op, amount, ref, r),
               \A o \in Owners : o # txn[s].owner => reservations'[o] = reservations[o],
               /\ IsFiniteSet(OpenIn(reservations'[txn[s].owner]))
               /\ reserved = HoldsOf(reservations'[txn[s].owner])
        PROVE  HoldsAddUp'
    <3>1. ASSUME NEW o \in Owners
          PROVE  accounts'[o].reserved = IF o = txn[s].owner THEN reserved ELSE accounts[o].reserved
      BY <2>1 DEF Write, TypeOK
    <3>2. ASSUME NEW o \in Owners
          PROVE  IsFiniteSet(OpenIn(reservations'[o])) /\ accounts'[o].reserved = HoldsOf(reservations'[o])
      BY <2>1, <3>1 DEF HoldsAddUp
    <3> QED
      BY <3>2 DEF HoldsAddUp, HoldsOf, OpenIn, HeldIn
  <2>2. ASSUME NEW s \in Sessions, NEW amount \in Amounts, NEW key \in IdempotencyKeys,
               NEW ref \in References, Grant(s, amount, key, ref)
        PROVE  ReservationMatchesLedger' /\ HoldsAddUp'
    <3>1. amount \in 1..MaxInt /\ "grant" \in Operations
      BY LedgerAssumption DEF Operations
    <3>2. /\ txn[s].owner \in Owners /\ reservations' = reservations
          /\ txn[s].view.reserved = accounts[txn[s].owner].reserved
          /\ Write(s, txn[s].view.available + amount, txn[s].view.reserved, key, "grant", amount,
                   ref, None)
      BY <2>0, <2>2 DEF Grant
    <3>3. ReservationMatchesLedger'
      BY <3>1, <3>2, MatchingKept
    <3>4. HoldsAddUp'
      BY <2>1, <3>2 DEF HoldsAddUp
    <3> QED
      BY <3>3, <3>4
  <2>3. ASSUME NEW s \in Sessions, NEW amount \in Amounts, NEW r \in ReservationKeys,
               NEW key \in IdempotencyKeys, NEW ref \in References, Reserve(s, amount, r, key, ref)
        PROVE  ReservationMatchesLedger' /\ HoldsAddUp'
    <3> DEFINE o   == txn[s].owner
               new == [status |-> "reserved", amount |-> amount, ref |-> ref]
    <3>1. amount \in 1..MaxInt /\ "reserve" \in Operations
      BY LedgerAssumption DEF Operations
    <3>2. /\ o \in Owners /\ reservations[o][r].status = "absent"
          /\ reservations' = [reservations EXCEPT ![o][r] = new]
          /\ txn[s].view.reserved = accounts[o].reserved
          /\ Write(s, txn[s].view.available - amount, txn[s].view.reserved + amount, key, "reserve",
                   amount, ref, r)
      BY <2>0, <2>3 DEF Reserve, NoReservation
    <3>3. new.status = "reserved" /\ new.amount = amount
      OBVIOUS
    <3> HIDE DEF new
    <3>4. ReservationMatchesLedger'
      <4>1. Moves(reservations[o][r], "reserve", amount, new)
        BY <3>2, <3>3 DEF Moves
      <4> QED
        BY <3>1, <3>2, <4>1, MatchingKept
    <3>5. /\ reservations'[o][r] = new
          /\ \A q \in ReservationKeys : q # r => reservations'[o][q] = reservations[o][q]
          /\ \A p \in Owners : p # o => reservations'[p] = reservations[p]
          /\ reservations[o] \in [ReservationKeys -> Reservation]
          /\ reservations'[o] \in [ReservationKeys -> Reservation]
      <4> HIDE DEF o
      <4> QED
        BY <3>2 DEF TypeOK
    <3>6. /\ IsFiniteSet(OpenIn(reservations'[o])) /\ HoldsOf(reservations[o]) \in Int
          /\ HoldsOf(reservations'[o]) = amount + HoldsOf(reservations[o])
      BY <3>2, <3>3, <3>5, OneHoldMore DEF HoldsAddUp
    <3>7. txn[s].view.reserved + amount = HoldsOf(reservations'[o])
      <4>1. txn[s].view.reserved = HoldsOf(reservations[o])
        BY <3>2 DEF HoldsAddUp
      <4> QED
        BY <3>1, <3>6, <4>1
    <3>8. HoldsAddUp'
      BY <2>1, <3>2, <3>5, <3>6, <3>7
    <3> QED
      BY <3>4, <3>8
  <2>4. ASSUME NEW s \in Sessions, NEW op \in {"commit", "refund"}, NEW r \in ReservationKeys,
               NEW key \in IdempotencyKeys, Settle(s, op, r, key)
        PROVE  ReservationMatchesLedger' /\ HoldsAddUp'
    <3> DEFINE o    == txn[s].owner
               held == reservations[o][r]
               new  == [held EXCEPT !.status = Settled(op)]
               paid == txn[s].view.available + (IF op = "refund" THEN held.amount ELSE 0)
    <3>1. /\ o \in Owners /\ held.status = "reserved" /\ held # NoReservation
          /\ reservations' = [reservations EXCEPT ![o][r].status = Settled(op)]
          /\ txn[s].view.reserved = accounts[o].reserved
          /\ Write(s, paid, txn[s].view.reserved - held.amount, key, op, held.amount, held.ref, r)
      <4>1. o \in Owners /\ txn[s].view.reserved = accounts[o].reserved
        BY <2>0, <2>4 DEF Settle
      <4>2. held.status = "reserved" /\ held # NoReservation
        BY <2>4 DEF Settle, Settleable
      <4>3. reservations' = [reservations EXCEPT ![o][r].status = Settled(op)]
        BY <2>4 DEF Settle
      <4>4. Write(s, paid, txn[s].view.reserved - held.amount, key, op, held.amount, held.ref, r)
        BY <2>4 DEF Settle
      <4> HIDE DEF o, held, paid
      <4> QED
        BY <4>1, <4>2, <4>3, <4>4
    <3>2. held \in [status: Statuses, amount: 1..MaxInt, ref: References]
      <4>1. held \in Reservation
        BY <3>1 DEF TypeOK
      <4> HIDE DEF held
      <4> QED
        BY <3>1, <4>1 DEF Reservation
    <3>3. /\ held.amount \in 1..MaxInt /\ held.ref \in References /\ op \in Operations
          /\ new.status = Settled(op) /\ Settled(op) # "reserved" /\ new.amount = held.amount
      BY <3>2 DEF Operations, Settled
    <3>4. reservations' = [reservations EXCEPT ![o][r] = new]
      BY <3>1 DEF TypeOK
    <3> HIDE DEF new
    <3>5. /\ reservations'[o][r] = new
          /\ \A q \in ReservationKeys : q # r => reservations'[o][q] = reservations[o][q]
          /\ \A p \in Owners : p # o => reservations'[p] = reservations[p]
          /\ reservations[o] \in [ReservationKeys -> Reservation]
          /\ reservations'[o] \in [ReservationKeys -> Reservation]
      <4>1. o \in Owners
        BY <3>1
      <4> HIDE DEF o
      <4> QED
        BY <3>4, <4>1 DEF TypeOK
    <3> HIDE DEF paid
    <3>6. ReservationMatchesLedger'
      <4>1. Moves(reservations[o][r], op, held.amount, new)
        BY <3>1, <3>3 DEF Moves
      <4>2. held.amount \in 1..MaxInt /\ held.ref \in References
        BY <3>3
      <4>3. /\ o \in Owners
            /\ Write(s, paid, txn[s].view.reserved - held.amount, key, op, held.amount, held.ref, r)
        BY <3>1
      <4>4. op \in Operations
        BY <3>3
      <4> HIDE DEF held
      <4> QED
        BY <3>4, <4>1, <4>2, <4>3, <4>4, MatchingKept
    <3>7. IsFiniteSet(OpenIn(reservations'[o]))
      <4>1. OpenIn(reservations'[o]) \subseteq OpenIn(reservations[o])
        BY <3>3, <3>5 DEF OpenIn
      <4>2. IsFiniteSet(OpenIn(reservations[o]))
        BY <3>1 DEF HoldsAddUp
      <4> QED
        BY <4>1, <4>2, FS_Subset
    <3>8. /\ HoldsOf(reservations'[o]) \in Int
          /\ HoldsOf(reservations[o]) = held.amount + HoldsOf(reservations'[o])
      <4> DEFINE before == reservations[o]
                 after  == reservations'[o]
      <4>1. /\ before \in [ReservationKeys -> Reservation] /\ before[r].status = "reserved"
            /\ before[r].amount = held.amount
        BY <3>1, <3>5
      <4>2. /\ after \in [ReservationKeys -> Reservation] /\ after[r].status # "reserved"
            /\ \A q \in ReservationKeys : q # r => before[q] = after[q]
        BY <3>3, <3>5
      <4> HIDE DEF before, after, held
      <4>3. IsFiniteSet(OpenIn(after))
        BY <3>7 DEF after
      <4>4. HoldsOf(after) \in Int /\ HoldsOf(before) = before[r].amount + HoldsOf(after)
        BY <4>1, <4>2, <4>3, OneHoldMore
      <4> QED
        BY <4>1, <4>4 DEF before, after
    <3>9. txn[s].view.reserved - held.amount = HoldsOf(reservations'[o])
      <4>1. txn[s].view.reserved = HoldsOf(reservations[o])
        BY <3>1 DEF HoldsAddUp
      <4> HIDE DEF held
      <4> QED
        BY <3>3, <3>8, <4>1
    <3>10. HoldsAddUp'
      BY <2>1, <3>1, <3>5, <3>7, <3>9
    <3> QED
      BY <3>6, <3>10
  <2>5. ASSUME accounts' = accounts, reservations' = reservations, ledger' = ledger
        PROVE  ReservationMatchesLedger' /\ HoldsAddUp'
    <3>1. ReservationMatchesLedger'
      <4>1. \A o \in Owners, r \in ReservationKeys : Matching(reservations'[o][r], ledger'[o], r)
        BY <2>5, MatchingPerReservation
      <4> QED
        BY <4>1 DEF ReservationMatchesLedger, Matching, OpsOf
    <3>2. HoldsAddUp'
      BY <2>5 DEF HoldsAddUp, HoldsOf, OpenIn, HeldIn
    <3> QED
      BY <3>1, <3>2
  <2> QED BY <2>2, <2>3, <2>4, <2>5 DEF Next, LockAccount, Release, vars
<1>3. ReservationMatchesLedger /\ HoldsAddUp => ReservedIsSumOfHolds
  BY DEF ReservedIsSumOfHolds, HoldsAddUp, HoldsOf, OpenIn, HeldIn, Open, Held
<1> QED BY <1>1, <1>2, <1>3, TypeCorrect, LockDiscipline, PTL DEF Spec

=============================================================================
