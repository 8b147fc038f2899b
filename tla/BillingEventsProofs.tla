------------------------- MODULE BillingEventsProofs -------------------------
(***************************************************************************)
(* Theorems about the billing sandbox, for every set of deliveries, price  *)
(* policies and sessions and every width of the balance.                   *)
(***************************************************************************)
EXTENDS BillingSandbox, FiniteSetTheorems, WellFoundedInduction, TLAPS

-----------------------------------------------------------------------------
(***************************************************************************)
(* The inductive invariant.                                                *)
(***************************************************************************)

(* The sessions that hold the lock of their event, and those that hold the *)
(* lock of an invoice.                                                     *)
HasEvent(s)   == requests[s].at \in {"invoice", "account", "decided"}
HasInvoice(s) == requests[s].at \in {"account", "decided"} /\ Request(s).invoice # None

(* An event is processed by one session at a time, an invoice by one too,  *)
(* and an event that is being processed has not been observed yet.         *)
LocksInv ==
  /\ \A s \in Sessions : requests[s].at # "idle" => Request(s) \in Deliveries
  /\ \A s \in Sessions : requests[s].at \in {"invoice", "account"} => Request(s).invoice # None
  /\ \A s \in Sessions : HasEvent(s) => observations[Request(s).event] = None
  /\ \A s, t \in Sessions :
       HasEvent(s) /\ HasEvent(t) /\ Request(s).event = Request(t).event => s = t
  /\ \A s, t \in Sessions :
       HasInvoice(s) /\ HasInvoice(t) /\ Request(s).invoice = Request(t).invoice => s = t

(* The sessions that are about to credit their invoice, and what they have *)
(* found out about it under its lock.                                      *)
Crediting(s) ==
  requests[s].at = "account" \/ (requests[s].at = "decided" /\ requests[s].status = "applied")

PolicyFits(d) ==
  /\ accounts[d.customer] # None
  /\ prices[d.price] # None /\ prices[d.price].amount = d.amount

DecisionsInv ==
  /\ \A s \in Sessions : requests[s].at = "decided" => requests[s].status # None
  /\ \A s \in Sessions : Crediting(s) =>
       Request(s).invoice # None /\ ~ Applied(Request(s)) /\ PolicyFits(Request(s))
  /\ \A s \in Sessions : requests[s].at = "decided" /\ requests[s].status = "duplicate" =>
       Request(s).invoice # None /\ Applied(Request(s)) /\ ~ Conflicts(Request(s))

(* Who has made a grant and not told the sender is alone with it.          *)
Telling(s) == requests[s].at = "answering" /\ requests[s].status = "applied"

AnswersInv ==
  /\ \A s \in Sessions : Telling(s) =>
       Request(s).invoice # None /\ Applied(Request(s)) /\ credited[Request(s).invoice] = 0
  /\ \A s, t \in Sessions :
       Telling(s) /\ Telling(t) /\ Request(s).invoice = Request(t).invoice => s = t

(* What is written about one invoice; o are the observations.              *)
GrantsOf(i) == {g \in grants : g.invoice = i}

NothingWritten(i) ==
  GrantsOf(i) = {} /\ ObservedAs(i, "applied") = {} /\ ObservedAs(i, "duplicate") = {}

AllWritten(i) ==
  LET facts == applications[i].facts
  IN  /\ GrantsOf(i) = {[customer |-> facts.customer, invoice |-> i,
                           units |-> applications[i].units]}
      /\ prices[facts.price] # None
      /\ facts.amount = prices[facts.price].amount
      /\ applications[i].units = prices[facts.price].units
      /\ \E e \in Events : ObservedAs(i, "applied") = {e}
      /\ \A e \in ObservedAs(i, "applied") \cup ObservedAs(i, "duplicate") :
           Facts(observations[e].delivery) = facts

ReceiptsInv ==
  \A i \in Invoices : IF applications[i] = None THEN NothingWritten(i) ELSE AllWritten(i)

IInv ==
  /\ TypeOK /\ LocksInv /\ DecisionsInv /\ AnswersInv /\ ReceiptsInv /\ CreditIsAnnouncedOnce

-----------------------------------------------------------------------------
(***************************************************************************)
(* Rows and requests.                                                      *)
(***************************************************************************)

(* The types of the rows, field by field.                                  *)
LEMMA Types ==
  ASSUME TypeOK, NEW s \in Sessions
  PROVE  /\ requests \in [Sessions -> Transaction] /\ requests[s] \in Transaction
         /\ requests[s].at \in Stages /\ requests[s].status \in Outcomes \cup {None}
         /\ requests[s].review \in Reasons /\ requests[s].balance \in 0..MaxInt
         /\ Request(s) \in Deliveries \cup {None} /\ Request(s) = requests[s].delivery
<1>1. requests[s] \in Transaction
  BY DEF TypeOK
<1> QED BY <1>1 DEF TypeOK, Transaction, Request

(* The delivery of a transaction has an event; if it has an invoice, it    *)
(* has a customer and a price as well.                                     *)
LEMMA DeliveryFacts ==
  ASSUME NEW d \in Deliveries
  PROVE  /\ d.event \in Events
         /\ d.invoice # None => d.invoice \in Invoices /\ d.customer \in Customers
                                /\ d.price \in Prices /\ d.review = None
         /\ d.review \in Reasons
BY BillingAssumption DEF Events, Invoices, Customers, Prices, Reasons

(* The empty transaction and a decided one are transactions.               *)
LEMMA DecidedFacts ==
  ASSUME NEW d \in Deliveries, NEW status \in Outcomes, NEW review \in Reasons
  PROVE  /\ Decided(d, status, review) \in Transaction
         /\ Decided(d, status, review).at = "decided"
         /\ Decided(d, status, review).delivery = d
         /\ Decided(d, status, review).status = status
         /\ Decided(d, status, review).review = review
<1>1. Idle = [at |-> "idle", delivery |-> None, status |-> None, review |-> None, balance |-> 0]
  BY DEF Idle
<1>2. Decided(d, status, review) = [at |-> "decided", delivery |-> d, status |-> status,
                                    review |-> review, balance |-> 0]
  <2>1. Decided(d, status, review) =
          [[at |-> "idle", delivery |-> None, status |-> None, review |-> None, balance |-> 0]
             EXCEPT !.at = "decided", !.delivery = d, !.status = status, !.review = review]
    BY <1>1 DEF Decided
  <2> QED BY <2>1
<1>3. 0 \in 0..MaxInt /\ "decided" \in Stages
  BY BillingAssumption DEF Stages
<1> QED BY <1>2, <1>3 DEF Transaction

LEMMA IdleFacts ==
  Idle \in Transaction /\ Idle.at = "idle" /\ Idle.status = None
BY BillingAssumption DEF Idle, Transaction, Stages, Reasons

(* A step that replaces the record of one session leaves the others.       *)
LEMMA OneRequest ==
  ASSUME TypeOK, NEW s \in Sessions, NEW row \in Transaction,
         requests' = [requests EXCEPT ![s] = row]
  PROVE  /\ requests' \in [Sessions -> Transaction]
         /\ requests'[s] = row /\ Request(s)' = row.delivery
         /\ \A t \in Sessions \ {s} : requests'[t] = requests[t] /\ Request(t)' = Request(t)
BY DEF TypeOK, Request

(* While the tables stay, everything written about an invoice stays, and   *)
(* so does what is known about a delivery.                                 *)
LEMMA SameTables ==
  ASSUME UNCHANGED tables
  PROVE  /\ \A i \in Invoices : NothingWritten(i)' = NothingWritten(i)
                                /\ AllWritten(i)' = AllWritten(i)
         /\ \A d \in Deliveries : /\ Applied(d)' = Applied(d) /\ Conflicts(d)' = Conflicts(d)
                                  /\ PolicyFits(d)' = PolicyFits(d)
         /\ ReceiptsInv => ReceiptsInv'
<1> USE DEF tables
<1>1. /\ \A i \in Invoices, o \in Outcomes : ObservedAs(i, o)' = ObservedAs(i, o)
      /\ \A i \in Invoices : GrantsOf(i)' = GrantsOf(i)
  BY DEF ObservedAs, GrantsOf
<1>2. \A i \in Invoices : NothingWritten(i)' = NothingWritten(i)
  BY <1>1 DEF NothingWritten, Outcomes
<1>3. \A i \in Invoices : AllWritten(i)' = AllWritten(i)
  BY <1>1 DEF AllWritten, Outcomes
<1>4. \A d \in Deliveries : /\ Applied(d)' = Applied(d) /\ Conflicts(d)' = Conflicts(d)
                            /\ PolicyFits(d)' = PolicyFits(d)
  BY DEF Applied, Conflicts, PolicyFits
<1>5. ReceiptsInv => ReceiptsInv'
  BY <1>2, <1>3 DEF ReceiptsInv
<1> QED BY <1>2, <1>3, <1>4, <1>5

(* What is written about an invoice does not depend on the accounts, nor   *)
(* on the policies of other prices.                                        *)
LEMMA PolicyAdded ==
  ASSUME TypeOK, UNCHANGED <<grants, applications, observations>>,
         \A p \in Prices : prices[p] # None => prices'[p] = prices[p],
         ReceiptsInv
  PROVE  ReceiptsInv'
<1>1. /\ \A i \in Invoices, o \in Outcomes : ObservedAs(i, o)' = ObservedAs(i, o)
      /\ \A i \in Invoices : GrantsOf(i)' = GrantsOf(i)
  BY DEF ObservedAs, GrantsOf
<1> SUFFICES ASSUME NEW i \in Invoices
             PROVE  IF applications[i] = None THEN NothingWritten(i)' ELSE AllWritten(i)'
  BY DEF ReceiptsInv
<1>2. CASE applications[i] = None
  BY <1>1, <1>2 DEF ReceiptsInv, NothingWritten, Outcomes
<1>3. CASE applications[i] # None
  <2>1. AllWritten(i)
    BY <1>3 DEF ReceiptsInv
  <2>2. applications[i].facts.price \in Prices
    <3>1. PICK d \in Deliveries : d.invoice # None /\ applications[i].facts = Facts(d)
      BY <1>3 DEF TypeOK, Application
    <3> QED BY <3>1, DeliveryFacts DEF Facts
  <2> QED BY <1>1, <1>3, <2>1, <2>2 DEF AllWritten, Outcomes
<1> QED BY <1>2, <1>3

-----------------------------------------------------------------------------
(***************************************************************************)
(* Steps that only move a request on.                                      *)
(***************************************************************************)

(* What has to be true of the new record of a session: its locks are its   *)
(* own, and its findings are what the tables say.                          *)
SoundLocks(s, row) ==
  /\ row.at # "idle" => row.delivery \in Deliveries
  /\ row.at \in {"invoice", "account"} => row.delivery.invoice # None
  /\ row.at \in {"invoice", "account", "decided"} =>
       /\ observations[row.delivery.event] = None
       /\ \A t \in Sessions \ {s} : HasEvent(t) => Request(t).event # row.delivery.event
  /\ row.at \in {"account", "decided"} /\ row.delivery.invoice # None =>
       \A t \in Sessions \ {s} : HasInvoice(t) => Request(t).invoice # row.delivery.invoice

SoundFindings(row) ==
  /\ row.at = "decided" => row.status # None
  /\ row.at = "account" \/ (row.at = "decided" /\ row.status = "applied") =>
       row.delivery.invoice # None /\ ~ Applied(row.delivery) /\ PolicyFits(row.delivery)
  /\ row.at = "decided" /\ row.status = "duplicate" =>
       row.delivery.invoice # None /\ Applied(row.delivery) /\ ~ Conflicts(row.delivery)

LEMMA RequestMoves ==
  ASSUME IInv, NEW s \in Sessions, NEW row \in Transaction,
         requests' = [requests EXCEPT ![s] = row], UNCHANGED <<tables, credited>>,
         SoundLocks(s, row), SoundFindings(row), row.at # "answering"
  PROVE  IInv'
<1>0. /\ TypeOK /\ requests \in [Sessions -> Transaction]
      /\ requests' \in [Sessions -> Transaction]
      /\ requests'[s] = row /\ Request(s)' = row.delivery
      /\ \A t \in Sessions \ {s} : requests'[t] = requests[t] /\ Request(t)' = Request(t)
  BY Types, OneRequest DEF IInv
<1>1. TypeOK'
  BY <1>0 DEF TypeOK, tables
<1>2. /\ ReceiptsInv' /\ CreditIsAnnouncedOnce'
      /\ \A d \in Deliveries : /\ Applied(d)' = Applied(d) /\ Conflicts(d)' = Conflicts(d)
                               /\ PolicyFits(d)' = PolicyFits(d)
  BY SameTables DEF IInv, CreditIsAnnouncedOnce, tables
<1>3. \A t \in Sessions \ {s} :
        /\ HasEvent(t)' = HasEvent(t) /\ HasInvoice(t)' = HasInvoice(t)
        /\ Crediting(t)' = Crediting(t) /\ Telling(t)' = Telling(t)
  BY <1>0 DEF HasEvent, HasInvoice, Crediting, Telling
<1>4. /\ HasEvent(s)' <=> row.at \in {"invoice", "account", "decided"}
      /\ HasInvoice(s)' <=> row.at \in {"account", "decided"} /\ row.delivery.invoice # None
      /\ Crediting(s)' <=> row.at = "account" \/ (row.at = "decided" /\ row.status = "applied")
      /\ ~ Telling(s)'
  BY <1>0 DEF HasEvent, HasInvoice, Crediting, Telling
<1>5. LocksInv'
  <2>1. \A t \in Sessions : requests'[t].at # "idle" => Request(t)' \in Deliveries
    BY <1>0 DEF IInv, LocksInv, SoundLocks
  <2>2. \A t \in Sessions : requests'[t].at \in {"invoice", "account"} => Request(t)'.invoice # None
    BY <1>0 DEF IInv, LocksInv, SoundLocks
  <2>3. \A t \in Sessions : HasEvent(t)' => observations'[Request(t)'.event] = None
    BY <1>0, <1>3, <1>4 DEF IInv, LocksInv, SoundLocks, tables
  <2>4. \A t, u \in Sessions :
          HasEvent(t)' /\ HasEvent(u)' /\ Request(t)'.event = Request(u)'.event => t = u
    BY <1>0, <1>3, <1>4 DEF IInv, LocksInv, SoundLocks
  <2>5. \A t, u \in Sessions :
          HasInvoice(t)' /\ HasInvoice(u)' /\ Request(t)'.invoice = Request(u)'.invoice => t = u
    BY <1>0, <1>3, <1>4 DEF IInv, LocksInv, SoundLocks
  <2> QED BY <2>1, <2>2, <2>3, <2>4, <2>5 DEF LocksInv
<1>6. DecisionsInv'
  <2> SUFFICES ASSUME NEW t \in Sessions
               PROVE  /\ requests'[t].at = "decided" => requests'[t].status # None
                      /\ Crediting(t)' => /\ Request(t)'.invoice # None
                                          /\ ~ Applied(Request(t))'
                                          /\ PolicyFits(Request(t))'
                      /\ requests'[t].at = "decided" /\ requests'[t].status = "duplicate" =>
                           /\ Request(t)'.invoice # None
                           /\ Applied(Request(t))' /\ ~ Conflicts(Request(t))'
    BY DEF DecisionsInv
  <2>1. CASE t = s
    <3>1. row.at # "idle" => /\ Applied(Request(s))' = Applied(row.delivery)
                             /\ Conflicts(Request(s))' = Conflicts(row.delivery)
                             /\ PolicyFits(Request(s))' = PolicyFits(row.delivery)
      BY <1>0 DEF Applied, Conflicts, PolicyFits, tables
    <3> QED BY <1>0, <1>4, <2>1, <3>1 DEF SoundFindings
  <2>2. CASE t # s
    <3>1. /\ Applied(Request(t))' = Applied(Request(t))
          /\ Conflicts(Request(t))' = Conflicts(Request(t))
          /\ PolicyFits(Request(t))' = PolicyFits(Request(t))
      BY <1>0, <2>2 DEF Applied, Conflicts, PolicyFits, tables
    <3> QED BY <1>0, <1>3, <2>2, <3>1 DEF IInv, DecisionsInv
  <2> QED BY <2>1, <2>2
<1>7. AnswersInv'
  <2> SUFFICES ASSUME NEW t \in Sessions, Telling(t)'
               PROVE  /\ Request(t)'.invoice # None /\ Applied(Request(t))'
                      /\ credited'[Request(t)'.invoice] = 0
                      /\ \A u \in Sessions :
                           Telling(u)' /\ Request(t)'.invoice = Request(u)'.invoice => t = u
    BY DEF AnswersInv
  <2>1. t # s /\ Telling(t) /\ Request(t)' = Request(t)
    BY <1>0, <1>3, <1>4
  <2>2. Applied(Request(t))' = Applied(Request(t))
    BY <1>0, <2>1 DEF Applied, tables
  <2> QED BY <1>0, <1>3, <1>4, <2>1, <2>2 DEF IInv, AnswersInv
<1> QED BY <1>1, <1>2, <1>5, <1>6, <1>7 DEF IInv

(* A new event is received under its lock.                                 *)
LEMMA ReceiveKeeps ==
  ASSUME IInv, NEW s \in Sessions, NEW d \in Deliveries, ReceiveEvent(s, d)
  PROVE  IInv'
<1>0. /\ TypeOK /\ ~ EventLocked(d.event) /\ observations[d.event] = None
      /\ UNCHANGED <<tables, credited>>
  BY DEF IInv, ReceiveEvent
<1>1. \A t \in Sessions : HasEvent(t) => Request(t).event # d.event
  BY <1>0 DEF EventLocked, HasEvent
<1>2. PICK status \in {"observed", "review"} :
        requests' = [requests EXCEPT ![s] =
          IF d.invoice = None THEN Decided(d, status, d.review)
                              ELSE [Idle EXCEPT !.at = "invoice", !.delivery = d]]
  BY DEF ReceiveEvent
<1>3. CASE d.invoice = None
  <2> DEFINE row == Decided(d, status, d.review)
  <2>1. /\ row \in Transaction /\ row.at = "decided" /\ row.delivery = d /\ row.status = status
        /\ status # None
    BY DecidedFacts, DeliveryFacts, BillingAssumption DEF Outcomes
  <2>2. requests' = [requests EXCEPT ![s] = row]
    BY <1>2, <1>3
  <2> HIDE DEF row
  <2>3. SoundLocks(s, row) /\ SoundFindings(row)
    BY <1>0, <1>1, <1>3, <2>1 DEF SoundLocks, SoundFindings
  <2> QED BY <1>0, <2>1, <2>2, <2>3, RequestMoves
<1>4. CASE d.invoice # None
  <2> DEFINE row == [Idle EXCEPT !.at = "invoice", !.delivery = d]
  <2>1. row \in Transaction /\ row.at = "invoice" /\ row.delivery = d
    BY IdleFacts DEF Idle, Transaction, Stages
  <2>2. requests' = [requests EXCEPT ![s] = row]
    BY <1>2, <1>4
  <2> HIDE DEF row
  <2>3. SoundLocks(s, row) /\ SoundFindings(row)
    BY <1>0, <1>1, <1>4, <2>1 DEF SoundLocks, SoundFindings
  <2> QED BY <1>0, <2>1, <2>2, <2>3, RequestMoves
<1> QED BY <1>3, <1>4

(* A transaction that rolls back holds nothing any more.                   *)
LEMMA IdleKeeps ==
  ASSUME IInv, NEW s \in Sessions, requests' = [requests EXCEPT ![s] = Idle],
         UNCHANGED <<tables, credited>>
  PROVE  IInv'
<1>1. SoundLocks(s, Idle) /\ SoundFindings(Idle)
  BY IdleFacts DEF SoundLocks, SoundFindings
<1> QED BY <1>1, IdleFacts, RequestMoves

(* The invoice is looked up under its lock.                                *)
LEMMA CheckKeeps ==
  ASSUME IInv, NEW s \in Sessions, CheckInvoice(s)
  PROVE  IInv'
<1>0. PICK d \in Deliveries :
        /\ TypeOK /\ requests[s].at = "invoice" /\ d = Request(s) /\ d = requests[s].delivery
        /\ ~ InvoiceLocked(d.invoice) /\ d.invoice # None
        /\ observations[d.event] = None
        /\ \A t \in Sessions \ {s} : HasEvent(t) => Request(t).event # d.event
        /\ UNCHANGED <<tables, credited>>
  <2>1. requests[s].at = "invoice" /\ HasEvent(s)
    BY DEF CheckInvoice, HasEvent
  <2>2. Request(s) \in Deliveries
    BY <2>1 DEF IInv, LocksInv
  <2> QED BY <2>1, <2>2 DEF IInv, LocksInv, CheckInvoice, Request
<1>1. \A t \in Sessions : HasInvoice(t) => Request(t).invoice # d.invoice
  BY <1>0 DEF InvoiceLocked, HasInvoice
<1>2. CASE requests' = [requests EXCEPT ![s] = Idle]
  BY <1>0, <1>2, IdleKeeps
<1>3. CASE Applied(d) /\ ~ Conflicts(d)
           /\ requests' = [requests EXCEPT ![s] = Decided(d, "duplicate", None)]
  <2> DEFINE row == Decided(d, "duplicate", None)
  <2>1. /\ row \in Transaction /\ row.at = "decided" /\ row.delivery = d
        /\ row.status = "duplicate" /\ row.status # None
    BY DecidedFacts, BillingAssumption DEF Outcomes, Reasons
  <2>2. requests' = [requests EXCEPT ![s] = row]
    BY <1>3
  <2> HIDE DEF row
  <2>3. SoundLocks(s, row) /\ SoundFindings(row)
    BY <1>0, <1>1, <1>3, <2>1 DEF SoundLocks, SoundFindings
  <2> QED BY <1>0, <2>1, <2>2, <2>3, RequestMoves
<1>4. CASE ~ Applied(d) /\ ReviewReason(d) = None
           /\ requests' = [requests EXCEPT ![s].at = "account"]
  <2> DEFINE row == [requests[s] EXCEPT !.at = "account"]
  <2>1. row \in Transaction /\ row.at = "account" /\ row.delivery = d
    BY <1>0, Types DEF Transaction, Stages
  <2>2. requests' = [requests EXCEPT ![s] = row]
    BY <1>0, <1>4, Types
  <2>3. PolicyFits(d)
    BY <1>4, BillingAssumption DEF ReviewReason, PolicyFits, Refusals
  <2> HIDE DEF row
  <2>4. SoundLocks(s, row) /\ SoundFindings(row)
    BY <1>0, <1>1, <1>4, <2>1, <2>3 DEF SoundLocks, SoundFindings
  <2> QED BY <1>0, <2>1, <2>2, <2>4, RequestMoves
<1>5. CASE ~ Applied(d) /\ requests' = [requests EXCEPT ![s] = Decided(d, "review", ReviewReason(d))]
  <2> DEFINE row == Decided(d, "review", ReviewReason(d))
  <2>1. ReviewReason(d) \in Reasons
    BY DEF ReviewReason, Reasons, Refusals
  <2>2. /\ row \in Transaction /\ row.at = "decided" /\ row.delivery = d
        /\ row.status = "review" /\ row.status # None
    BY <2>1, DecidedFacts, BillingAssumption DEF Outcomes
  <2>3. requests' = [requests EXCEPT ![s] = row]
    BY <1>5
  <2> HIDE DEF row
  <2>4. SoundLocks(s, row) /\ SoundFindings(row)
    BY <1>0, <1>1, <2>2 DEF SoundLocks, SoundFindings
  <2> QED BY <1>0, <2>2, <2>3, <2>4, RequestMoves
<1> QED BY <1>0, <1>2, <1>3, <1>4, <1>5 DEF CheckInvoice

(* The grant is decided under the lock of the account.                     *)
LEMMA GrantKeeps ==
  ASSUME IInv, NEW s \in Sessions, GrantCredits(s)
  PROVE  IInv'
<1>0. PICK d \in Deliveries :
        /\ TypeOK /\ requests[s].at = "account" /\ d = Request(s) /\ d = requests[s].delivery
        /\ d.invoice # None /\ ~ Applied(d) /\ PolicyFits(d)
        /\ observations[d.event] = None
        /\ \A t \in Sessions \ {s} : HasEvent(t) => Request(t).event # d.event
        /\ \A t \in Sessions \ {s} : HasInvoice(t) => Request(t).invoice # d.invoice
        /\ UNCHANGED <<tables, credited>>
  <2>1. requests[s].at = "account" /\ HasEvent(s) /\ Crediting(s)
    BY DEF GrantCredits, HasEvent, Crediting
  <2>2. Request(s) \in Deliveries /\ Request(s).invoice # None /\ HasInvoice(s)
    BY <2>1 DEF IInv, LocksInv, HasInvoice
  <2>3. ~ Applied(Request(s)) /\ PolicyFits(Request(s))
    BY <2>1 DEF IInv, DecisionsInv
  <2> QED BY <2>1, <2>2, <2>3 DEF IInv, LocksInv, GrantCredits, Request
<1>1. CASE ~ Grantable(d)
  BY <1>0, <1>1, IdleKeeps DEF GrantCredits
<1>2. CASE Grantable(d)
  <2> DEFINE units == accounts[d.customer] + prices[d.price].units
             row == [Decided(d, "applied", None) EXCEPT !.balance = units]
  <2>1. units \in 0..MaxInt
    <3>1. d.customer \in Customers /\ d.price \in Prices
      BY <1>0, DeliveryFacts
    <3>2. accounts[d.customer] \in 0..MaxInt /\ prices[d.price].units \in 1..MaxInt /\ MaxInt \in Nat
      BY <1>0, <3>1, BillingAssumption DEF TypeOK, PolicyFits
    <3>3. accounts[d.customer] <= MaxInt - prices[d.price].units
      BY <1>2 DEF Grantable
    <3> QED BY <3>2, <3>3
  <2>2. /\ row \in Transaction /\ row.at = "decided" /\ row.delivery = d /\ row.status = "applied"
        /\ row.status # None
    <3>1. /\ Decided(d, "applied", None) \in Transaction
          /\ Decided(d, "applied", None).at = "decided"
          /\ Decided(d, "applied", None).delivery = d
          /\ Decided(d, "applied", None).status = "applied"
      BY DecidedFacts DEF Outcomes, Reasons
    <3> HIDE DEF units
    <3> QED BY <2>1, <3>1, BillingAssumption DEF Transaction, Outcomes
  <2>3. requests' = [requests EXCEPT ![s] = row]
    BY <1>0, <1>2 DEF GrantCredits
  <2> HIDE DEF row
  <2>4. SoundLocks(s, row) /\ SoundFindings(row)
    BY <1>0, <2>2 DEF SoundLocks, SoundFindings
  <2> QED BY <1>0, <2>2, <2>3, <2>4, RequestMoves
<1> QED BY <1>1, <1>2

-----------------------------------------------------------------------------
(***************************************************************************)
(* The commit.                                                             *)
(***************************************************************************)

(* What a commit does to the tables: one observation, and with it the      *)
(* grant and the application of an invoice that had none.                  *)
Observes(d, status) ==
  /\ \E review \in Reasons :
       observations' = [observations EXCEPT ![d.event] =
                          [delivery |-> d, outcome |-> status, review |-> review]]
  /\ observations[d.event] = None

Credits(d) ==
  /\ grants' = grants \cup {[customer |-> d.customer, invoice |-> d.invoice,
                             units |-> prices[d.price].units]}
  /\ applications' = [applications EXCEPT ![d.invoice] =
                        [facts |-> Facts(d), units |-> prices[d.price].units]]

(* The observation joins those of its invoice and outcome; no other set of *)
(* observations changes.                                                   *)
LEMMA ObservationMade ==
  ASSUME TypeOK, NEW d \in Deliveries, NEW status \in Outcomes, Observes(d, status)
  PROVE  /\ observations' \in [Events -> Observation \cup {None}]
         /\ observations'[d.event] # None
         /\ observations'[d.event].delivery = d /\ observations'[d.event].outcome = status
         /\ \A e \in Events \ {d.event} : observations'[e] = observations[e]
         /\ \A i \in Invoices, o \in Outcomes :
              ObservedAs(i, o)' = IF i = d.invoice /\ o = status
                                    THEN ObservedAs(i, o) \cup {d.event} ELSE ObservedAs(i, o)
<1>1. PICK review \in Reasons :
        observations' = [observations EXCEPT ![d.event] =
                           [delivery |-> d, outcome |-> status, review |-> review]]
  BY DEF Observes
<1> DEFINE row == [delivery |-> d, outcome |-> status, review |-> review]
<1>2. row \in Observation /\ row # None /\ row.delivery = d /\ row.outcome = status
  BY BillingAssumption DEF Observation
<1>3. d.event \in Events /\ observations' = [observations EXCEPT ![d.event] = row]
  BY <1>1, DeliveryFacts
<1> HIDE DEF row
<1>4. /\ observations' \in [Events -> Observation \cup {None}]
      /\ observations'[d.event] = row
      /\ \A e \in Events \ {d.event} : observations'[e] = observations[e]
  BY <1>2, <1>3 DEF TypeOK
<1>5. observations[d.event] = None
  BY DEF Observes
<1>6. ASSUME NEW i \in Invoices, NEW o \in Outcomes
      PROVE  ObservedAs(i, o)' = IF i = d.invoice /\ o = status
                                   THEN ObservedAs(i, o) \cup {d.event} ELSE ObservedAs(i, o)
  BY <1>2, <1>3, <1>4, <1>5 DEF ObservedAs
<1> QED BY <1>2, <1>4, <1>6

(* A commit that credits nothing leaves every receipt as it was; a         *)
(* duplicate is one of the facts that were applied.                        *)
LEMMA ObservingKeeps ==
  ASSUME TypeOK, ReceiptsInv, NEW d \in Deliveries, NEW status \in Outcomes \ {"applied"},
         Observes(d, status), UNCHANGED <<prices, grants, applications>>,
         status = "duplicate" => d.invoice # None /\ Applied(d) /\ ~ Conflicts(d)
  PROVE  ReceiptsInv'
<1> SUFFICES ASSUME NEW i \in Invoices
             PROVE  IF applications[i] = None THEN NothingWritten(i)' ELSE AllWritten(i)'
  BY DEF ReceiptsInv
<1>1. /\ ObservedAs(i, "applied")' = ObservedAs(i, "applied")
      /\ ObservedAs(i, "duplicate")' = IF i = d.invoice /\ status = "duplicate"
                                         THEN ObservedAs(i, "duplicate") \cup {d.event}
                                         ELSE ObservedAs(i, "duplicate")
      /\ GrantsOf(i)' = GrantsOf(i)
  BY ObservationMade DEF Outcomes, GrantsOf
<1>2. CASE applications[i] = None
  <2>1. ~ (i = d.invoice /\ status = "duplicate")
    BY <1>2 DEF Applied
  <2> QED BY <1>1, <1>2, <2>1 DEF ReceiptsInv, NothingWritten
<1>3. CASE applications[i] # None
  <2>1. AllWritten(i)
    BY <1>3 DEF ReceiptsInv
  <2>2. \A e \in ObservedAs(i, "applied")' \cup ObservedAs(i, "duplicate")' :
          Facts(observations'[e].delivery) = applications[i].facts
    <3> SUFFICES ASSUME NEW e \in ObservedAs(i, "applied")' \cup ObservedAs(i, "duplicate")'
                 PROVE  Facts(observations'[e].delivery) = applications[i].facts
      OBVIOUS
    <3>1. CASE i = d.invoice /\ status = "duplicate" /\ e = d.event
      BY <3>1, ObservationMade DEF Conflicts
    <3>2. CASE ~ (i = d.invoice /\ status = "duplicate" /\ e = d.event)
      <4>1. e \in ObservedAs(i, "applied") \cup ObservedAs(i, "duplicate")
        BY <1>1, <3>2
      <4>2. e \in Events /\ observations[e] # None
        BY <4>1 DEF ObservedAs
      <4>3. observations'[e] = observations[e]
        BY <4>2, ObservationMade DEF Observes
      <4> QED BY <2>1, <4>1, <4>3 DEF AllWritten
    <3> QED BY <3>1, <3>2
  <2>3. applications' = applications /\ prices' = prices
    OBVIOUS
  <2>4. /\ GrantsOf(i)' = {[customer |-> applications[i].facts.customer, invoice |-> i,
                            units |-> applications[i].units]}
        /\ prices[applications[i].facts.price] # None
        /\ applications[i].facts.amount = prices[applications[i].facts.price].amount
        /\ applications[i].units = prices[applications[i].facts.price].units
        /\ \E e \in Events : ObservedAs(i, "applied")' = {e}
    BY <1>1, <2>1 DEF AllWritten
  <2> QED BY <1>3, <2>2, <2>3, <2>4 DEF AllWritten
<1> QED BY <1>2, <1>3

(* A commit that credits an invoice without application writes all of its  *)
(* receipts at once.                                                       *)
LEMMA CreditingKeeps ==
  ASSUME TypeOK, ReceiptsInv, NEW d \in Deliveries, d.invoice # None, ~ Applied(d), PolicyFits(d),
         Observes(d, "applied"), Credits(d), UNCHANGED prices
  PROVE  /\ ReceiptsInv'
         /\ grants' \subseteq [customer: Customers, invoice: Invoices, units: 1..MaxInt]
         /\ applications' \in [Invoices -> Application \cup {None}]
         /\ applications'[d.invoice] # None
         /\ \A i \in Invoices \ {d.invoice} : applications'[i] = applications[i]
<1> DEFINE grant == [customer |-> d.customer, invoice |-> d.invoice, units |-> prices[d.price].units]
           application == [facts |-> Facts(d), units |-> prices[d.price].units]
<1>1. /\ d.invoice \in Invoices /\ d.customer \in Customers /\ d.price \in Prices
      /\ d.event \in Events
  BY DeliveryFacts
<1>2. prices[d.price].units \in 1..MaxInt /\ prices[d.price] # None
      /\ prices[d.price].amount = d.amount
  BY <1>1, BillingAssumption DEF TypeOK, PolicyFits
<1>3. /\ grant \in [customer: Customers, invoice: Invoices, units: 1..MaxInt]
      /\ grant.invoice = d.invoice
  BY <1>1, <1>2
<1>4. /\ application \in Application /\ application # None
      /\ application.facts = Facts(d) /\ application.units = prices[d.price].units
  BY <1>2, BillingAssumption DEF Application
<1>5. /\ Facts(d).customer = d.customer /\ Facts(d).price = d.price /\ Facts(d).amount = d.amount
  BY DEF Facts
<1>6. /\ grants' = grants \cup {grant}
      /\ applications' = [applications EXCEPT ![d.invoice] = application]
  BY DEF Credits
<1>7. PICK g : g = grant
  OBVIOUS
<1>8. g = [customer |-> d.customer, invoice |-> d.invoice, units |-> prices[d.price].units]
  BY <1>7
<1> HIDE DEF grant, application
<1>9. /\ applications' \in [Invoices -> Application \cup {None}]
      /\ applications'[d.invoice] = application
      /\ \A i \in Invoices \ {d.invoice} : applications'[i] = applications[i]
      /\ grants' \subseteq [customer: Customers, invoice: Invoices, units: 1..MaxInt]
  BY <1>1, <1>3, <1>4, <1>6 DEF TypeOK
<1>10. /\ GrantsOf(d.invoice)' = GrantsOf(d.invoice) \cup {g}
       /\ \A i \in Invoices \ {d.invoice} : GrantsOf(i)' = GrantsOf(i)
  BY <1>3, <1>6, <1>7 DEF GrantsOf
<1>11. ASSUME NEW i \in Invoices \ {d.invoice}
       PROVE  IF applications'[i] = None THEN NothingWritten(i)' ELSE AllWritten(i)'
  <2>1. ObservedAs(i, "applied")' = ObservedAs(i, "applied")
        /\ ObservedAs(i, "duplicate")' = ObservedAs(i, "duplicate")
    BY ObservationMade DEF Outcomes
  <2>2. CASE applications[i] = None
    BY <1>9, <1>10, <2>1, <2>2 DEF ReceiptsInv, NothingWritten
  <2>3. CASE applications[i] # None
    <3>1. AllWritten(i)
      BY <2>3 DEF ReceiptsInv
    <3>2. \A e \in ObservedAs(i, "applied") \cup ObservedAs(i, "duplicate") :
            observations'[e] = observations[e]
      BY ObservationMade DEF Outcomes, ObservedAs, Observes
    <3> QED BY <1>9, <1>10, <2>1, <2>3, <3>1, <3>2 DEF AllWritten
  <2> QED BY <2>2, <2>3
<1>12. AllWritten(d.invoice)'
  <2>1. NothingWritten(d.invoice)
    BY <1>1 DEF ReceiptsInv, Applied
  <2>2. /\ GrantsOf(d.invoice)' = {g}
        /\ ObservedAs(d.invoice, "applied")' = {d.event}
        /\ ObservedAs(d.invoice, "duplicate")' = {}
    BY <1>1, <1>10, <2>1, ObservationMade DEF NothingWritten, Outcomes
  <2>3. Facts(observations'[d.event].delivery) = Facts(d)
    BY ObservationMade DEF Outcomes
  <2> QED BY <1>1, <1>2, <1>4, <1>5, <1>8, <1>9, <2>2, <2>3 DEF AllWritten
<1>13. ReceiptsInv'
  BY <1>1, <1>4, <1>9, <1>11, <1>12 DEF ReceiptsInv
<1> QED BY <1>4, <1>9, <1>13

(* The commit makes the observation, and with it the grant, visible, and   *)
(* releases the locks.                                                     *)
LEMMA CommitKeeps ==
  ASSUME IInv, NEW s \in Sessions, Commit(s)
  PROVE  IInv'
<1> DEFINE row == [requests[s] EXCEPT !.at = "answering"]
<1>0. PICK d \in Deliveries, status \in Outcomes :
        /\ TypeOK /\ ReceiptsInv /\ requests[s].at = "decided" /\ HasEvent(s)
        /\ d = Request(s) /\ status = requests[s].status
        /\ observations[d.event] = None
        /\ \A t \in Sessions \ {s} : HasEvent(t) => Request(t).event # d.event
        /\ requests' = [requests EXCEPT ![s] = row] /\ Writes(s)
        /\ UNCHANGED <<prices, credited>>
  <2>1. requests[s].at = "decided" /\ HasEvent(s)
    BY DEF Commit, HasEvent
  <2>2. Request(s) \in Deliveries /\ requests[s].status \in Outcomes
    BY <2>1, Types DEF IInv, LocksInv, DecisionsInv
  <2>3. requests' = [requests EXCEPT ![s] = row]
    BY Types DEF Commit, IInv
  <2> HIDE DEF row
  <2> QED BY <2>1, <2>2, <2>3 DEF IInv, LocksInv, Commit
<1>1. /\ row \in Transaction /\ row.at = "answering" /\ row.delivery = d /\ row.status = status
  BY <1>0, Types DEF Transaction, Stages
<1> HIDE DEF row
<1>2. /\ requests' \in [Sessions -> Transaction]
      /\ requests'[s] = row /\ Request(s)' = d
      /\ \A t \in Sessions \ {s} : requests'[t] = requests[t] /\ Request(t)' = Request(t)
  BY <1>0, <1>1, OneRequest
<1>3. \A t \in Sessions \ {s} :
        /\ HasEvent(t)' = HasEvent(t) /\ HasInvoice(t)' = HasInvoice(t)
        /\ Crediting(t)' = Crediting(t) /\ Telling(t)' = Telling(t)
  BY <1>2 DEF HasEvent, HasInvoice, Crediting, Telling
<1>4. /\ ~ HasEvent(s)' /\ ~ HasInvoice(s)' /\ ~ Crediting(s)'
      /\ Telling(s)' <=> status = "applied"
  BY <1>1, <1>2 DEF HasEvent, HasInvoice, Crediting, Telling
<1>5. Observes(d, status)
  BY <1>0, Types DEF Writes, Observes
<1>6. /\ observations' \in [Events -> Observation \cup {None}]
      /\ \A e \in Events : observations'[e] # None => observations'[e].delivery.event = e
  BY <1>0, <1>5, ObservationMade, DeliveryFacts DEF TypeOK
<1>7. LocksInv'
  <2>1. \A t \in Sessions : requests'[t].at # "idle" => Request(t)' \in Deliveries
    BY <1>0, <1>2 DEF IInv, LocksInv
  <2>2. \A t \in Sessions : requests'[t].at \in {"invoice", "account"} => Request(t)'.invoice # None
    BY <1>1, <1>2 DEF IInv, LocksInv
  <2>3. ASSUME NEW t \in Sessions, HasEvent(t)' PROVE observations'[Request(t)'.event] = None
    <3>1. t # s /\ HasEvent(t) /\ Request(t)' = Request(t) /\ Request(t) \in Deliveries
      BY <1>2, <1>3, <1>4, <2>3 DEF IInv, LocksInv, HasEvent
    <3>2. Request(t).event # d.event /\ Request(t).event \in Events
      BY <1>0, <3>1, DeliveryFacts
    <3> QED BY <1>0, <1>5, <3>1, <3>2, ObservationMade DEF IInv, LocksInv
  <2>4. \A t, u \in Sessions :
          HasEvent(t)' /\ HasEvent(u)' /\ Request(t)'.event = Request(u)'.event => t = u
    BY <1>2, <1>3, <1>4 DEF IInv, LocksInv
  <2>5. \A t, u \in Sessions :
          HasInvoice(t)' /\ HasInvoice(u)' /\ Request(t)'.invoice = Request(u)'.invoice => t = u
    BY <1>2, <1>3, <1>4 DEF IInv, LocksInv
  <2> QED BY <2>1, <2>2, <2>3, <2>4, <2>5 DEF LocksInv
<1>8. CASE status # "applied"
  <2>1. UNCHANGED <<accounts, grants, applications>>
    BY <1>0, <1>8 DEF Writes
  <2>2. TypeOK'
    BY <1>0, <1>2, <1>6, <2>1 DEF TypeOK
  <2>3. ReceiptsInv'
    <3>1. status = "duplicate" => d.invoice # None /\ Applied(d) /\ ~ Conflicts(d)
      BY <1>0 DEF IInv, DecisionsInv
    <3> QED BY <1>0, <1>5, <1>8, <2>1, <3>1, ObservingKeeps
  <2>4. \A t \in Sessions \ {s} : /\ Applied(Request(t))' = Applied(Request(t))
                                  /\ Conflicts(Request(t))' = Conflicts(Request(t))
                                  /\ PolicyFits(Request(t))' = PolicyFits(Request(t))
    BY <1>0, <1>2, <2>1 DEF Applied, Conflicts, PolicyFits
  <2>5. DecisionsInv'
    BY <1>1, <1>2, <1>3, <1>4, <2>4 DEF IInv, DecisionsInv
  <2>6. AnswersInv'
    BY <1>0, <1>2, <1>3, <1>4, <1>8, <2>4 DEF IInv, AnswersInv
  <2>7. CreditIsAnnouncedOnce'
    BY <1>0, <2>1 DEF IInv, CreditIsAnnouncedOnce
  <2> QED BY <1>7, <2>2, <2>3, <2>5, <2>6, <2>7 DEF IInv
<1>9. CASE status = "applied"
  <2>1. /\ d.invoice # None /\ ~ Applied(d) /\ PolicyFits(d)
        /\ HasInvoice(s) /\ d.invoice \in Invoices /\ d.customer \in Customers
    <3>1. Crediting(s)
      BY <1>0, <1>9 DEF Crediting
    <3>2. d.invoice # None /\ ~ Applied(d) /\ PolicyFits(d)
      BY <1>0, <3>1 DEF IInv, DecisionsInv
    <3> QED BY <1>0, <3>2, DeliveryFacts DEF HasInvoice
  <2>2. Credits(d) /\ accounts' = [accounts EXCEPT ![d.customer] = requests[s].balance]
    BY <1>0, <1>9 DEF Writes, Credits
  <2>3. /\ ReceiptsInv'
        /\ grants' \subseteq [customer: Customers, invoice: Invoices, units: 1..MaxInt]
        /\ applications' \in [Invoices -> Application \cup {None}]
        /\ applications'[d.invoice] # None
        /\ \A i \in Invoices \ {d.invoice} : applications'[i] = applications[i]
    BY <1>0, <1>5, <1>9, <2>1, <2>2, CreditingKeeps
  <2>4. /\ accounts' \in [Customers -> 0..MaxInt \cup {None}]
        /\ \A c \in Customers : accounts[c] # None => accounts'[c] # None
    <3>1. requests[s].balance \in 0..MaxInt /\ requests[s].balance # None
      BY <1>0, Types, BillingAssumption
    <3> QED BY <1>0, <2>1, <2>2, <3>1 DEF TypeOK
  <2>5. TypeOK'
    BY <1>0, <1>2, <1>6, <2>3, <2>4 DEF TypeOK
  <2>6. ASSUME NEW t \in Sessions \ {s}, Request(t) \in Deliveries
        PROVE  /\ HasInvoice(t) => Request(t).invoice # d.invoice
               /\ Request(t).invoice # None =>
                    /\ PolicyFits(Request(t)) => PolicyFits(Request(t))'
                    /\ Applied(Request(t)) => Applied(Request(t))'
                    /\ Request(t).invoice # d.invoice =>
                         /\ Applied(Request(t))' = Applied(Request(t))
                         /\ Conflicts(Request(t))' = Conflicts(Request(t))
    <3>1. HasInvoice(t) => Request(t).invoice # d.invoice
      BY <1>0, <2>1 DEF IInv, LocksInv
    <3>2. Request(t).invoice # None =>
            Request(t).invoice \in Invoices /\ Request(t).customer \in Customers
      BY <2>6, DeliveryFacts
    <3>3. Request(t)' = Request(t) /\ prices' = prices
      BY <1>0, <1>2
    <3>4. Request(t).invoice # None /\ PolicyFits(Request(t)) => PolicyFits(Request(t))'
      BY <2>4, <3>2, <3>3 DEF PolicyFits
    <3>5. Request(t).invoice # None /\ Applied(Request(t)) => Applied(Request(t))'
      BY <2>1, <2>3, <3>2, <3>3 DEF Applied
    <3>6. Request(t).invoice # None /\ Request(t).invoice # d.invoice =>
            /\ Applied(Request(t))' = Applied(Request(t))
            /\ Conflicts(Request(t))' = Conflicts(Request(t))
      BY <2>3, <3>2, <3>3 DEF Applied, Conflicts
    <3> QED BY <3>1, <3>4, <3>5, <3>6
  <2>7. \A t \in Sessions : requests[t].at # "idle" => Request(t) \in Deliveries
    BY DEF IInv, LocksInv
  <2>8. DecisionsInv'
    <3> SUFFICES ASSUME NEW t \in Sessions
                 PROVE  /\ requests'[t].at = "decided" => requests'[t].status # None
                        /\ Crediting(t)' => /\ Request(t)'.invoice # None
                                            /\ ~ Applied(Request(t))'
                                            /\ PolicyFits(Request(t))'
                        /\ requests'[t].at = "decided" /\ requests'[t].status = "duplicate" =>
                             /\ Request(t)'.invoice # None
                             /\ Applied(Request(t))' /\ ~ Conflicts(Request(t))'
      BY DEF DecisionsInv
    <3>1. CASE t = s
      BY <1>1, <1>2, <1>4, <3>1
    <3>2. CASE t # s
      <4>1. /\ requests'[t] = requests[t] /\ Request(t)' = Request(t)
            /\ Crediting(t)' = Crediting(t)
        BY <1>2, <1>3, <3>2
      <4>2. requests[t].at = "decided" => requests[t].status # None
        BY DEF IInv, DecisionsInv
      <4>3. ASSUME Crediting(t)
            PROVE  Request(t).invoice # None /\ ~ Applied(Request(t))' /\ PolicyFits(Request(t))'
        <5>1. /\ Request(t).invoice # None /\ ~ Applied(Request(t)) /\ PolicyFits(Request(t))
              /\ HasInvoice(t) /\ Request(t) \in Deliveries
          BY <2>7, <4>3 DEF IInv, DecisionsInv, Crediting, HasInvoice
        <5> QED BY <2>6, <3>2, <5>1
      <4>4. ASSUME requests[t].at = "decided", requests[t].status = "duplicate"
            PROVE  Request(t).invoice # None /\ Applied(Request(t))' /\ ~ Conflicts(Request(t))'
        <5>1. /\ Request(t).invoice # None /\ Applied(Request(t)) /\ ~ Conflicts(Request(t))
              /\ HasInvoice(t) /\ Request(t) \in Deliveries
          BY <2>7, <4>4 DEF IInv, DecisionsInv, HasInvoice
        <5> QED BY <2>6, <3>2, <5>1
      <4> QED BY <4>1, <4>2, <4>3, <4>4
    <3> QED BY <3>1, <3>2
  <2>9. credited[d.invoice] = 0
    BY <2>1 DEF IInv, CreditIsAnnouncedOnce, Applied, TypeOK
  <2>10. AnswersInv'
    <3>1. ASSUME NEW t \in Sessions \ {s}, Telling(t)'
          PROVE  /\ Telling(t) /\ Request(t)' = Request(t) /\ Request(t).invoice # None
                 /\ Request(t).invoice # d.invoice
                 /\ credited[Request(t).invoice] = 0 /\ Applied(Request(t))'
      <4>1. /\ Telling(t) /\ Request(t)' = Request(t) /\ Request(t).invoice # None
            /\ Applied(Request(t)) /\ credited[Request(t).invoice] = 0
        BY <1>2, <1>3, <3>1 DEF IInv, AnswersInv
      <4>2. Request(t).invoice # d.invoice
        BY <2>1, <4>1 DEF Applied
      <4>3. Request(t) \in Deliveries
        BY <2>7, <4>1 DEF Telling
      <4> QED BY <2>6, <4>1, <4>2, <4>3
    <3>2. Applied(Request(s))' /\ Request(s)' = d
      BY <1>2, <2>3 DEF Applied
    <3>3. \A t \in Sessions : Telling(t)' =>
            /\ Request(t)'.invoice # None /\ Applied(Request(t))'
            /\ credited'[Request(t)'.invoice] = 0
      BY <1>0, <2>1, <2>9, <3>1, <3>2
    <3>4. \A t, u \in Sessions :
            Telling(t)' /\ Telling(u)' /\ Request(t)'.invoice = Request(u)'.invoice => t = u
      BY <3>1, <3>2 DEF IInv, AnswersInv
    <3> QED BY <3>3, <3>4 DEF AnswersInv
  <2>11. CreditIsAnnouncedOnce'
    <3> SUFFICES ASSUME NEW i \in Invoices
                 PROVE  credited[i] <= IF applications'[i] = None THEN 0 ELSE 1
      BY <1>0 DEF CreditIsAnnouncedOnce
    <3>1. CASE i = d.invoice
      BY <2>3, <2>9, <3>1
    <3>2. CASE i # d.invoice
      BY <2>3, <3>2 DEF IInv, CreditIsAnnouncedOnce
    <3> QED BY <3>1, <3>2
  <2> QED BY <1>7, <2>3, <2>5, <2>8, <2>10, <2>11 DEF IInv
<1> QED BY <1>8, <1>9

-----------------------------------------------------------------------------
(***************************************************************************)
(* Answers, replays and registrations.                                     *)
(***************************************************************************)

(* The answer of the transaction that made the grant is the only one that  *)
(* says so.                                                                *)
LEMMA AnswerKeeps ==
  ASSUME IInv, NEW s \in Sessions, Answer(s)
  PROVE  IInv'
<1>0. /\ TypeOK /\ requests[s].at = "answering" /\ requests' = [requests EXCEPT ![s] = Idle]
      /\ UNCHANGED tables
      /\ credited' = IF requests[s].status = "applied"
                       THEN [credited EXCEPT ![Request(s).invoice] = @ + 1] ELSE credited
  BY DEF IInv, Answer, AnswerWith, SaysCredited
<1>1. CASE requests[s].status # "applied"
  BY <1>0, <1>1, IdleKeeps
<1>2. CASE requests[s].status = "applied"
  <2>1. /\ Request(s).invoice # None /\ Applied(Request(s)) /\ Telling(s)
        /\ credited[Request(s).invoice] = 0 /\ Request(s) \in Deliveries
    BY <1>0, <1>2 DEF IInv, AnswersInv, Telling, LocksInv
  <2>2. PICK i \in Invoices : i = Request(s).invoice /\ applications[i] # None /\ credited[i] = 0
    BY <2>1, DeliveryFacts DEF Applied
  <2>3. /\ credited' \in [Invoices -> Nat] /\ credited'[i] = 1
        /\ \A j \in Invoices \ {i} : credited'[j] = credited[j]
    BY <1>0, <1>2, <2>2 DEF TypeOK
  <2>4. /\ requests' \in [Sessions -> Transaction]
        /\ requests'[s] = Idle /\ Idle.at = "idle"
        /\ \A t \in Sessions \ {s} : requests'[t] = requests[t] /\ Request(t)' = Request(t)
    BY <1>0, OneRequest, IdleFacts
  <2>5. TypeOK'
    BY <1>0, <2>3, <2>4 DEF TypeOK, tables
  <2>6. \A t \in Sessions :
          /\ HasEvent(t)' => t # s /\ HasEvent(t)
          /\ HasInvoice(t)' => t # s /\ HasInvoice(t)
          /\ Crediting(t)' => t # s /\ Crediting(t)
          /\ Telling(t)' => t # s /\ Telling(t)
    BY <2>4 DEF HasEvent, HasInvoice, Crediting, Telling
  <2>7. LocksInv'
    BY <1>0, <2>4, <2>6 DEF IInv, LocksInv, tables
  <2>8. \A t \in Sessions \ {s} : /\ Applied(Request(t))' = Applied(Request(t))
                                  /\ Conflicts(Request(t))' = Conflicts(Request(t))
                                  /\ PolicyFits(Request(t))' = PolicyFits(Request(t))
    BY <1>0, <2>4 DEF Applied, Conflicts, PolicyFits, tables
  <2>9. DecisionsInv'
    BY <2>4, <2>6, <2>8 DEF IInv, DecisionsInv
  <2>10. AnswersInv'
    <3>1. ASSUME NEW t \in Sessions, Telling(t)'
          PROVE  /\ t # s /\ Telling(t) /\ Request(t)' = Request(t)
                 /\ Request(t).invoice # None /\ Applied(Request(t))'
                 /\ credited'[Request(t).invoice] = 0
      <4>1. t # s /\ Telling(t) /\ Request(t)' = Request(t)
        BY <2>4, <2>6, <3>1
      <4>2. /\ Request(t).invoice # None /\ Applied(Request(t)) /\ credited[Request(t).invoice] = 0
            /\ Request(t) \in Deliveries /\ Request(t).invoice # i
        BY <2>1, <2>2, <4>1 DEF IInv, AnswersInv, LocksInv, Telling
      <4> QED BY <2>3, <2>8, <4>1, <4>2, DeliveryFacts
    <3> QED BY <3>1 DEF IInv, AnswersInv
  <2>11. ReceiptsInv'
    BY <1>0, SameTables DEF IInv
  <2>12. CreditIsAnnouncedOnce'
    BY <1>0, <2>2, <2>3 DEF IInv, CreditIsAnnouncedOnce, tables
  <2> QED BY <2>5, <2>7, <2>9, <2>10, <2>11, <2>12 DEF IInv
<1> QED BY <1>1, <1>2

(* A step that changes no request and only adds accounts and policies.     *)
LEMMA RegistrationKeeps ==
  ASSUME IInv, UNCHANGED <<grants, applications, observations, requests, credited>>,
         accounts' \in [Customers -> 0..MaxInt \cup {None}],
         prices' \in [Prices -> Terms \cup {None}],
         \A c \in Customers : accounts[c] # None => accounts'[c] # None,
         \A p \in Prices : prices[p] # None => prices'[p] = prices[p]
  PROVE  IInv'
<1>1. TypeOK'
  BY DEF IInv, TypeOK
<1>2. ReceiptsInv'
  BY PolicyAdded DEF IInv
<1>3. /\ \A s \in Sessions : /\ HasEvent(s)' = HasEvent(s) /\ HasInvoice(s)' = HasInvoice(s)
                             /\ Crediting(s)' = Crediting(s) /\ Telling(s)' = Telling(s)
                             /\ Request(s)' = Request(s)
      /\ \A d \in Deliveries : Applied(d)' = Applied(d) /\ Conflicts(d)' = Conflicts(d)
  BY DEF HasEvent, HasInvoice, Crediting, Telling, Request, Applied, Conflicts
<1>4. \A d \in Deliveries : d.invoice # None /\ PolicyFits(d) => PolicyFits(d)'
  BY DeliveryFacts DEF PolicyFits
<1>5. LocksInv'
  BY <1>3 DEF IInv, LocksInv
<1>6. DecisionsInv'
  <2>1. \A s \in Sessions : requests[s].at = "decided" \/ Crediting(s) => Request(s) \in Deliveries
    BY DEF IInv, LocksInv, Crediting
  <2> QED BY <1>3, <1>4, <2>1 DEF IInv, DecisionsInv
<1>7. AnswersInv'
  <2>1. \A s \in Sessions : Telling(s) => Request(s) \in Deliveries
    BY DEF IInv, LocksInv, Telling
  <2> QED BY <1>3, <2>1 DEF IInv, AnswersInv
<1>8. CreditIsAnnouncedOnce'
  BY DEF IInv, CreditIsAnnouncedOnce
<1> QED BY <1>1, <1>2, <1>5, <1>6, <1>7, <1>8 DEF IInv

(* Registrations, replayed events and stuttering steps are of this kind.   *)
LEMMA QuietSteps ==
  ASSUME IInv,
         \/ \E c \in Customers : RegisterCustomer(c)
         \/ \E t \in Terms : RegisterPrice(t)
         \/ \E s \in Sessions, d \in Deliveries : Replay(s, d)
         \/ UNCHANGED vars
  PROVE  IInv'
<1>0. /\ accounts \in [Customers -> 0..MaxInt \cup {None}]
      /\ prices \in [Prices -> Terms \cup {None}]
  BY DEF IInv, TypeOK
<1>1. ASSUME NEW c \in Customers, RegisterCustomer(c) PROVE IInv'
  <2>1. 0 \in 0..MaxInt /\ None \notin 0..MaxInt
    BY BillingAssumption
  <2>2. /\ accounts' \in [Customers -> 0..MaxInt \cup {None}]
        /\ \A b \in Customers : accounts[b] # None => accounts'[b] # None
    BY <1>0, <1>1, <2>1 DEF RegisterCustomer
  <2> QED BY <1>0, <1>1, <2>2, RegistrationKeeps DEF RegisterCustomer
<1>2. ASSUME NEW t \in Terms, RegisterPrice(t) PROVE IInv'
  <2>1. /\ prices' \in [Prices -> Terms \cup {None}]
        /\ \A p \in Prices : prices[p] # None => prices'[p] = prices[p]
    BY <1>0, <1>2 DEF RegisterPrice
  <2> QED BY <1>0, <1>2, <2>1, RegistrationKeeps DEF RegisterPrice
<1>3. ASSUME NEW s \in Sessions, NEW d \in Deliveries, Replay(s, d) PROVE IInv'
  <2>1. UNCHANGED vars
    BY <1>3 DEF Replay, AnswerWith, SaysCredited, vars
  <2> QED BY <1>0, <2>1, RegistrationKeeps DEF vars, tables
<1>4. CASE UNCHANGED vars
  BY <1>0, <1>4, RegistrationKeeps DEF vars, tables
<1> QED BY <1>1, <1>2, <1>3, <1>4

-----------------------------------------------------------------------------
(***************************************************************************)
(* The theorems.                                                           *)
(***************************************************************************)

(* Nothing is registered, credited or in progress at first.                *)
LEMMA InitHolds == Init => IInv
<1> SUFFICES ASSUME Init PROVE IInv
  OBVIOUS
<1>1. \A s \in Sessions : requests[s] = Idle /\ requests[s].at = "idle"
  BY IdleFacts DEF Init
<1>2. TypeOK
  <2>1. requests \in [Sessions -> Transaction]
    BY IdleFacts DEF Init
  <2> QED BY <2>1 DEF Init, TypeOK
<1>3. LocksInv /\ DecisionsInv /\ AnswersInv
  BY <1>1 DEF LocksInv, HasEvent, HasInvoice, DecisionsInv, Crediting, AnswersInv, Telling
<1>4. ReceiptsInv
  BY DEF Init, ReceiptsInv, NothingWritten, GrantsOf, ObservedAs
<1>5. CreditIsAnnouncedOnce
  BY DEF Init, CreditIsAnnouncedOnce
<1> QED BY <1>2, <1>3, <1>4, <1>5 DEF IInv

(* Every step of a request or a registration keeps the invariant.          *)
LEMMA StepKeeps == IInv /\ [Next]_vars => IInv'
<1> SUFFICES ASSUME IInv, [Next]_vars PROVE IInv'
  OBVIOUS
<1>1. ASSUME NEW s \in Sessions, Crash(s) PROVE IInv'
  BY <1>1, IdleKeeps DEF Crash
<1> QED BY <1>1, QuietSteps, ReceiveKeeps, CheckKeeps, GrantKeeps, CommitKeeps, AnswerKeeps DEF Next

LEMMA Invariant == Spec => []IInv
BY InitHolds, StepKeeps, PTL DEF Spec

-----------------------------------------------------------------------------
(***************************************************************************)
(* Balances.                                                               *)
(***************************************************************************)

(* Who has decided to credit an account holds the lock of its row.         *)
Paying(s) == requests[s].at = "decided" /\ requests[s].status = "applied"

(* A balance is what was granted, and the balance that a request is about  *)
(* to write is still the row's with the units of its price added.          *)
BalancesInv ==
  /\ \A c \in Customers : /\ IsFiniteSet(CreditsGranted(c))
                          /\ IF accounts[c] = None THEN CreditsGranted(c) = {}
                             ELSE accounts[c] = Cardinality(CreditsGranted(c))
  /\ \A s \in Sessions : Paying(s) =>
       requests[s].balance = accounts[Request(s).customer] + prices[Request(s).price].units
  /\ \A s, t \in Sessions :
       Paying(s) /\ Paying(t) /\ Request(s).customer = Request(t).customer => s = t

(* A new grant is worth its units.                                         *)
LEMMA GrantedAtOnce ==
  ASSUME NEW old, IsFiniteSet(old), NEW g, NEW units \in Nat, old \cap ({g} \X (1..units)) = {}
  PROVE  /\ IsFiniteSet(old \cup ({g} \X (1..units)))
         /\ Cardinality(old \cup ({g} \X (1..units))) = Cardinality(old) + units
<1> DEFINE one  == {g}
           each == 1..units
           new  == one \X each
<1>1. IsFiniteSet(one) /\ Cardinality(one) = 1
  BY FS_Singleton
<1>2. IsFiniteSet(each) /\ Cardinality(each) = units
  <2>1. /\ IsFiniteSet(each)
        /\ Cardinality(each) = IF 1 > units THEN 0 ELSE units - 1 + 1
    BY FS_Interval
  <2> HIDE DEF each
  <2> QED
    BY <2>1
<1>3. old \cap new = {}
  OBVIOUS
<1> HIDE DEF one, each
<1>4. IsFiniteSet(new) /\ Cardinality(new) = Cardinality(one) * Cardinality(each)
  BY <1>1, <1>2, FS_Product
<1> HIDE DEF new
<1>5. Cardinality(new) = units
  BY <1>1, <1>2, <1>4
<1>6. /\ IsFiniteSet(old \cup new)
      /\ Cardinality(old \cup new) = Cardinality(old) + Cardinality(new) - Cardinality(old \cap new)
  BY <1>4, FS_Union
<1>7. Cardinality(old \cap new) = 0 /\ Cardinality(old) \in Nat
  BY <1>3, FS_EmptySet, FS_CardinalityType
<1>8. Cardinality(old \cup new) = Cardinality(old) + units
  BY <1>5, <1>6, <1>7
<1> QED
  BY <1>6, <1>8 DEF new, one, each

(* While no grant is written, accounts and policies are only added, and no *)
(* other request decides to credit, balances stay what was granted.        *)
LEMMA BalancesStay ==
  ASSUME IInv, BalancesInv, grants' = grants,
         \A c \in Customers :
           accounts'[c] = accounts[c] \/ (accounts[c] = None /\ accounts'[c] = 0),
         \A p \in Prices : prices[p] # None => prices'[p] = prices[p],
         \A s \in Sessions : Paying(s)' => Paying(s) /\ requests'[s] = requests[s]
  PROVE  BalancesInv'
<1>1. ASSUME NEW c \in Customers
      PROVE  /\ IsFiniteSet(CreditsGranted(c)')
             /\ IF accounts'[c] = None THEN CreditsGranted(c)' = {}
                ELSE accounts'[c] = Cardinality(CreditsGranted(c)')
  <2>1. CreditsGranted(c)' = CreditsGranted(c)
    BY DEF CreditsGranted
  <2>2. None # 0 /\ Cardinality({}) = 0
    BY BillingAssumption, FS_EmptySet
  <2>3. CASE accounts'[c] = accounts[c]
    BY <2>1, <2>3 DEF BalancesInv
  <2>4. CASE accounts[c] = None /\ accounts'[c] = 0
    BY <2>1, <2>2, <2>4 DEF BalancesInv
  <2> QED
    BY <2>3, <2>4
<1>2. ASSUME NEW s \in Sessions, Paying(s)'
      PROVE  requests'[s].balance = accounts'[Request(s)'.customer] + prices'[Request(s)'.price].units
  <2> DEFINE d == Request(s)
  <2>1. Paying(s) /\ requests'[s] = requests[s] /\ Request(s)' = d
    BY <1>2 DEF Request
  <2>2. d.invoice # None /\ PolicyFits(d) /\ d \in Deliveries
    BY <2>1 DEF IInv, DecisionsInv, LocksInv, Crediting, Paying
  <2>3. /\ d.customer \in Customers /\ d.price \in Prices
        /\ accounts[d.customer] # None /\ prices[d.price] # None
    BY <2>2, DeliveryFacts DEF PolicyFits
  <2>4. accounts'[d.customer] = accounts[d.customer] /\ prices'[d.price] = prices[d.price]
    BY <2>3
  <2>5. requests[s].balance = accounts[d.customer] + prices[d.price].units
    BY <2>1 DEF BalancesInv
  <2> HIDE DEF d
  <2> QED
    BY <2>1, <2>4, <2>5
<1>3. ASSUME NEW s \in Sessions, NEW t \in Sessions, Paying(s)', Paying(t)',
             Request(s)'.customer = Request(t)'.customer
      PROVE  s = t
  BY <1>3 DEF BalancesInv, Request
<1> QED
  BY <1>1, <1>2, <1>3 DEF BalancesInv

(* grant_credits decides under the lock of the account: on the balance     *)
(* that is in the row, and alone.                                          *)
LEMMA GrantDecides ==
  ASSUME IInv, BalancesInv, NEW s \in Sessions, GrantCredits(s)
  PROVE  BalancesInv'
<1> DEFINE d   == Request(s)
           sum == accounts[d.customer] + prices[d.price].units
           row == [Decided(d, "applied", None) EXCEPT !.balance = sum]
<1>1. /\ requests[s].at = "account" /\ ~ AccountLocked(d.customer) /\ UNCHANGED <<tables, credited>>
      /\ requests' = [requests EXCEPT ![s] = IF Grantable(d) THEN row ELSE Idle]
  BY DEF GrantCredits
<1>2. requests \in [Sessions -> Transaction] /\ grants' = grants /\ accounts' = accounts /\ prices' = prices
  BY <1>1 DEF IInv, TypeOK, tables
<1>3. CASE ~ Grantable(d)
  <2>1. \A t \in Sessions : Paying(t)' => Paying(t) /\ requests'[t] = requests[t]
    BY <1>1, <1>2, <1>3, IdleFacts DEF Paying
  <2> QED
    BY <1>2, <2>1, BalancesStay
<1>4. CASE Grantable(d)
  <2>1. d \in Deliveries /\ None \in Reasons /\ "applied" \in Outcomes
    BY <1>1 DEF IInv, LocksInv, Reasons, Outcomes
  <2>2. row.at = "decided" /\ row.delivery = d /\ row.status = "applied" /\ row.balance = sum
    <3>1. Decided(d, "applied", None) \in Transaction
      BY <2>1, DecidedFacts
    <3> HIDE DEF d, sum
    <3> QED
      BY <2>1, <3>1, DecidedFacts DEF Transaction
  <2> HIDE DEF row
  <2>3. requests'[s] = row /\ \A t \in Sessions \ {s} : requests'[t] = requests[t]
    BY <1>1, <1>2, <1>4
  <2>4. ASSUME NEW t \in Sessions, Paying(t)'
        PROVE  \/ t = s /\ Request(t)' = d /\ requests'[t].balance = sum
               \/ t # s /\ Paying(t) /\ requests'[t] = requests[t] /\ Request(t)' = Request(t)
                  /\ Request(t).customer # d.customer
    <3>1. CASE t = s
      BY <2>2, <2>3, <3>1 DEF Request
    <3>2. CASE t # s
      <4>1. Paying(t) /\ requests'[t] = requests[t] /\ Request(t)' = Request(t)
        BY <2>3, <2>4, <3>2 DEF Paying, Request
      <4>2. Request(t).customer # d.customer
        BY <1>1, <4>1 DEF AccountLocked, Paying
      <4> QED
        BY <3>2, <4>1, <4>2
    <3> QED
      BY <3>1, <3>2
  <2>5. \A c \in Customers : CreditsGranted(c)' = CreditsGranted(c)
    BY <1>2 DEF CreditsGranted
  <2>6. \A c \in Customers : /\ IsFiniteSet(CreditsGranted(c)')
                             /\ IF accounts'[c] = None THEN CreditsGranted(c)' = {}
                                ELSE accounts'[c] = Cardinality(CreditsGranted(c)')
    BY <1>2, <2>5 DEF BalancesInv
  <2>7. \A t \in Sessions : Paying(t)' =>
          requests'[t].balance = accounts'[Request(t)'.customer] + prices'[Request(t)'.price].units
    BY <1>2, <2>4 DEF BalancesInv
  <2>8. ASSUME NEW t \in Sessions, NEW u \in Sessions, Paying(t)', Paying(u)',
               Request(t)'.customer = Request(u)'.customer
        PROVE  t = u
    <3> HIDE DEF d, sum
    <3> QED
      BY <2>4, <2>8 DEF BalancesInv
  <2> QED
    BY <2>6, <2>7, <2>8 DEF BalancesInv
<1> QED
  BY <1>3, <1>4

(* The commit adds the grant to the ledger and its units to the balance.   *)
LEMMA CommitPays ==
  ASSUME IInv, BalancesInv, NEW s \in Sessions, Commit(s)
  PROVE  BalancesInv'
<1> DEFINE d     == Request(s)
           units == prices[d.price].units
           g     == [customer |-> d.customer, invoice |-> d.invoice, units |-> units]
<1>1. /\ requests \in [Sessions -> Transaction] /\ accounts \in [Customers -> 0..MaxInt \cup {None}]
      /\ prices \in [Prices -> Terms \cup {None}]
      /\ grants \subseteq [customer: Customers, invoice: Invoices, units: 1..MaxInt]
  BY DEF IInv, TypeOK
<1>2. /\ requests[s].at = "decided" /\ prices' = prices
      /\ requests' = [requests EXCEPT ![s].at = "answering"] /\ Writes(s)
  BY DEF Commit
<1>3. /\ ~ Paying(s)'
      /\ \A t \in Sessions \ {s} : /\ requests'[t] = requests[t] /\ Request(t)' = Request(t)
                                   /\ Paying(t)' = Paying(t)
  BY <1>1, <1>2 DEF Paying, Request, Transaction
<1>4. CASE requests[s].status # "applied"
  <2>1. accounts' = accounts /\ grants' = grants
    BY <1>2, <1>4 DEF Writes
  <2>2. \A t \in Sessions : Paying(t)' => Paying(t) /\ requests'[t] = requests[t]
    BY <1>3
  <2> QED
    BY <1>2, <2>1, <2>2, BalancesStay
<1>5. CASE requests[s].status = "applied"
  <2>1. /\ Paying(s) /\ d \in Deliveries /\ d.invoice # None /\ ~ Applied(d) /\ PolicyFits(d)
    BY <1>2, <1>5 DEF Paying, IInv, LocksInv, DecisionsInv, Crediting
  <2>2. /\ d.customer \in Customers /\ d.invoice \in Invoices /\ d.price \in Prices
        /\ accounts[d.customer] # None /\ prices[d.price] # None
    BY <2>1, DeliveryFacts DEF PolicyFits
  <2>0. PICK who \in Customers : who = d.customer
    BY <2>2
  <2>3. units \in 1..MaxInt /\ MaxInt \in Nat /\ units \in Nat
    BY <1>1, <2>2, BillingAssumption
  <2>4. /\ accounts' = [accounts EXCEPT ![d.customer] = requests[s].balance]
        /\ grants' = grants \cup {g}
    BY <1>2, <1>5 DEF Writes
  <2>5. requests[s].balance = accounts[d.customer] + units
    BY <2>1 DEF BalancesInv
  <2>6. g \notin grants
    <3>1. GrantsOf(d.invoice) = {}
      BY <2>1, <2>2 DEF IInv, ReceiptsInv, Applied, NothingWritten
    <3>2. g.invoice = d.invoice
      OBVIOUS
    <3> HIDE DEF g, d
    <3> QED
      BY <3>1, <3>2 DEF GrantsOf
  <2>7. g.customer = d.customer /\ g.units = units
    OBVIOUS
  <2> HIDE DEF g, units
  <2>8. ASSUME NEW c \in Customers, c # who
        PROVE  CreditsGranted(c)' = CreditsGranted(c) /\ accounts'[c] = accounts[c]
    <3>1. {x \in grants' : x.customer = c} = {x \in grants : x.customer = c}
      BY <2>0, <2>4, <2>7, <2>8
    <3>2. accounts'[c] = accounts[c]
      BY <1>1, <2>0, <2>4, <2>8
    <3> QED
      BY <3>1, <3>2 DEF CreditsGranted
  <2>9. /\ CreditsGranted(who)' = CreditsGranted(who) \cup ({g} \X (1..units))
        /\ CreditsGranted(who) \cap ({g} \X (1..units)) = {}
    <3> DEFINE each(x) == {x} \X (1..x.units)
    <3>1. ASSUME NEW e
          PROVE  /\ e \in CreditsGranted(who) <=> \E x \in grants : x.customer = who /\ e \in each(x)
                 /\ e \in CreditsGranted(who)' <=> \E x \in grants' : x.customer = who /\ e \in each(x)
      BY DEF CreditsGranted
    <3>2. each(g) = {g} \X (1..units)
      BY <2>7
    <3>3. \A x \in grants : each(x) \cap each(g) = {}
      BY <2>6
    <3> HIDE DEF each
    <3>4. ASSUME NEW e
          PROVE  /\ e \in CreditsGranted(who)' <=> e \in CreditsGranted(who) \/ e \in each(g)
                 /\ ~ (e \in CreditsGranted(who) /\ e \in each(g))
      BY <2>0, <2>4, <2>7, <3>1, <3>3
    <3>5. /\ CreditsGranted(who)' = CreditsGranted(who) \cup each(g)
          /\ CreditsGranted(who) \cap each(g) = {}
      BY <3>4
    <3> QED
      BY <3>2, <3>5
  <2>10. /\ accounts'[d.customer] = accounts[d.customer] + units /\ accounts[d.customer] \in Nat
         /\ accounts'[d.customer] # None
    <3>1. accounts'[d.customer] = requests[s].balance
      BY <1>1, <2>2, <2>4
    <3>2. accounts[d.customer] \in 0..MaxInt /\ requests[s].balance \in 0..MaxInt
      BY <1>1, <2>2, Types DEF IInv
    <3> QED
      BY <2>3, <2>5, <3>1, <3>2, BillingAssumption
  <2>11. ASSUME NEW c \in Customers
         PROVE  /\ IsFiniteSet(CreditsGranted(c)')
                /\ IF accounts'[c] = None THEN CreditsGranted(c)' = {}
                   ELSE accounts'[c] = Cardinality(CreditsGranted(c)')
    <3>1. CASE c # who
      BY <2>8, <3>1 DEF BalancesInv
    <3>2. CASE c = who
      <4>1. /\ IsFiniteSet(CreditsGranted(who))
            /\ accounts[who] = Cardinality(CreditsGranted(who))
        BY <2>0, <2>2 DEF BalancesInv
      <4>2. /\ IsFiniteSet(CreditsGranted(who)')
            /\ Cardinality(CreditsGranted(who)') = Cardinality(CreditsGranted(who)) + units
        <5> DEFINE old == CreditsGranted(who)
        <5>1. IsFiniteSet(old) /\ old \cap ({g} \X (1..units)) = {}
          BY <2>9, <4>1
        <5> HIDE DEF old
        <5>2. /\ IsFiniteSet(old \cup ({g} \X (1..units)))
              /\ Cardinality(old \cup ({g} \X (1..units))) = Cardinality(old) + units
          BY <2>3, <5>1, GrantedAtOnce
        <5> QED
          BY <2>9, <5>2 DEF old
      <4>3. accounts'[who] = Cardinality(CreditsGranted(who)') /\ accounts'[who] # None
        BY <2>0, <2>10, <4>1, <4>2
      <4> QED
        BY <3>2, <4>2, <4>3
    <3> QED
      BY <3>1, <3>2
  <2>12. ASSUME NEW t \in Sessions, Paying(t)'
         PROVE  requests'[t].balance = accounts'[Request(t)'.customer] + prices'[Request(t)'.price].units
    <3>1. t # s /\ Paying(t) /\ requests'[t] = requests[t] /\ Request(t)' = Request(t)
      BY <1>3, <2>12
    <3>2. Request(t).customer # d.customer
      BY <2>1, <3>1 DEF BalancesInv
    <3>3. Request(t).customer \in Customers
      <4>1. Request(t) \in Deliveries /\ Request(t).invoice # None
        BY <3>1 DEF Paying, IInv, LocksInv, DecisionsInv, Crediting
      <4> QED
        BY <4>1, DeliveryFacts
    <3>4. accounts'[Request(t).customer] = accounts[Request(t).customer]
      BY <2>0, <2>8, <3>2, <3>3
    <3>5. requests[t].balance = accounts[Request(t).customer] + prices[Request(t).price].units
      BY <3>1 DEF BalancesInv
    <3> HIDE DEF d
    <3> QED
      BY <1>2, <3>1, <3>4, <3>5
  <2>13. ASSUME NEW t \in Sessions, NEW u \in Sessions, Paying(t)', Paying(u)',
                Request(t)'.customer = Request(u)'.customer
         PROVE  t = u
    <3>1. t # s /\ u # s
      BY <1>3, <2>13
    <3>2. Paying(t) /\ Paying(u) /\ Request(t).customer = Request(u).customer
      BY <1>3, <2>13, <3>1
    <3> QED
      BY <3>2 DEF BalancesInv
  <2> QED
    BY <2>11, <2>12, <2>13 DEF BalancesInv
<1> QED
  BY <1>4, <1>5

(* The balance of every account is what was granted to it: no request      *)
(* writes a balance that another has overtaken, loses a grant or counts    *)
(* one twice.                                                              *)
THEOREM BalancesAreAlwaysGrants == Spec => []BalancesAreGrants
<1>1. Init => BalancesInv
  <2> SUFFICES ASSUME Init PROVE BalancesInv
    OBVIOUS
  <2>1. \A s \in Sessions : ~ Paying(s)
    BY IdleFacts DEF Init, Paying
  <2>2. \A c \in Customers : CreditsGranted(c) = {} /\ accounts[c] = None
    BY DEF Init, CreditsGranted
  <2> QED
    BY <2>1, <2>2, FS_EmptySet DEF BalancesInv
<1>2. IInv /\ BalancesInv /\ [Next]_vars => BalancesInv'
  <2> SUFFICES ASSUME IInv, BalancesInv, [Next]_vars PROVE BalancesInv'
    OBVIOUS
  <2>0. /\ requests \in [Sessions -> Transaction] /\ accounts \in [Customers -> 0..MaxInt \cup {None}]
        /\ prices \in [Prices -> Terms \cup {None}]
    BY DEF IInv, TypeOK
  <2>1. ASSUME NEW s \in Sessions, NEW row, requests' = [requests EXCEPT ![s] = row],
               row.at # "decided" \/ row.status # "applied", UNCHANGED tables
        PROVE  BalancesInv'
    <3>1. \A t \in Sessions : Paying(t)' => Paying(t) /\ requests'[t] = requests[t]
      BY <2>0, <2>1 DEF Paying
    <3>2. grants' = grants /\ accounts' = accounts /\ prices' = prices
      BY <2>1 DEF tables
    <3> QED
      BY <3>1, <3>2, BalancesStay
  <2>2. ASSUME UNCHANGED <<grants, requests>>,
               \A c \in Customers :
                 accounts'[c] = accounts[c] \/ (accounts[c] = None /\ accounts'[c] = 0),
               \A p \in Prices : prices[p] # None => prices'[p] = prices[p]
        PROVE  BalancesInv'
    <3>1. \A t \in Sessions : Paying(t)' => Paying(t) /\ requests'[t] = requests[t]
      BY <2>2 DEF Paying
    <3> QED
      BY <2>2, <3>1, BalancesStay
  <2>3. ASSUME NEW c \in Customers, RegisterCustomer(c) PROVE BalancesInv'
    BY <2>0, <2>2, <2>3 DEF RegisterCustomer
  <2>4. ASSUME NEW t \in Terms, RegisterPrice(t) PROVE BalancesInv'
    BY <2>0, <2>2, <2>4 DEF RegisterPrice
  <2>5. ASSUME NEW s \in Sessions, NEW d \in Deliveries, ReceiveEvent(s, d) PROVE BalancesInv'
    <3> DEFINE row == IF d.invoice = None
                        THEN Decided(d, IF d.review = None THEN "observed" ELSE "review", d.review)
                        ELSE [Idle EXCEPT !.at = "invoice", !.delivery = d]
    <3>1. requests' = [requests EXCEPT ![s] = row] /\ UNCHANGED tables
      BY <2>5 DEF ReceiveEvent
    <3>2. row.at # "decided" \/ row.status # "applied"
      <4>1. d.review \in Reasons /\ "observed" \in Outcomes /\ "review" \in Outcomes
        BY DeliveryFacts DEF Outcomes
      <4>2. CASE d.invoice = None
        BY <4>1, <4>2, DecidedFacts
      <4>3. CASE d.invoice # None
        BY <4>3 DEF Idle
      <4> QED
        BY <4>2, <4>3
    <3> HIDE DEF row
    <3> QED
      BY <2>1, <3>1, <3>2
  <2>6. ASSUME NEW s \in Sessions, CheckInvoice(s) PROVE BalancesInv'
    <3> DEFINE d == Request(s)
    <3>1. d \in Deliveries /\ UNCHANGED tables
      BY <2>6 DEF CheckInvoice, IInv, LocksInv
    <3>2. \/ requests' = [requests EXCEPT ![s] = Idle]
          \/ requests' = [requests EXCEPT ![s] = Decided(d, "duplicate", None)]
          \/ requests' = [requests EXCEPT ![s].at = "account"]
          \/ requests' = [requests EXCEPT ![s] = Decided(d, "review", ReviewReason(d))]
      BY <2>6 DEF CheckInvoice
    <3>3. CASE requests' = [requests EXCEPT ![s] = Idle]
      BY <2>1, <3>1, <3>3, IdleFacts
    <3>4. ASSUME NEW status \in {"duplicate", "review"}, NEW review \in Reasons,
                 requests' = [requests EXCEPT ![s] = Decided(d, status, review)]
          PROVE  BalancesInv'
      <4>1. Decided(d, status, review).status = status /\ status # "applied"
        BY <3>1, DecidedFacts DEF Outcomes
      <4> HIDE DEF d
      <4> QED
        BY <2>1, <3>1, <3>4, <4>1
    <3>5. CASE requests' = [requests EXCEPT ![s].at = "account"]
      <4> DEFINE row == [requests[s] EXCEPT !.at = "account"]
      <4>1. requests' = [requests EXCEPT ![s] = row] /\ row.at = "account"
        BY <2>0, <3>5 DEF Transaction
      <4> HIDE DEF row
      <4> QED
        BY <2>1, <3>1, <4>1
    <3>6. None \in Reasons /\ ReviewReason(d) \in Reasons
      BY DEF ReviewReason, Reasons, Refusals
    <3> HIDE DEF d
    <3> QED
      BY <3>2, <3>3, <3>4, <3>5, <3>6
  <2>7. ASSUME NEW s \in Sessions, Answer(s) \/ Crash(s) PROVE BalancesInv'
    <3>1. requests' = [requests EXCEPT ![s] = Idle] /\ UNCHANGED tables
      BY <2>7 DEF Answer, Crash
    <3> QED
      BY <2>1, <3>1, IdleFacts
  <2>8. CASE UNCHANGED <<tables, requests>>
    BY <2>2, <2>8 DEF tables
  <2> QED
    BY <2>3, <2>4, <2>5, <2>6, <2>7, <2>8, GrantDecides, CommitPays DEF Next, Replay, vars
<1>3. BalancesInv => BalancesAreGrants
  BY DEF BalancesInv, BalancesAreGrants
<1> QED BY <1>1, <1>2, <1>3, Invariant, PTL DEF Spec

(* One invoice, one credit: however often, in whatever contradictory forms *)
(* and in how many sessions at once it is delivered, an invoice has one    *)
(* grant, one application and one observation that applied it, which agree *)
(* on customer, price policy and units, or none of the three; its account  *)
(* has the units of its grants; and its sender is told credited=true once  *)
(* at most, of a credited invoice.                                         *)
THEOREM OneInvoiceOneCredit == Spec => []ReceiptsAgree
<1>1. IInv /\ BalancesAreGrants => ReceiptsAgree
  <2> SUFFICES ASSUME IInv, NEW i \in Invoices
               PROVE  IF applications[i] = None THEN NothingWritten(i)
                      ELSE AllWritten(i) /\ Cardinality(ObservedAs(i, "applied")) = 1
    BY DEF IInv, ReceiptsAgree, NothingWritten, AllWritten, GrantsOf
  <2>1. AllWritten(i) => Cardinality(ObservedAs(i, "applied")) = 1
    BY FS_Singleton DEF AllWritten
  <2> QED BY <2>1 DEF IInv, ReceiptsInv
<1> QED BY <1>1, Invariant, BalancesAreAlwaysGrants, PTL

-----------------------------------------------------------------------------
(***************************************************************************)
(* What is credited.                                                       *)
(***************************************************************************)

(* The payment of one subscription, in full, with nothing odd about it.    *)
PlainPayment(body) ==
  /\ body.type = "paid" /\ body.odd \cap Oddities = {}
  /\ body.paid # 0 /\ body.remaining = 0
  /\ body.total = body.paid /\ body.line = body.paid /\ body.unit = body.paid

(* Every test of _invoice has an outcome other than to credit.             *)
LEMMA OutcomesOfChecks ==
  ASSUME NEW body
  PROVE  /\ DOMAIN Checks(body) = 1..16
         /\ \A i \in 1..16 : Checks(body)[i].outcome.kind # "invoice"
<1>1. DOMAIN Checks(body) = 1..16
  BY DEF Checks
<1>2. Refused.kind # "invoice" /\ \A reason : Review(reason).kind # "invoice"
  BY DEF Refused, Review
<1>3. \A fails, outcome : Check(fails, outcome).outcome = outcome
  BY DEF Check
<1>4. ASSUME NEW i \in 1..16 PROVE Checks(body)[i].outcome.kind # "invoice"
  BY <1>2, <1>3 DEF Checks
<1> QED
  BY <1>1, <1>4

(* None of them fails exactly if there is nothing odd about the invoice.   *)
LEMMA ChecksOfPlainInvoice ==
  ASSUME NEW body, body.odd \cap {"live", "other_version", "account"} = {}
  PROVE  (\A i \in 1..16 : ~ Checks(body)[i].fails) <=>
           /\ body.odd \cap Oddities = {} /\ body.paid # 0 /\ body.remaining = 0
           /\ body.total = body.paid /\ body.line = body.paid /\ body.unit = body.paid
<1>1. body.odd \cap Oddities = {} <=>
        /\ "no_customer" \notin body.odd /\ "connect" \notin body.odd /\ "unpaid" \notin body.odd
        /\ "manual" \notin body.odd /\ "no_currency" \notin body.odd /\ "balance" \notin body.odd
        /\ "discount" \notin body.odd /\ "no_subscription" \notin body.odd
        /\ "more_lines_listed" \notin body.odd /\ "two_lines" \notin body.odd
        /\ "live_line" \notin body.odd /\ "line_of_another_invoice" \notin body.odd
        /\ "quantity" \notin body.odd /\ "line_discount" \notin body.odd
        /\ "proration" \notin body.odd /\ "reversed_period" \notin body.odd
  BY DEF Oddities
<1>2. ASSUME \A i \in 1..16 : ~ Checks(body)[i].fails
      PROVE  /\ body.odd \cap Oddities = {} /\ body.paid # 0 /\ body.remaining = 0
             /\ body.total = body.paid /\ body.line = body.paid /\ body.unit = body.paid
  <2>1. /\ ~ Checks(body)[1].fails  /\ ~ Checks(body)[2].fails  /\ ~ Checks(body)[3].fails
        /\ ~ Checks(body)[4].fails  /\ ~ Checks(body)[5].fails  /\ ~ Checks(body)[6].fails
        /\ ~ Checks(body)[7].fails  /\ ~ Checks(body)[8].fails  /\ ~ Checks(body)[9].fails
        /\ ~ Checks(body)[10].fails /\ ~ Checks(body)[11].fails /\ ~ Checks(body)[12].fails
        /\ ~ Checks(body)[13].fails /\ ~ Checks(body)[14].fails /\ ~ Checks(body)[15].fails
        /\ ~ Checks(body)[16].fails
    BY <1>2
  <2> QED
    BY <1>1, <2>1 DEF Checks, Check
<1>3. ASSUME body.odd \cap Oddities = {}, body.paid # 0, body.remaining = 0,
             body.total = body.paid, body.line = body.paid, body.unit = body.paid,
             NEW i \in 1..16
      PROVE  ~ Checks(body)[i].fails
  <2>1. /\ ~ Checks(body)[1].fails  /\ ~ Checks(body)[2].fails  /\ ~ Checks(body)[3].fails
        /\ ~ Checks(body)[4].fails  /\ ~ Checks(body)[5].fails  /\ ~ Checks(body)[6].fails
        /\ ~ Checks(body)[7].fails  /\ ~ Checks(body)[8].fails  /\ ~ Checks(body)[9].fails
        /\ ~ Checks(body)[10].fails /\ ~ Checks(body)[11].fails /\ ~ Checks(body)[12].fails
        /\ ~ Checks(body)[13].fails /\ ~ Checks(body)[14].fails /\ ~ Checks(body)[15].fails
        /\ ~ Checks(body)[16].fails
    BY <1>1, <1>3 DEF Checks, Check
  <2>2. \/ i = 1 \/ i = 2 \/ i = 3 \/ i = 4 \/ i = 5 \/ i = 6 \/ i = 7 \/ i = 8 \/ i = 9 \/ i = 10
        \/ i = 11 \/ i = 12 \/ i = 13 \/ i = 14 \/ i = 15 \/ i = 16
    BY <1>3
  <2> QED
    BY <2>1, <2>2
<1> QED
  BY <1>2, <1>3

(* docs/billing-sandbox.md: of all events only the plain payment of one    *)
(* subscription is read as an invoice to credit, and every such payment    *)
(* is; whatever else is odd about a body, alone or with something that is  *)
(* tested before it, never lets it through.                                *)
THEOREM OnlyPlainPaymentsAreCredited ==
  ASSUME NEW body
  PROVE  Parsed(body).kind = "invoice" <=> PlainPayment(body)
<1> DEFINE failing == {i \in DOMAIN Checks(body) : Checks(body)[i].fails}
           foreign == body.odd \cap {"live", "other_version", "account"}
<1>1. /\ Refused.kind # "invoice" /\ Observed.kind # "invoice" /\ Eligible.kind = "invoice"
      /\ \A reason : Review(reason).kind # "invoice"
  BY DEF Refused, Observed, Eligible, Review
<1>2. Invoice(body).kind = "invoice" <=> failing = {}
  <2>1. CASE failing = {}
    BY <1>1, <2>1 DEF Invoice
  <2>2. CASE failing # {}
    <3>1. failing \in SUBSET Nat /\ failing \subseteq 1..16
      BY OutcomesOfChecks
    <3>2. PICK n \in failing : \A m \in Nat : m < n => m \notin failing
      <4> HIDE DEF failing
      <4>1. PICK n \in failing : \A m \in failing : <<m, n>> \notin OpToRel(<, Nat)
        BY <2>2, <3>1, NatLessThanWellFounded, WFMin
      <4>2. ASSUME NEW m \in failing PROVE ~ (m < n)
        <5>1. <<m, n>> \in Nat \X Nat /\ <<m, n>>[1] = m /\ <<m, n>>[2] = n
          BY <3>1
        <5> QED
          BY <4>1, <5>1, Zenon DEF OpToRel
      <4> QED
        BY <4>2
    <3>3. \E i \in failing : \A j \in failing : i <= j
      <4> HIDE DEF failing
      <4> QED
        BY <3>1, <3>2
    <3> DEFINE first == CHOOSE i \in failing : \A j \in failing : i <= j
    <3>4. first \in failing
      <4> HIDE DEF failing
      <4> QED
        BY <3>3
    <3>5. Invoice(body) = Checks(body)[first].outcome
      BY <2>2 DEF Invoice
    <3> HIDE DEF first
    <3> QED
      BY <2>2, <3>1, <3>4, <3>5, OutcomesOfChecks
  <2> QED
    BY <2>1, <2>2
<1>3. CASE foreign # {}
  <2>1. Parsed(body) = Refused
    BY <1>3 DEF Parsed
  <2>2. body.odd \cap Oddities # {}
    BY <1>3 DEF Oddities
  <2> QED
    BY <1>1, <2>1, <2>2 DEF PlainPayment
<1>4. CASE foreign = {}
  <2>1. Parsed(body).kind = "invoice" <=> body.type = "paid" /\ Invoice(body).kind = "invoice"
    <3> HIDE DEF failing
    <3>1. CASE body.type = "paid"
      <4>1. Parsed(body) = Invoice(body)
        BY <1>4, <3>1 DEF Parsed
      <4> QED
        BY <3>1, <4>1
    <3>2. CASE body.type # "paid"
      <4>1. \/ Parsed(body) = Refused \/ Parsed(body) = Observed
            \/ Parsed(body) = Review("unsupported_event_type")
        BY <1>4, <3>2 DEF Parsed
      <4> QED
        BY <1>1, <3>2, <4>1
    <3> QED
      BY <3>1, <3>2
  <2>2. failing = {} <=> \A i \in 1..16 : ~ Checks(body)[i].fails
    BY OutcomesOfChecks
  <2> HIDE DEF failing
  <2> QED
    BY <1>2, <1>4, <2>1, <2>2, ChecksOfPlainInvoice DEF PlainPayment
<1> QED
  BY <1>3, <1>4

-----------------------------------------------------------------------------
(***************************************************************************)
(* The contract and the tables together.                                   *)
(***************************************************************************)

(* An observation that an invoice is applied is one of an invoice.         *)
AppliedInvoiceInv ==
  \A e \in Events : observations[e] # None /\ observations[e].outcome = "applied" =>
    observations[e].delivery.invoice # None

LEMMA AppliedInvoiceKeeps == IInv /\ AppliedInvoiceInv /\ [Next]_vars => AppliedInvoiceInv'
<1> SUFFICES ASSUME IInv, AppliedInvoiceInv, [Next]_vars PROVE AppliedInvoiceInv'
  OBVIOUS
<1>1. CASE observations' = observations
  BY <1>1 DEF AppliedInvoiceInv
<1>2. ASSUME NEW s \in Sessions, Commit(s) PROVE AppliedInvoiceInv'
  <2> DEFINE d == Request(s)
             row == [delivery |-> d, outcome |-> requests[s].status, review |-> requests[s].review]
  <2>1. /\ d \in Deliveries /\ d.event \in Events
        /\ requests[s].status = "applied" => d.invoice # None
    <3>1. requests[s].at = "decided"
      BY <1>2 DEF Commit
    <3> QED BY <3>1, DeliveryFacts DEF IInv, LocksInv, DecisionsInv, Crediting
  <2>2. observations' = [observations EXCEPT ![d.event] = row]
    BY <1>2 DEF Commit, Writes
  <2>3. observations \in [Events -> Observation \cup {None}]
    BY DEF IInv, TypeOK
  <2>4. row.outcome = requests[s].status /\ row.delivery = d
    OBVIOUS
  <2> HIDE DEF d, row
  <2> SUFFICES ASSUME NEW e \in Events, observations'[e] # None, observations'[e].outcome = "applied"
               PROVE  observations'[e].delivery.invoice # None
    BY DEF AppliedInvoiceInv
  <2>5. CASE e = d.event
    BY <2>1, <2>2, <2>3, <2>4, <2>5
  <2>6. CASE e # d.event
    BY <2>2, <2>3, <2>6 DEF AppliedInvoiceInv
  <2> QED BY <2>5, <2>6
<1>3. ASSUME NEW s \in Sessions, CheckInvoice(s) \/ GrantCredits(s) \/ Answer(s) \/ Crash(s)
      PROVE  observations' = observations
  BY <1>3 DEF CheckInvoice, GrantCredits, Answer, Crash, tables
<1>4. ASSUME NEW s \in Sessions, NEW d \in Deliveries, ReceiveEvent(s, d) \/ Replay(s, d)
      PROVE  observations' = observations
  BY <1>4 DEF ReceiveEvent, Replay, tables
<1>5. ASSUME NEW c \in Customers, RegisterCustomer(c) PROVE observations' = observations
  BY <1>5 DEF RegisterCustomer
<1>6. ASSUME NEW t \in Terms, RegisterPrice(t) PROVE observations' = observations
  BY <1>6 DEF RegisterPrice
<1>7. CASE UNCHANGED vars
  BY <1>1, <1>7 DEF vars, tables
<1> QED BY <1>1, <1>2, <1>3, <1>4, <1>5, <1>6, <1>7 DEF Next

(* What is read as an invoice to credit is plainly paid and signed in time. *)
LEMMA CreditableIsPlainlyPaid ==
  ASSUME NEW r \in Creditable
  PROVE  PlainlyPaid(r)
<1>1. /\ r \in WebhookRequests /\ Verified(r, Secret, Now) /\ Parsed(r.body).kind = "invoice"
      /\ r.body \in Body /\ r.stamps \in Seq(Int) /\ Now \in Int /\ Tolerance \in Nat
  BY SandboxAssumption DEF Creditable, LetIn
<1>2. PlainPayment(r.body)
  BY <1>1, OnlyPlainPaymentsAreCredited
<1>3. r.body.paid > 0
  BY <1>1, <1>2 DEF PlainPayment, Body
<1>4. \E i \in 1..Len(r.stamps) :
        /\ r.stamps[i] >= Now - Tolerance
        /\ Signature(Secret, r.stamps[i], r.body) \in r.signatures
  <2>1. Len(r.stamps) = 1 /\ r.stamps[1] \in Int
    BY <1>1 DEF Verified
  <2>2. Now - r.stamps[1] <= Tolerance
    BY <1>1, <2>1 DEF Verified
  <2> QED BY <1>1, <2>1, <2>2 DEF Verified
<1> QED BY <1>2, <1>3, <1>4 DEF PlainPayment, PlainlyPaid

(* Whatever requests arrive, however they repeat, contradict and overtake  *)
(* each other: what is recorded as applied was asked for by a request that *)
(* was signed in time and is a plain payment in full, and every request    *)
(* the record could stand for is.                                          *)
THEOREM CreditsAreAlwaysEarned == Spec => []CreditsAreEarned
<1>1. Init => AppliedInvoiceInv
  BY DEF Init, AppliedInvoiceInv
<1>2. IInv /\ AppliedInvoiceInv => CreditsAreEarned
  <2> SUFFICES ASSUME IInv, AppliedInvoiceInv, NEW e \in Events, observations[e] # None,
                      observations[e].outcome = "applied"
               PROVE  LET sources == {r \in Creditable : Delivery(r) = observations[e].delivery}
                      IN  sources # {} /\ \A r \in sources : PlainlyPaid(r)
    BY DEF CreditsAreEarned
  <2>1. observations[e].delivery \in Deliveries /\ observations[e].delivery.invoice # None
    BY DEF IInv, TypeOK, Observation, AppliedInvoiceInv
  <2>2. PICK r \in LetIn : observations[e].delivery = Delivery(r)
    BY <2>1, SandboxAssumption
  <2>3. r \in Creditable
    BY <2>1, <2>2 DEF Delivery, Creditable
  <2> QED BY <2>2, <2>3, CreditableIsPlainlyPaid
<1> QED BY <1>1, <1>2, AppliedInvoiceKeeps, Invariant, PTL DEF Spec
=============================================================================
