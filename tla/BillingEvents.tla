---------------------------- MODULE BillingEvents ----------------------------
(***************************************************************************)
(* The billing sandbox of apps/api/app/billing/service.py behind           *)
(* POST /api/v1/billing/stripe and the operator's CLI.                     *)
(*                                                                         *)
(* A signed event is processed in one transaction that takes a lock on the *)
(* event, one on its invoice and one on the credit account, in this order, *)
(* and writes the ledger grant, the invoice application and the event      *)
(* observation together.  What a transaction writes is visible to others   *)
(* when it commits; a crash or an exception rolls it back and releases its *)
(* locks.  The sender repeats and duplicates its deliveries as it likes.   *)
(***************************************************************************)
EXTENDS Integers, FiniteSets

CONSTANTS
  Sessions,    \* API requests that can be in progress at once
  Deliveries,  \* verified request bodies: [event, invoice, customer, price, amount, review]
  Terms,       \* what an operator may register of a price: [price, amount, units]
  MaxInt,      \* the largest balance, 2^31 - 1
  None         \* the absent invoice, customer, price, reason or delivery

Events    == {d.event : d \in Deliveries}
Invoices  == {d.invoice : d \in Deliveries} \ {None}
Customers == {d.customer : d \in Deliveries} \ {None}
Prices    == {t.price : t \in Terms} \cup ({d.price : d \in Deliveries} \ {None})

(* The digest of an invoice is taken of its facts, not of the event.       *)
Facts(d) == [customer |-> d.customer, price |-> d.price, amount |-> d.amount]

Outcomes == {"applied", "duplicate", "observed", "review"}
Refusals == {"unmapped_customer", "unmapped_price", "price_policy_mismatch"}
Reasons  == {d.review : d \in Deliveries} \cup Refusals \cup {None}

(* The rows of invoice applications and of event observations.             *)
Application == [facts: {Facts(d) : d \in {x \in Deliveries : x.invoice # None}}, units: 1..MaxInt]
Observation == [delivery: Deliveries, outcome: Outcomes, review: Reasons]

ASSUME BillingAssumption ==
  /\ MaxInt \in Nat
  /\ \A t \in Terms : t.units \in 1..MaxInt
  /\ \A d \in Deliveries : d.invoice # None =>
       d.review = None /\ d.customer # None /\ d.price # None    \* parse_event
  /\ None \notin Outcomes \cup Refusals /\ None \notin 0..MaxInt
  /\ None \notin Terms /\ None \notin Application /\ None \notin Observation

VARIABLES
  accounts,      \* customer mappings with the balance of their own account, or None
  prices,        \* price policies, or None
  grants,        \* the ledger: [customer, invoice, units], keyed by "sandbox-invoice:" + invoice
  applications,  \* invoice applications, or None
  observations,  \* event observations, or None
  requests,      \* the transactions in progress
  credited       \* per invoice: the answers that said credited=true

tables == <<accounts, prices, grants, applications, observations>>
vars   == <<tables, requests, credited>>

Idle == [at |-> "idle", delivery |-> None, status |-> None, review |-> None, balance |-> 0]

Init ==
  /\ accounts     = [c \in Customers |-> None]
  /\ prices       = [p \in Prices |-> None]
  /\ grants       = {}
  /\ applications = [i \in Invoices |-> None]
  /\ observations = [e \in Events |-> None]
  /\ requests     = [s \in Sessions |-> Idle]
  /\ credited     = [i \in Invoices |-> 0]

(* register_customer: a new sandbox account for a customer that has none;  *)
(* registering it again returns what is there.                             *)
RegisterCustomer(c) ==
  /\ accounts[c] = None
  /\ accounts' = [accounts EXCEPT ![c] = 0]
  /\ UNCHANGED <<prices, grants, applications, observations, requests, credited>>

(* register_price: other terms for a price that has a policy are refused,  *)
(* the same terms return it.                                               *)
RegisterPrice(t) ==
  /\ prices[t.price] = None
  /\ prices' = [prices EXCEPT ![t.price] = t]
  /\ UNCHANGED <<accounts, grants, applications, observations, requests, credited>>

Request(s) == requests[s].delivery

(* Who holds which lock: from the step that takes it to the end.           *)
EventLocked(e) ==
  \E s \in Sessions : requests[s].at \in {"invoice", "account", "decided"} /\ Request(s).event = e

InvoiceLockedTwice(i) ==
  \E s \in Sessions : requests[s].at \in {"invoice", "account", "decided"} /\ Request(s).invoice = i

InvoiceLocked(i) ==
  \E s \in Sessions : requests[s].at \in {"account", "decided"} /\ Request(s).invoice = i

AccountUnlocked(c) == FALSE

AccountLocked(c) ==
  \E s \in Sessions : /\ requests[s].at = "decided" /\ requests[s].status = "applied"
                      /\ Request(s).customer = c

Decided(d, status, review) ==
  [Idle EXCEPT !.at = "decided", !.delivery = d, !.status = status, !.review = review]

(* process_event, a new event: one without an invoice to credit is         *)
(* observed, for review when parse_event says so.                          *)
ReceiveEvent(s, d) ==
  /\ requests[s] = Idle
  /\ ~ EventLocked(d.event)
  /\ observations[d.event] = None
  /\ requests' = [requests EXCEPT ![s] =
       IF d.invoice = None
         THEN Decided(d, IF d.review = None THEN "observed" ELSE "review", d.review)
         ELSE [Idle EXCEPT !.at = "invoice", !.delivery = d]]
  /\ UNCHANGED <<tables, credited>>

(* BillingResult.credited: only the answer of the transaction that made    *)
(* the grant says so, a replay carries the recorded outcome without it.    *)
SaysCredited(status, replayed) == status = "applied" /\ ~ replayed

AnswerWith(d, status, replayed) ==
  credited' = IF SaysCredited(status, replayed)
                THEN [credited EXCEPT ![d.invoice] = @ + 1] ELSE credited

(* process_event, a known event: the same content is answered from its     *)
(* observation; other content is refused (409) and changes nothing.        *)
Replay(s, d) ==
  /\ requests[s] = Idle
  /\ ~ EventLocked(d.event)
  /\ observations[d.event] # None
  /\ observations[d.event].delivery = d
  /\ AnswerWith(d, observations[d.event].outcome, TRUE)
  /\ UNCHANGED <<tables, requests>>

(* The reason why an unapplied invoice is not credited, if there is one.   *)
ReviewReason(d) ==
  IF accounts[d.customer] = None THEN "unmapped_customer"
  ELSE IF prices[d.price] = None THEN "unmapped_price"
  ELSE IF prices[d.price].amount # d.amount THEN "price_policy_mismatch"
  ELSE None

Applied(d)   == applications[d.invoice] # None

ConflictsInAmount(d) == Applied(d) /\ applications[d.invoice].facts.amount # d.amount

(* The digest of the facts as a whole decides.                             *)
Conflicts(d) == Applied(d) /\ applications[d.invoice].facts # Facts(d)

(* process_event, the invoice: known with the same facts, it is a          *)
(* duplicate; known with other facts, the transaction is rolled back; new, *)
(* it goes on to the account, or to review.                                *)
CheckInvoice(s) ==
  LET d == Request(s)
  IN  /\ requests[s].at = "invoice"
      /\ ~ InvoiceLocked(d.invoice)
      /\ \/ /\ Conflicts(d)
            /\ requests' = [requests EXCEPT ![s] = Idle]
         \/ /\ Applied(d) /\ ~ Conflicts(d)
            /\ requests' = [requests EXCEPT ![s] = Decided(d, "duplicate", None)]
         \/ /\ ~ Applied(d) /\ ReviewReason(d) = None
            /\ requests' = [requests EXCEPT ![s].at = "account"]
         \/ /\ ~ Applied(d) /\ ReviewReason(d) # None
            /\ requests' = [requests EXCEPT ![s] = Decided(d, "review", ReviewReason(d))]
      /\ UNCHANGED <<tables, credited>>

(* grant_credits under the lock of the account row: a replayed grant, or   *)
(* one that leaves the range of the balance, rolls the transaction back.   *)
UsedKey(d) == \E g \in grants : g.customer = d.customer /\ g.invoice = d.invoice

Grantable(d) == ~ UsedKey(d) /\ accounts[d.customer] <= MaxInt - prices[d.price].units

GrantCredits(s) ==
  LET d == Request(s)
  IN  /\ requests[s].at = "account"
      /\ ~ AccountLocked(d.customer)
      /\ requests' = [requests EXCEPT ![s] =
           IF Grantable(d)
             THEN [Decided(d, "applied", None) EXCEPT
                     !.balance = accounts[d.customer] + prices[d.price].units]
             ELSE Idle]
      /\ UNCHANGED <<tables, credited>>

(* The commit writes the grant and the application, if the invoice is      *)
(* applied, and the observation, which points at the application if the    *)
(* invoice has one.                                                        *)
Writes(s) ==
  LET d == Request(s)
      applied == requests[s].status = "applied"
  IN  /\ accounts' = IF applied THEN [accounts EXCEPT ![d.customer] = requests[s].balance]
                                ELSE accounts
      /\ grants' = IF applied
                     THEN grants \cup {[customer |-> d.customer, invoice |-> d.invoice,
                                        units |-> prices[d.price].units]}
                     ELSE grants
      /\ applications' = IF applied
                           THEN [applications EXCEPT ![d.invoice] =
                                   [facts |-> Facts(d), units |-> prices[d.price].units]]
                           ELSE applications
      /\ observations' = [observations EXCEPT ![d.event] =
                            [delivery |-> d, outcome |-> requests[s].status,
                             review |-> requests[s].review]]

Commit(s) ==
  /\ requests[s].at = "decided"
  /\ Writes(s)
  /\ requests' = [requests EXCEPT ![s].at = "answering"]
  /\ UNCHANGED <<prices, credited>>

Answer(s) ==
  /\ requests[s].at = "answering"
  /\ requests' = [requests EXCEPT ![s] = Idle]
  /\ AnswerWith(Request(s), requests[s].status, FALSE)
  /\ UNCHANGED tables

(* The process dies, or the connection breaks: what is not committed is    *)
(* rolled back, and what is committed is not told to the sender.           *)
Crash(s) ==
  /\ requests[s] # Idle
  /\ requests' = [requests EXCEPT ![s] = Idle]
  /\ UNCHANGED <<tables, credited>>

Next ==
  \/ \E c \in Customers : RegisterCustomer(c)
  \/ \E t \in Terms : RegisterPrice(t)
  \/ \E s \in Sessions, d \in Deliveries : ReceiveEvent(s, d) \/ Replay(s, d)
  \/ \E s \in Sessions : CheckInvoice(s) \/ GrantCredits(s) \/ Commit(s) \/ Answer(s) \/ Crash(s)

Spec == Init /\ [][Next]_vars

(* Requests go on by themselves, and PostgreSQL queues those that wait for *)
(* a lock, so that a request that is overtaken again and again gets it.    *)
FairSpec ==
  /\ Spec
  /\ \A s \in Sessions : /\ SF_vars(CheckInvoice(s)) /\ SF_vars(GrantCredits(s))
                         /\ WF_vars(Commit(s)) /\ WF_vars(Answer(s))

-----------------------------------------------------------------------------

Stages      == {"idle", "invoice", "account", "decided", "answering"}
Transaction == [at: Stages, delivery: Deliveries \cup {None}, status: Outcomes \cup {None},
                review: Reasons, balance: 0..MaxInt]

TypeOK ==
  /\ accounts \in [Customers -> 0..MaxInt \cup {None}]
  /\ prices \in [Prices -> Terms \cup {None}]
  /\ grants \subseteq [customer: Customers, invoice: Invoices, units: 1..MaxInt]
  /\ applications \in [Invoices -> Application \cup {None}]
  /\ observations \in [Events -> Observation \cup {None}]
  /\ \A e \in Events : observations[e] # None => observations[e].delivery.event = e
  /\ requests \in [Sessions -> Transaction]
  /\ credited \in [Invoices -> Nat]

ObservedAs(i, outcome) ==
  {e \in Events : /\ observations[e] # None
                  /\ observations[e].delivery.invoice = i
                  /\ observations[e].outcome = outcome}

(* The sender is told credited=true at most once per invoice, and only of  *)
(* an invoice that is credited.                                            *)
CreditIsAnnouncedOnce ==
  \A i \in Invoices : credited[i] <= IF applications[i] = None THEN 0 ELSE 1

(* The credits a customer was granted, one by one.                         *)
CreditsGranted(c) == UNION {{g} \X (1..g.units) : g \in {x \in grants : x.customer = c}}

(* _locked_account: grants for one account are decided one after the other *)
(* and each on the balance the other has left, so that a balance is the    *)
(* sum of its grants whatever is in progress, repeated or rolled back.     *)
BalancesAreGrants ==
  \A c \in Customers : accounts[c] # None => accounts[c] = Cardinality(CreditsGranted(c))

(* docs/billing-sandbox.md: the ledger grant, the invoice application and  *)
(* the event observation are committed together, and one invoice is        *)
(* credited once across all accounts.  However deliveries are repeated,    *)
(* contradict each other or run at once, an invoice has one grant, one     *)
(* application and one observation that applied it, or none of the three;  *)
(* they agree on customer, price policy and units, every duplicate was one *)
(* of the same facts, balances are the sums of the grants, and the sender  *)
(* is told of the credit once at most.                                     *)
ReceiptsAgree ==
  /\ TypeOK
  /\ CreditIsAnnouncedOnce
  /\ BalancesAreGrants
  /\ \A i \in Invoices :
       LET mine == {g \in grants : g.invoice = i}
       IN  IF applications[i] = None
             THEN mine = {} /\ ObservedAs(i, "applied") = {} /\ ObservedAs(i, "duplicate") = {}
             ELSE LET facts == applications[i].facts
                  IN  /\ mine = {[customer |-> facts.customer, invoice |-> i,
                                  units |-> applications[i].units]}
                      /\ prices[facts.price] # None
                      /\ facts.amount = prices[facts.price].amount
                      /\ applications[i].units = prices[facts.price].units
                      /\ Cardinality(ObservedAs(i, "applied")) = 1
                      /\ \A e \in ObservedAs(i, "applied") \cup ObservedAs(i, "duplicate") :
                           Facts(observations[e].delivery) = facts

(* Three locks per transaction, taken in one order: whatever else is in    *)
(* progress, no request waits for ever.                                    *)
RequestsEnd == \A s \in Sessions : requests[s] # Idle ~> requests[s] = Idle

=============================================================================
