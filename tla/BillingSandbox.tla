--------------------------- MODULE BillingSandbox ---------------------------
(***************************************************************************)
(* POST /api/v1/billing/stripe as a whole (apps/api/app/api/billing.py):   *)
(* webhook requests are verified and parsed (StripeContract), and what is  *)
(* not refused is processed (BillingEvents).  Refused requests are         *)
(* answered with 400 and leave nothing behind.                             *)
(***************************************************************************)
EXTENDS BillingEvents, StripeContract

CONSTANTS
  WebhookRequests,  \* [event, invoice, customer, price, body, stamps, signatures]
  Secret,           \* the webhook secret of the deployment
  Now               \* its clock, which stands still for the signatures' age

Body == [type: {"paid", "subscription", "payment_failed", "other"},
         paid: Nat, remaining: Nat, total: Nat, line: Nat, unit: Nat,
         odd: SUBSET (Oddities \cup {"unknown_status"})]

(* The requests that are not refused, and those of an invoice to credit.   *)
LetIn      == {r \in WebhookRequests : Verified(r, Secret, Now) /\ Parsed(r.body).kind # "refused"}
Creditable == {r \in LetIn : Parsed(r.body).kind = "invoice"}

(* The event that parse_event makes of a request: it carries an invoice    *)
(* only if the invoice may be credited.                                    *)
Delivery(request) ==
  LET parsed == Parsed(request.body)
      credit == parsed.kind = "invoice"
  IN  [event    |-> request.event,
       invoice  |-> IF credit THEN request.invoice ELSE None,
       customer |-> IF credit THEN request.customer ELSE None,
       price    |-> IF credit THEN request.price ELSE None,
       amount   |-> IF credit THEN request.body.paid ELSE 0,
       review   |-> IF parsed.kind = "review" THEN parsed.reason ELSE None]

ASSUME SandboxAssumption ==
  /\ Now \in Int /\ Tolerance \in Nat
  /\ \A r \in WebhookRequests : r.body \in Body /\ r.stamps \in Seq(Int)
  /\ Deliveries \subseteq {Delivery(r) : r \in LetIn}

-----------------------------------------------------------------------------

(* Signed in time, paid in full, and the same amount in every place.       *)
PlainlyPaid(r) ==
  /\ r.body.type = "paid" /\ r.body.odd \cap Oddities = {}
  /\ r.body.remaining = 0 /\ r.body.paid > 0
  /\ {r.body.total, r.body.line, r.body.unit} = {r.body.paid}
  /\ \E i \in 1..Len(r.stamps) :
       /\ r.stamps[i] >= Now - Tolerance
       /\ Signature(Secret, r.stamps[i], r.body) \in r.signatures

(* docs/billing-sandbox.md: only the plain payment of one subscription is  *)
(* credited.  Whatever is odd about an invoice, alone or together with     *)
(* something else, and however the deliveries of its events repeat,        *)
(* contradict and overtake each other: an observation that an invoice is   *)
(* applied was made of such a payment, and no other request, let in by the *)
(* contract, can have made it.                                             *)
CreditsAreEarned ==
  \A e \in Events : observations[e] # None /\ observations[e].outcome = "applied" =>
    LET sources == {r \in Creditable : Delivery(r) = observations[e].delivery}
    IN  sources # {} /\ \A r \in sources : PlainlyPaid(r)

=============================================================================
