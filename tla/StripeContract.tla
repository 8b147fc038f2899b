--------------------------- MODULE StripeContract ---------------------------
(***************************************************************************)
(* What of a webhook request the billing sandbox takes for a fact          *)
(* (apps/api/app/billing/contract.py): the signed header, and the event it *)
(* comes with, which is refused, observed, put up for review, or read as   *)
(* an invoice that may be credited.  BillingEvents models what is done     *)
(* with it.                                                                *)
(*                                                                         *)
(* Amounts are numbers.  Of everything else in a body only what is unusual *)
(* about it is there, as a set of names (body.odd); shapes of identifiers, *)
(* digests and the JSON itself are left out.                               *)
(***************************************************************************)
EXTENDS Integers, FiniteSets, Sequences, SequencesExt

CONSTANT Tolerance  \* how old, or how far ahead, a signed timestamp may be

(* A header has any number of timestamps and signatures; a signature is of *)
(* a secret, a timestamp and a body.                                       *)
Signature(secret, stamp, body) == [secret |-> secret, stamp |-> stamp, body |-> body]

(* verify_signature: one timestamp, and any one of the signatures matches, *)
(* so that a sender may sign with an old and a new secret at once.         *)
Verified(request, secret, now) ==
  /\ Len(request.stamps) = 1
  /\ now - request.stamps[1] \in -Tolerance..Tolerance
  /\ Signature(secret, request.stamps[1], request.body) \in request.signatures

(* What may be unusual about an invoice that is paid.                      *)
Oddities ==
  {"no_customer", "connect", "unpaid", "manual", "no_currency", "balance", "discount", "no_subscription",
   "more_lines_listed", "two_lines", "live_line", "line_of_another_invoice", "quantity", "line_discount",
   "proration", "reversed_period", "live", "other_version", "account"}

-----------------------------------------------------------------------------
(* The invoice of an invoice.paid event.                                   *)

Refused == [kind |-> "refused", reason |-> "none"]
Review(reason) == [kind |-> "review", reason |-> reason]
Observed == [kind |-> "observed", reason |-> "none"]
Eligible == [kind |-> "invoice", reason |-> "none"]

Check(fails, outcome) == [fails |-> fails, outcome |-> outcome]

(* _invoice, in the order of its tests: what is malformed is refused, and  *)
(* what is well-formed but no plain payment of one subscription is left to *)
(* a review.  No amount is below zero here.                                *)
Checks(body) ==
  LET odd(name) == name \in body.odd
  IN  << Check(odd("no_customer"),                       Refused),
         Check(odd("connect"),                           Review("unsupported_connect_invoice")),
         Check(odd("unpaid") \/ body.paid = 0 \/ body.remaining # 0 \/ odd("manual"),
                                                         Review("unsupported_invoice_state")),
         Check(odd("no_currency"),                       Refused),
         Check(body.total # body.paid,                   Review("invoice_adjustment")),
         Check(odd("balance") \/ odd("discount"),        Review("invoice_adjustment")),
         Check(odd("no_subscription"),                   Review("unsupported_invoice_parent")),
         Check(odd("more_lines_listed"),                 Review("incomplete_invoice_lines")),
         Check(odd("two_lines"),                         Review("unsupported_invoice_lines")),
         Check(odd("live_line"),                         Refused),
         Check(odd("line_of_another_invoice"),           Review("unsupported_invoice_lines")),
         Check(body.line # body.paid \/ odd("quantity"), Review("unsupported_invoice_lines")),
         Check(odd("line_discount"),                     Review("invoice_adjustment")),
         Check(odd("proration"),                         Review("unsupported_invoice_lines")),
         Check(body.unit # body.paid,                    Review("unsupported_invoice_pricing")),
         Check(odd("reversed_period"),                   Review("unsupported_invoice_period")) >>

InvoiceByTotal(body) ==
  IF body.paid # 0 /\ body.total = body.paid THEN Eligible ELSE Review("invoice_adjustment")

Invoice(body) ==
  LET failing == {i \in DOMAIN Checks(body) : Checks(body)[i].fails}
  IN  IF failing = {} THEN Eligible
      ELSE Checks(body)[CHOOSE i \in failing : \A j \in failing : i <= j].outcome

(* parse_event: nothing of live mode or of another account is read.        *)
Parsed(body) ==
  IF \/ body.odd \cap {"live", "other_version", "account"} # {}
     \/ body.type = "subscription" /\ "unknown_status" \in body.odd
  THEN Refused
  ELSE CASE body.type = "paid"                             -> Invoice(body)
         [] body.type \in {"payment_failed", "subscription"} -> Observed
         [] OTHER                                          -> Review("unsupported_event_type")

=============================================================================
