--------------------------- MODULE MCBillingEvents ---------------------------
(***************************************************************************)
(* BillingSandbox on a small instance: two customers, one price, and       *)
(* webhook requests of every kind that the contract and process_event tell *)
(* apart.  Registered with 1 unit both invoices fit the balance, with 2    *)
(* units the second one does not.                                          *)
(***************************************************************************)
EXTENDS BillingSandbox

Content(type, paid, odd) ==
  [type |-> type, paid |-> paid, remaining |-> 0, total |-> paid, line |-> paid, unit |-> paid, odd |-> odd]

Plain == Content("paid", 10, {})

Strange ==
  {Content("paid", 10, {o}) : o \in Oddities}
  \cup {Content("paid", 10, {o, "no_currency"}) : o \in {"manual", "discount"}}
  \cup {Content("paid", 0, {}), Content("other", 0, {}), Content("subscription", 0, {"unknown_status"}),
        Content("payment_failed", 0, {})}
  \cup {[Plain EXCEPT !.remaining = 5], [Plain EXCEPT !.total = 20], [Plain EXCEPT !.line = 20],
        [Plain EXCEPT !.unit = 20]}

Sent(event, invoice, customer, body, stamp, secret) ==
  [event |-> event, invoice |-> invoice, customer |-> customer, price |-> "p1", body |-> body,
   stamps |-> <<stamp>>, signatures |-> {Signature(secret, stamp, body), Signature("old", stamp, body)}]

MCRequests ==
  { Sent("e1", "i1", "c1", Plain, Now, "secret"),
    Sent("e2", "i1", "c1", Plain, Now - Tolerance, "secret"),     \* another event of the same invoice
    Sent("e2", "i1", "c2", Plain, Now, "secret"),                 \* or of that invoice with other facts
    Sent("e3", "i2", "c1", Plain, Now, "secret"),                 \* a renewal for the same account
    Sent("e3", "i2", "c1", Plain, Now - Tolerance - 1, "secret"), \* too late
    Sent("e3", "i2", "c2", Plain, Now, "other") }                 \* by someone else
  \cup {Sent("e1", "i1", "c1", b, Now, "secret") : b \in Strange} \* the same event with other content

(* Of the contents put up for review, one reason stands for all.           *)
MCDeliveries ==
  {d \in {Delivery(r) : r \in LetIn} : d.review \in {None, "invoice_adjustment"}}

MCTerms == {[price |-> "p1", amount |-> a, units |-> u] : a \in {10, 20}, u \in {1, 2}}
             \ {[price |-> "p1", amount |-> 20, units |-> 2]}

=============================================================================
