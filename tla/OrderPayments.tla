----------------------------- MODULE OrderPayments -----------------------------
(***************************************************************************)
(* The orders (invoices) of one customer, from checkout to delivery:       *)
(* OrderService (orders.py) as called by the customer, by the billing and  *)
(* hosting staff and by the Paystack webhook, each call in a database      *)
(* transaction of its own.                                                 *)
(*                                                                         *)
(* As in SubscriptionLifecycle a session acts on the rows it loaded and    *)
(* writes the columns it changed: a call is a Load step and a commit step, *)
(* nothing is locked or read again in between, and the checks a call makes *)
(* ("is it paid?", "is this transaction id taken?") are made on what was   *)
(* loaded.  One check is made by the database instead, at the commit: the  *)
(* name of a customer_domains row is unique.                               *)
(*                                                                         *)
(* Paying an order for hosting creates a subscription, its domain row and  *)
(* its environment; a renewal extends a subscription once.  AI credits are *)
(* delivered as a renewal is, and renewal stands for both.  Orders for a   *)
(* panel theme or for a bare domain, and update_order_domain(), are not    *)
(* modelled.                                                               *)
(* Provisioning runs inline and either succeeds or rolls the whole call    *)
(* back: handing it to a worker expires the order in the session, and the  *)
(* attribute read that follows raises, so that path commits nothing        *)
(* either.                                                                 *)
(***************************************************************************)
EXTENDS Naturals

CONSTANTS
    Orders,     \* rows of the orders table, existing or to be created
    KindOf,     \* KindOf[o]: what the order is for
    Names,      \* domain names
    Txns,       \* Mobile Money transaction ids
    Requests,   \* request slots: concurrent calls
    MaxCalls    \* bound: calls

Kinds == {"hosting", "renewal", "upgrade"}

ASSUME KindAssumption == KindOf \in [Orders -> Kinds]
ASSUME CallAssumption == MaxCalls \in Nat
ASSUME NameAssumption == "none" \notin Names

VARIABLES
    order,     \* committed rows
    subs,      \* subs[o][n]: subscriptions created for o under the name n
    applied,   \* applied[o]: how often the renewal or upgrade was applied
    req,       \* the calls in progress: what each has loaded
    raced,     \* history: orders written from a stale load
    reopened,  \* history: orders a call took out of a final status or paid again
    calls      \* bound: calls so far

vars == <<order, subs, applied, req, raced, reopened, calls>>

None == "none"
PayStatus == {"pending", "submitted", "paid", "failed", "cancelled"}
ProvStatus == {"pending", "n/a", "ready_for_activation", "active", "cancelled"}
Row == [pay: PayStatus \cup {"absent"}, prov: ProvStatus, method: {"momo", "other"},
        domain: Names \cup {None}, txn: Txns \cup {None}]
Absent == [pay |-> "absent", prov |-> "n/a", method |-> "momo", domain |-> None, txn |-> None]
Exists(row) == row.pay # "absent"
Hosting(o) == KindOf[o] = "hosting"

Column(db, loaded, new) == IF new # loaded THEN new ELSE db
MergeRow(db, loaded, new) ==
    [pay |-> Column(db.pay, loaded.pay, new.pay),
     prov |-> Column(db.prov, loaded.prov, new.prov),
     method |-> Column(db.method, loaded.method, new.method),
     domain |-> Column(db.domain, loaded.domain, new.domain),
     txn |-> Column(db.txn, loaded.txn, new.txn)]

\* The subscriptions of an order, as retry_provision() selects them.
Under == Names \cup {None}
Found(o) ==
    CASE \A n \in Under : subs[o][n] = 0 -> "none"
      [] \E n \in Under : subs[o] = [m \in Under |-> IF m = n THEN 1 ELSE 0] -> "one"
      [] OTHER -> "several"

\* The customer_domains rows: one for each name a subscription was made under.
Taken == {n \in Names : \E o \in Orders : subs[o][n] > 0}

(***************************************************************************)
(* A call: load, then commit or abort.                                     *)
(***************************************************************************)
Idle == [op |-> "idle"]
Ops == {"create", "submit", "claim", "confirm", "reject", "set_status",
        "activate", "retry", "verify"}

Init ==
    /\ order \in [Orders -> {Absent}]
    /\ subs = [o \in Orders |-> [n \in Under |-> 0]]
    /\ applied = [o \in Orders |-> 0]
    /\ req = [c \in Requests |-> Idle]
    /\ raced = {}
    /\ reopened = {}
    /\ calls = 0

\* The rows a call loads: create_order() and the transaction id check select
\* from the whole table.
ReadBy(op, o) == IF op \in {"create", "submit"} THEN Orders ELSE {o}

BeingCreated == {req[c].o : c \in {d \in Requests : req[d].op = "create"}}
Load(c, op, o) ==
    /\ req[c] = Idle
    /\ calls < MaxCalls
    /\ IF op = "create" THEN ~Exists(order[o]) /\ o \notin BeingCreated
                        ELSE Exists(order[o])
    /\ req' = [req EXCEPT ![c] =
                    [op |-> op, o |-> o, made |-> IF op = "retry" THEN Found(o) ELSE "unread",
                     seen |-> [p \in Orders |-> IF p \in ReadBy(op, o) THEN order[p] ELSE Absent]]]
    /\ calls' = calls + 1
    /\ UNCHANGED <<order, subs, applied, raced, reopened>>

\* A call that raises, returns early or dies: its session is rolled back.
Abort(c) ==
    /\ req[c] # Idle
    /\ req' = [req EXCEPT ![c] = Idle]
    /\ UNCHANGED <<order, subs, applied, raced, reopened, calls>>

Stale(q) == \E o \in ReadBy(q.op, q.o) : q.seen[o] # order[o]

\* Flush and commit; new are the rows as the session holds them.
Flush(c, new) ==
    LET q == req[c] IN
    /\ order' = [o \in Orders |-> MergeRow(order[o], q.seen[o], new[o])]
    /\ raced' = IF Stale(q) THEN raced \cup {o \in Orders : new[o] # q.seen[o]} \cup {q.o}
                            ELSE raced
    /\ req' = [req EXCEPT ![c] = Idle]
    /\ UNCHANGED calls
FlushRow(c, row) == Flush(c, [req[c].seen EXCEPT ![req[c].o] = row])

\* Slip: names of domain rows are not unique.
NewSubscriptionAnyName(o, name) == subs' = [subs EXCEPT ![o][name] = @ + 1]

\* The subscription, with its domain row, that _activate_hosting() inserts:
\* refused by the database when the name is taken.
NewSubscription(o, name) ==
    /\ name \notin Taken
    /\ subs' = [subs EXCEPT ![o][name] = @ + 1]
ApplyPaid(o) == applied' = [applied EXCEPT ![o] = @ + 1]
Reopen(o, cond) == reopened' = IF cond THEN reopened \cup {o} ELSE reopened
Closed == {"paid", "failed", "cancelled"}

(***************************************************************************)
(* Checkout.                                                               *)
(***************************************************************************)

\* Slip: an invoice the customer claims to have paid is left alone.
CancelledPending(rows) ==
    [o \in Orders |-> IF Hosting(o) /\ rows[o].pay = "pending"
                      THEN [rows[o] EXCEPT !.pay = "cancelled", !.prov = "cancelled"]
                      ELSE rows[o]]

\* _cancel_unpaid_hosting_orders()
Cancelled(rows) ==
    [o \in Orders |-> IF Hosting(o) /\ rows[o].pay \in {"pending", "submitted"}
                      THEN [rows[o] EXCEPT !.pay = "cancelled", !.prov = "cancelled"]
                      ELSE rows[o]]

\* create_order(), by the customer or (walk-in) by an operator, with or
\* without a domain name; create_renewal_payment(), create_upgrade_payment().
Create(c) ==
    LET q == req[c] IN
    /\ q.op = "create"
    /\ IF Hosting(q.o)
       THEN \E name \in Under, pay \in {"pending", "submitted"} :
                Flush(c, [Cancelled(q.seen) EXCEPT
                            ![q.o] = [Absent EXCEPT !.pay = pay, !.prov = "pending",
                                                    !.domain = name]])
       ELSE FlushRow(c, [Absent EXCEPT !.pay = "pending"])
    /\ UNCHANGED <<subs, applied, reopened>>

Gift(pay, name) ==
    [Absent EXCEPT !.pay = pay, !.prov = "active", !.method = "other", !.domain = name]

\* A checkout of total 0, and provision_for_customer() for a plan that is not
\* free: paid and delivered in the same transaction.  create_walk_in_order()
\* for a plan that costs nothing is one too, and sends what it has delivered
\* to billing: the order is submitted again.
CreateFree(c) ==
    LET q == req[c] IN
    /\ q.op = "create"
    /\ Hosting(q.o)
    /\ \E name \in Under, pay \in {"paid", "submitted"} :
        /\ Flush(c, [Cancelled(q.seen) EXCEPT ![q.o] = Gift(pay, name)])
        /\ NewSubscription(q.o, name)
        /\ Reopen(q.o, pay # "paid")
    /\ UNCHANGED applied

\* provision_for_customer() for a plan that costs nothing pays and delivers
\* what create_order() has paid and delivered: two subscriptions.  (Under a
\* name the second domain row is refused, and the call fails.)
ProvisionFree(c) ==
    LET q == req[c] IN
    /\ q.op = "create"
    /\ Hosting(q.o)
    /\ Flush(c, [Cancelled(q.seen) EXCEPT ![q.o] = Gift("paid", None)])
    /\ subs' = [subs EXCEPT ![q.o][None] = @ + 2]
    /\ Reopen(q.o, TRUE)
    /\ UNCHANGED applied

(***************************************************************************)
(* The customer says the invoice is paid.                                  *)
(***************************************************************************)

\* Slip: any transaction id is accepted.
SubmitMomoUnchecked(c) ==
    LET q == req[c]
        row == q.seen[q.o] IN
    /\ q.op = "submit"
    /\ row.pay # "paid"
    /\ \E txn \in Txns :
        FlushRow(c, [row EXCEPT !.txn = txn, !.pay = "submitted", !.method = "momo"])
    /\ Reopen(q.o, row.pay \in Closed)
    /\ UNCHANGED <<subs, applied>>

\* submit_momo_transaction()
SubmitMomo(c) ==
    LET q == req[c]
        row == q.seen[q.o] IN
    /\ q.op = "submit"
    /\ row.pay # "paid"
    /\ \E txn \in Txns :
        /\ \A o \in Orders \ {q.o} : q.seen[o].txn # txn
        /\ FlushRow(c, [row EXCEPT !.txn = txn, !.pay = "submitted", !.method = "momo"])
    /\ Reopen(q.o, row.pay \in Closed)
    /\ UNCHANGED <<subs, applied>>

\* claim_payment_submitted() without a transaction id
Claim(c) ==
    LET q == req[c]
        row == q.seen[q.o] IN
    /\ q.op = "claim"
    /\ row.pay # "paid"
    /\ FlushRow(c, [row EXCEPT !.pay = "submitted"])
    /\ Reopen(q.o, row.pay \in Closed)
    /\ UNCHANGED <<subs, applied>>

(***************************************************************************)
(* Billing staff.                                                          *)
(***************************************************************************)

\* confirm_payment(): whatever the status of the order is.
Confirm(c) ==
    LET q == req[c]
        row == q.seen[q.o] IN
    /\ q.op = "confirm"
    /\ \E method \in {row.method, "other"}, name \in {row.domain} \cup Names :
        LET paid == [row EXCEPT !.pay = "paid", !.method = method, !.domain = name] IN
        IF Hosting(q.o)
        THEN /\ FlushRow(c, [paid EXCEPT !.prov = "ready_for_activation"])
             /\ UNCHANGED applied
        ELSE /\ FlushRow(c, [paid EXCEPT !.prov = "active"])
             /\ ApplyPaid(q.o)
    /\ Reopen(q.o, row.pay = "paid")
    /\ UNCHANGED subs

\* Slips: a paid order is rejected; a status of its own for rejection.
RejectPaid(c) ==
    LET q == req[c]
        row == q.seen[q.o] IN
    /\ q.op = "reject"
    /\ FlushRow(c, [row EXCEPT !.pay = "failed"])
    /\ UNCHANGED <<subs, applied, reopened>>
RejectRenamed(c) ==
    LET q == req[c]
        row == q.seen[q.o] IN
    /\ q.op = "reject"
    /\ row.pay # "paid"
    /\ FlushRow(c, [row EXCEPT !.pay = "rejected"])
    /\ UNCHANGED <<subs, applied, reopened>>

\* reject_payment()
Reject(c) ==
    LET q == req[c]
        row == q.seen[q.o] IN
    /\ q.op = "reject"
    /\ row.pay # "paid"
    /\ FlushRow(c, [row EXCEPT !.pay = "failed"])
    /\ UNCHANGED <<subs, applied, reopened>>

\* update_order_payment_status(): a complimentary grant, or a method and a
\* status of the agent's choice.
SetStatus(c) ==
    LET q == req[c]
        row == q.seen[q.o]
        granted == [row EXCEPT !.pay = "paid", !.method = "other",
                               !.prov = IF @ = "pending" THEN "ready_for_activation" ELSE @]
    IN
    /\ q.op = "set_status"
    /\ \E base \in {granted, row, [row EXCEPT !.method = "momo"], [row EXCEPT !.method = "other"]} :
       \E pay \in PayStatus :
        /\ FlushRow(c, [base EXCEPT !.pay = pay])
        /\ Reopen(q.o, row.pay \in Closed /\ pay # row.pay)
    /\ UNCHANGED <<subs, applied>>

(***************************************************************************)
(* Delivery.                                                               *)
(***************************************************************************)

\* activate_hosting_by_operator(): the operator may give the order another
\* name, and always gives it one.  An order that is already active only
\* takes the name.  An upgrade is applied again.
Activate(c) ==
    LET q == req[c]
        row == q.seen[q.o] IN
    /\ q.op = "activate"
    /\ row.pay = "paid"
    /\ \E name \in Names :
        LET named == [row EXCEPT !.domain = name] IN
        \/ /\ row.prov = "active"
           /\ FlushRow(c, named)
           /\ UNCHANGED <<subs, applied>>
        \/ /\ row.prov # "active"
           /\ Hosting(q.o)
           /\ NewSubscription(q.o, name)
           /\ FlushRow(c, [named EXCEPT !.prov = "active"])
           /\ UNCHANGED applied
        \/ /\ row.prov # "active"
           /\ KindOf[q.o] = "upgrade"
           /\ ApplyPaid(q.o)
           /\ FlushRow(c, [named EXCEPT !.prov = "active"])
           /\ UNCHANGED subs
    /\ UNCHANGED reopened

\* retry_provision(): whatever the order is for.  It makes the subscription
\* if there is none, and provisions the one there is again; two are an error.
RetryProvision(c) ==
    LET q == req[c]
        row == q.seen[q.o] IN
    /\ q.op = "retry"
    /\ row.pay = "paid"
    /\ row.prov # "active"
    /\ \/ q.made = "none" /\ NewSubscription(q.o, row.domain)
       \/ q.made = "one" /\ UNCHANGED subs
    /\ FlushRow(c, [row EXCEPT !.prov = "active"])
    /\ UNCHANGED <<applied, reopened>>

\* Slip: a second notice of the same payment is taken for a payment.
VerifyAgain(c) ==
    LET q == req[c]
        row == q.seen[q.o] IN
    /\ q.op = "verify"
    /\ row.method # "momo"
    /\ IF Hosting(q.o)
       THEN NewSubscription(q.o, row.domain) /\ UNCHANGED applied
       ELSE ApplyPaid(q.o) /\ UNCHANGED subs
    /\ FlushRow(c, [row EXCEPT !.pay = "paid", !.prov = "active"])
    /\ UNCHANGED reopened

\* verify_and_activate(): the customer's return from Paystack, or its
\* webhook, which is delivered at least once.
Verify(c) ==
    LET q == req[c]
        row == q.seen[q.o] IN
    /\ q.op = "verify"
    /\ row.pay # "paid"
    /\ row.method # "momo"
    /\ IF Hosting(q.o)
       THEN NewSubscription(q.o, row.domain) /\ UNCHANGED applied
       ELSE ApplyPaid(q.o) /\ UNCHANGED subs
    /\ FlushRow(c, [row EXCEPT !.pay = "paid", !.prov = "active"])
    /\ UNCHANGED reopened

Step(c) ==
    \/ \E op \in Ops, o \in Orders : Load(c, op, o)
    \/ Create(c) \/ CreateFree(c) \/ ProvisionFree(c)
    \/ SubmitMomo(c) \/ Claim(c)
    \/ Confirm(c) \/ Reject(c) \/ SetStatus(c)
    \/ Activate(c) \/ RetryProvision(c) \/ Verify(c)
    \/ Abort(c)

Next == \E c \in Requests : Step(c)

Spec == Init /\ [][Next]_vars

(***************************************************************************)
(* Safety.                                                                 *)
(***************************************************************************)
CallState ==
    {Idle} \cup [op: Ops, o: Orders, seen: [Orders -> Row], made: {"unread", "none", "one", "several"}]

TypeOK ==
    /\ order \in [Orders -> Row]
    /\ subs \in [Orders -> [Under -> Nat]]
    /\ applied \in [Orders -> Nat]
    /\ req \in [Requests -> CallState]
    /\ raced \in SUBSET Orders
    /\ reopened \in SUBSET Orders
    /\ calls \in 0..MaxCalls

UnpaidHosting == {o \in Orders : Hosting(o) /\ order[o].pay \in {"pending", "submitted"}}
Untouched(o) == o \notin raced \cup reopened

SubscribedAs(o) == {n \in Under : subs[o][n] > 0}
Delivered(o) == applied[o] > 0 \/ SubscribedAs(o) # {}
DeliveredTwice(o) ==
    \/ applied[o] > 1
    \/ \E n \in Under : subs[o][n] > 1
    \/ \E n \in SubscribedAs(o) : applied[o] > 0 \/ \E m \in SubscribedAs(o) : m # n

\* However the calls of customer, staff and webhook interleave, an order no
\* call has reopened, paid again or raced on delivers its hosting, renewal or
\* upgrade at most once.
DeliveredOnce == \A o \in Orders : Untouched(o) => ~DeliveredTwice(o)

\* ... and what has been delivered is, and stays, paid.
DeliveredIsPaid ==
    \A o \in Orders : Untouched(o) /\ Delivered(o) => order[o].pay = "paid"

\* One Mobile Money payment is claimed for one invoice only.
TxnUsedOnce ==
    \A o, p \in Orders \ raced : order[o].txn = order[p].txn /\ order[o].txn # None => o = p

\* A checkout replaces the unpaid invoice before it.
UnpaidInvoiceReplaced ==
    \A o, p \in UnpaidHosting : Untouched(o) /\ Untouched(p) => o = p

\* No two subscriptions are created under one name, whatever was raced: the
\* unique domain row stops the second of two concurrent activations, and a
\* second activation of an order confirmed twice.
NameServedOnce ==
    \A n \in Names : \A o, p \in Orders :
        subs[o][n] <= 1 /\ (subs[o][n] = 1 /\ subs[p][n] = 1 => o = p)

================================================================================
