-------------------------------- MODULE Checkout --------------------------------
(***************************************************************************)
(* What the checkouts of several customers share: the student addresses    *)
(* (student_hostname.py) and a coupon (coupons.py).  create_order() is one *)
(* database transaction: it cancels the customer's unpaid invoices, takes  *)
(* an advisory lock on the surname, picks the first free address, checks   *)
(* the coupon, inserts the order and counts the redemption.  Nothing       *)
(* reserves an address but the order that carries it, for as long as it is *)
(* paid, or unpaid and less than 30 days old.                              *)
(*                                                                         *)
(* The calls that pay, claim, reject, activate and rename orders are one   *)
(* step here; how they race with each other is the subject of              *)
(* OrderPayments.  A call that loaded an order before a checkout cancelled *)
(* it writes it afterwards, as if it took a cancelled order.  Staff may    *)
(* enter an address, which nothing allocates, where they confirm or        *)
(* activate an order, for an order, and for an environment.                *)
(***************************************************************************)
EXTENDS Integers, Sequences, FiniteSets

CONSTANTS
    Customers,
    Orders,        \* orders, each a checkout to come
    Owner,         \* Owner[o]: the customer whose order it is
    Calls,         \* checkouts and renamings in progress at a time
    Hosts,         \* student addresses
    Wishes,        \* what customers ask for: a surname, or an address
    Asks,          \* Asks[o]: what is asked for in o's checkout and renamings; a
                   \* renewal, an upgrade, credits or a theme asks for nothing
    Entered,       \* Entered[o]: addresses that staff may enter for o
    Renames,       \* orders whose environment may be given another address
    Brings,        \* orders whose checkout brings the coupon
    Tries,         \* Tries[w]: the addresses tried for it, in order
    LockOf,        \* LockOf[w]: the key of the advisory lock
    Coupons        \* the coupon's row to begin with, one of these

None == "none"

ASSUME CheckoutAssumption ==
    /\ Owner \in [Orders -> Customers] /\ None \notin Orders \cup Hosts
    /\ Asks \in [Orders -> SUBSET Wishes] /\ Entered \in [Orders -> SUBSET Hosts]
    /\ Brings \subseteq Orders /\ Renames \subseteq Orders
    /\ Tries \in [Wishes -> Seq(Hosts)]
    /\ Coupons \subseteq [used : {0}, limit : Nat, each : Nat]

VARIABLES
    order,       \* rows of orders
    served,      \* served[h]: the order whose customer_domains row has the name
    coupon,      \* used: usage_count; limit, each: usage_limit, .._per_customer
    redeemed,    \* orders with a hosting_coupon_redemptions row
    call,        \* checkouts and renamings in progress
    loose,       \* history: orders that came to hold a name without allocating it
    together     \* history: customers whose checkouts checked the coupon at once

vars == <<order, served, coupon, redeemed, call, loose, together>>
tables == <<order, served, coupon, redeemed>>
history == <<loose, together>>

(***************************************************************************)
(* pay: open stands for pending and submitted, closed for cancelled and    *)
(* failed.  dropped: provisioning_status is cancelled or failed.  late:    *)
(* the 30 days of an order that has not been paid are over.                *)
(***************************************************************************)
Absent == [pay |-> None, dropped |-> FALSE, late |-> FALSE, name |-> None]
Row == [pay : {"open", "closed", "paid"}, dropped : BOOLEAN, late : BOOLEAN,
        name : Hosts \cup {None}]

Idle == [at |-> "idle"]
Call == [at : {"begun", "named", "priced", "written"}, kind : {"checkout", "rename"},
         o : Orders, wish : Wishes, name : Hosts \cup {None}, drops : SUBSET Orders,
         count : Nat]

TypeOK ==
    /\ order \in [Orders -> Row \cup {Absent}]
    /\ served \in [Hosts -> Orders \cup {None}]
    /\ coupon \in [used : 0 .. coupon.limit, limit : Nat, each : Nat]
    /\ redeemed \in SUBSET Orders
    /\ call \in [Calls -> Call \cup {Idle}]
    /\ loose \in SUBSET Orders
    /\ together \in SUBSET (Customers \X Customers)

Init ==
    /\ order = [o \in Orders |-> Absent]
    /\ served = [h \in Hosts |-> None]
    /\ coupon \in Coupons /\ redeemed = {}
    /\ call = [c \in Calls |-> Idle]
    /\ loose = {} /\ together = {}

Exists(o) == order[o].pay # None
Delivered(o) == \E h \in Hosts : served[h] = o
At(c, where) == call[c].at = where
Busy == {c \in Calls : ~ At(c, "idle")}
Uses(c) == call[c].kind = "checkout" /\ call[c].o \in Brings
Set(c, value) == call' = [call EXCEPT ![c] = value]

Renaming(customer) == \E c \in Busy : call[c].kind = "rename" /\ Owner[call[c].o] = customer

\* The orders a checkout has cancelled and not committed are locked.
Locked(o) == \E c \in Busy : o \in call[c].drops

-----------------------------------------------------------------------------
(***************************************************************************)
(* create_order(), up to the commit.                                       *)
(***************************************************************************)
Unpaid(customer) ==
    {o \in Orders : Owner[o] = customer /\ order[o].pay = "open" /\ Asks[o] # {}}

\* The checks of the plan, and _cancel_unpaid_hosting_orders().
Begin(c, o, w) ==
    /\ At(c, "idle")
    /\ ~ Exists(o) /\ \A d \in Busy : call[d].o # o
    /\ \A p \in Unpaid(Owner[o]) : ~ Locked(p)
    /\ Set(c, [at |-> "begun", kind |-> "checkout", o |-> o, wish |-> w, name |-> None,
               drops |-> Unpaid(Owner[o]), count |-> 0])
    /\ UNCHANGED <<tables, history>>

\* assign_student_hostname(): another address for an environment.
BeginRename(c, o, w) ==
    /\ At(c, "idle") /\ Delivered(o) /\ o \in Renames
    /\ \A d \in Busy : call[d].o # o
    /\ Set(c, [at |-> "begun", kind |-> "rename", o |-> o, wish |-> w, name |-> None,
               drops |-> {}, count |-> 0])
    /\ UNCHANGED <<tables, history>>

\* _lock(): held until the end of the transaction.
HasLock(c) == call[c].at \in {"named", "priced", "written"}

\* Slip: the lock ends with the statement that takes it.
LockReleased(c) == TRUE

LockIsFree(c) ==
    \A d \in Calls : HasLock(d) => LockOf[call[d].wish] # LockOf[call[c].wish]

\* The orders that _is_taken() counts.
Holds(row) == ~ row.dropped /\ (row.pay = "paid" \/ (row.pay = "open" /\ ~ row.late))

\* _is_taken(), as the session sees it: what it cancelled itself is cancelled.
IsTaken(c, h) ==
    \/ served[h] # None
    \/ \E p \in Orders \ call[c].drops : Holds(order[p]) /\ order[p].name = h

\* allocate() and claim().
Allocate(c) ==
    /\ At(c, "begun") /\ LockIsFree(c)
    /\ LET tries == Tries[call[c].wish] IN
       \E i \in 1 .. Len(tries) :
          /\ ~ IsTaken(c, tries[i])
          /\ \A j \in 1 .. i - 1 : IsTaken(c, tries[j])
          /\ Set(c, [call[c] EXCEPT !.at = "named", !.name = tries[i]])
    /\ UNCHANGED <<tables, history>>

\* Slip: the last use is one too many.
HasUsesToLimit == coupon.used <= coupon.limit

HasUses == coupon.used < coupon.limit

\* Slip: only what has been paid counts as used.
UsedByPayer(customer) == {o \in redeemed : Owner[o] = customer /\ order[o].pay = "paid"}

UsedBy(customer) == {o \in redeemed : Owner[o] = customer}

Checking(customer, c) ==
    {k \in Customers : \E d \in Busy \ {c} :
        Uses(d) /\ call[d].at \in {"priced", "written"} /\ Owner[call[d].o] = k}

\* validate_for_order()
Validate(c) ==
    /\ At(c, "named") /\ Uses(c)
    /\ LET customer == Owner[call[c].o] IN
       /\ HasUses /\ Cardinality(UsedBy(customer)) < coupon.each
       /\ together' = together \cup ({customer} \X Checking(customer, c))
    /\ Set(c, [call[c] EXCEPT !.at = "priced", !.count = coupon.used])
    /\ UNCHANGED <<tables, loose>>

\* The order is inserted; record_redemption() takes the coupon's row lock.
Insert(c) ==
    /\ HasLock(c) /\ call[c].kind = "checkout"
    /\ IF Uses(c)
       THEN /\ At(c, "priced")
            /\ \A d \in Busy : ~ (Uses(d) /\ At(d, "written"))
       ELSE At(c, "named")
    /\ Set(c, [call[c] EXCEPT !.at = "written"])
    /\ UNCHANGED <<tables, history>>

-----------------------------------------------------------------------------
(***************************************************************************)
(* The commit.  An order of total 0 is paid and delivered with it, unless  *)
(* the name has a domain row.                                              *)
(***************************************************************************)
Cancelled(row) == [row EXCEPT !.pay = "closed", !.dropped = TRUE]

\* Slip: the redemption of a free order is not counted.
RedeemUncounted(c, free) ==
    /\ redeemed' = redeemed \cup {call[c].o}
    /\ coupon' = IF free THEN coupon ELSE [coupon EXCEPT !.used = call[c].count + 1]

\* usage_count is computed from what was loaded when the coupon was checked.
Redeem(c, free) ==
    /\ redeemed' = redeemed \cup {call[c].o}
    /\ coupon' = [coupon EXCEPT !.used = call[c].count + 1]

Commit(c, free) ==
    /\ At(c, "written")
    /\ order' = [p \in Orders |->
           IF p = call[c].o
           THEN [pay |-> IF free THEN "paid" ELSE "open", dropped |-> FALSE,
                 late |-> FALSE, name |-> call[c].name]
           ELSE IF p \in call[c].drops THEN Cancelled(order[p]) ELSE order[p]]
    /\ IF free THEN /\ served[call[c].name] = None
                    /\ served' = [served EXCEPT ![call[c].name] = call[c].o]
               ELSE UNCHANGED served
    /\ IF Uses(c) THEN Redeem(c, free) ELSE UNCHANGED <<coupon, redeemed>>
    /\ Set(c, Idle)
    /\ UNCHANGED history

(***************************************************************************)
(* update_environment_subdomain(): the customer's domain row gets the new  *)
(* name, and so do the customer's orders of the old name, or of none.      *)
(* Several domain rows are an error.                                       *)
(***************************************************************************)
Domains(customer) == {h \in Hosts : served[h] # None /\ Owner[served[h]] = customer}

Moves(customer, old, h) ==
    /\ Domains(customer) = {old} /\ (served[h] = None \/ h = old)
    /\ served' = [served EXCEPT ![old] = None, ![h] = served[old]]

Followers(customer, old) ==
    {p \in Orders : Owner[p] = customer /\ Exists(p) /\ order[p].name \in {old, None}}

Follow(o, old, h) ==
    /\ served[old] = o /\ old # h /\ Moves(Owner[o], old, h)
    /\ \A p \in Followers(Owner[o], old) : ~ Locked(p)
    /\ order' = [p \in Orders |-> IF p \in Followers(Owner[o], old)
                                  THEN [order[p] EXCEPT !.name = h] ELSE order[p]]

\* The address is the one that the call has allocated.
Rename(c) ==
    /\ At(c, "named") /\ call[c].kind = "rename"
    /\ \E old \in Hosts : Follow(call[c].o, old, call[c].name)
    /\ Set(c, Idle)
    /\ UNCHANGED <<coupon, redeemed, history>>

\* An error, no address left, a coupon that is refused, a dead process.
Abort(c) ==
    /\ ~ At(c, "idle")
    /\ Set(c, Idle)
    /\ UNCHANGED <<tables, history>>

-----------------------------------------------------------------------------
(***************************************************************************)
(* What happens to orders meanwhile.                                       *)
(***************************************************************************)
\* An order that comes to hold a name here has not allocated it, unless the
\* name has been its own all along.
Put(o, row) ==
    /\ Exists(o) /\ ~ Locked(o)
    /\ order' = [order EXCEPT ![o] = row]
    /\ loose' = IF /\ Holds(row) /\ row.name # None
                   /\ ~ (Holds(order[o]) /\ row.name = order[o].name)
                   /\ served[row.name] # o
                THEN loose \cup {o} ELSE loose
    /\ UNCHANGED <<coupon, redeemed, call, together>>

\* create_renewal_payment() and the like: an order that carries no address.
Place(o) ==
    /\ ~ Exists(o) /\ Asks[o] = {}
    /\ order' = [order EXCEPT ![o] = [pay |-> "open", dropped |-> FALSE, late |-> FALSE,
                                     name |-> None]]
    /\ UNCHANGED <<served, coupon, redeemed, call, history>>

\* Thirty days: expires_at of an unpaid order has passed.
Expire(o) ==
    /\ order[o].pay = "open" /\ ~ order[o].late
    /\ Put(o, [order[o] EXCEPT !.late = TRUE])
    /\ UNCHANGED served

\* submit_momo_transaction() and claim_payment_submitted() reopen an order.
Claim(o) ==
    /\ order[o].pay = "closed"
    /\ Put(o, [order[o] EXCEPT !.pay = "open"])
    /\ UNCHANGED served

\* reject_payment()
Reject(o) ==
    /\ order[o].pay = "open"
    /\ Put(o, [order[o] EXCEPT !.pay = "closed"])
    /\ UNCHANGED served

Paid(row) == [row EXCEPT !.pay = "paid", !.late = FALSE]

\* confirm_payment(), whatever the status was and how old the order is.
Confirm(o, h) ==
    /\ order[o].pay # "paid"
    /\ Put(o, [Paid(order[o]) EXCEPT !.dropped = FALSE, !.name = h])
    /\ UNCHANGED served

\* update_order_payment_status() sets any status and leaves the other one.
SetStatus(o, pay) ==
    /\ order[o].pay # pay
    /\ Put(o, IF pay = "paid" THEN Paid(order[o]) ELSE [order[o] EXCEPT !.pay = pay])
    /\ UNCHANGED served

\* activate_hosting_by_operator() and retry_provision(): customer_domains has
\* a unique name.  An order that is active gets the name and nothing else.
Activate(o, h) ==
    /\ order[o].pay = "paid" /\ Asks[o] # {}
    /\ \/ /\ Delivered(o) /\ (order[o].dropped => h = order[o].name)
          /\ UNCHANGED served
       \/ /\ (Delivered(o) => order[o].dropped) /\ served[h] = None
          /\ served' = [served EXCEPT ![h] = o]
    /\ Put(o, [order[o] EXCEPT !.dropped = FALSE, !.name = h])

\* update_order_domain(): the customer's environment gets the name too.
EnterName(o, h) ==
    /\ Exists(o) /\ ~ Locked(o) /\ ~ Renaming(Owner[o])
    /\ order' = [order EXCEPT ![o].name = h]
    /\ IF Domains(Owner[o]) = {} THEN UNCHANGED served
       ELSE \E old \in Hosts : Moves(Owner[o], old, h)
    /\ loose' = loose \cup {o} \cup {served[g] : g \in Domains(Owner[o])}
    /\ UNCHANGED <<coupon, redeemed, call, together>>

\* update_environment_subdomain() with an address that staff enter: no lock is
\* taken, and the orders of others are not looked at.
RenameByStaff(o, h) ==
    /\ ~ Renaming(Owner[o])
    /\ \E old \in Hosts :
          /\ Follow(o, old, h)
          /\ loose' = loose \cup {o} \cup Followers(Owner[o], old)
    /\ UNCHANGED <<coupon, redeemed, call, together>>

\* provision_for_subscription() gives up: the order is marked failed.
Fail(o) ==
    /\ Delivered(o) /\ ~ order[o].dropped
    /\ Put(o, [order[o] EXCEPT !.dropped = TRUE])
    /\ UNCHANGED served

Next ==
    \/ \E c \in Calls, o \in Orders : \E w \in Asks[o] :
          Begin(c, o, w) \/ BeginRename(c, o, w)
    \/ \E c \in Calls :
          \/ Allocate(c) \/ Validate(c) \/ Insert(c) \/ Rename(c) \/ Abort(c)
          \/ \E free \in BOOLEAN : Commit(c, free)
    \/ \E o \in Orders :
          \/ Place(o) \/ Expire(o) \/ Claim(o) \/ Reject(o) \/ Fail(o)
          \/ \E h \in Entered[o] \cup {order[o].name} : Confirm(o, h) \/ Activate(o, h)
          \/ \E h \in Entered[o] : EnterName(o, h) \/ RenameByStaff(o, h)
          \/ \E pay \in {"open", "closed", "paid"} : SetStatus(o, pay)

Spec == Init /\ [][Next]_vars

-----------------------------------------------------------------------------
\* An address that is tried under two locks: "mensah2" is both the second
\* address for Mensah and the first for somebody called Mensah2.
TriedAs(h) == {w \in Wishes : \E i \in 1 .. Len(Tries[w]) : Tries[w][i] = h}
OneLock(h) == \A v, w \in TriedAs(h) : LockOf[v] = LockOf[w]

(***************************************************************************)
(* Two customers never hold one student address, however their checkouts   *)
(* and renamings interleave, unless one of them took it without allocating *)
(* it: by paying late, by reopening a closed order, or because staff have  *)
(* entered it.  This is said of the addresses that all who try them lock   *)
(* in the same way.                                                        *)
(***************************************************************************)
HostnameHeldOnce ==
    \A o, p \in Orders \ loose :
        /\ Owner[o] # Owner[p] /\ Holds(order[o]) /\ Holds(order[p])
        /\ order[o].name = order[p].name /\ order[o].name # None
        => ~ OneLock(order[o].name)

(***************************************************************************)
(* The coupon's count is the number of redemptions, which stays within the *)
(* limit, unless two checkouts checked it before either had committed.     *)
(***************************************************************************)
CouponWithinLimit ==
    together = {} => coupon.used = Cardinality(redeemed) /\ coupon.used <= coupon.limit

\* ... and the same for one customer, whatever others do meanwhile.
CustomerWithinLimit ==
    \A k \in Customers :
        <<k, k>> \notin together => Cardinality(UsedBy(k)) <= coupon.each

=================================================================================
