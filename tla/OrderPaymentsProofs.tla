--------------------------- MODULE OrderPaymentsProofs ---------------------------
(***************************************************************************)
(* What TLAPS proves of OrderPayments for any number of orders, names,     *)
(* transaction ids and concurrent calls, and any number of calls.          *)
(*                                                                         *)
(* A call that writes an order from a stale load puts it into raced.  An   *)
(* order outside raced' therefore either keeps its row, or gets the row    *)
(* the call computed, from the committed row (FlushIsSerial).              *)
(* OrderlyStep then says what one step may do to such an order: to what it *)
(* delivered (Keeps, Delivers), to its transaction id (TxnKept) and to its *)
(* being unpaid (UnpaidKept); the invariants follow from these alone.      *)
(***************************************************************************)
EXTENDS OrderPayments, TLAPS

USE KindAssumption, CallAssumption

-------------------------------------------------------------------------------
\* What Flush(c, new) is given: rows, changed only where they were loaded.
Computed(c, new) ==
    /\ req[c] # Idle
    /\ new \in [Orders -> Row]
    /\ \A o \in Orders : new[o] # req[c].seen[o] => o \in ReadBy(req[c].op, req[c].o)

LEMMA CallFields ==
    ASSUME TypeOK, NEW c \in Requests, req[c] # Idle
    PROVE  /\ req[c].op \in Ops
           /\ req[c].o \in Orders
           /\ req[c].seen \in [Orders -> Row]
BY DEF TypeOK, CallState

\* A call at work is not idle.
LEMMA Working ==
    ASSUME TypeOK, NEW c \in Requests, req[c].op \in Ops
    PROVE  req[c] # Idle
BY DEF Idle, Ops

LEMMA MergeType ==
    ASSUME NEW db \in Row, NEW loaded \in Row, NEW new \in Row
    PROVE  MergeRow(db, loaded, new) \in Row
BY DEF MergeRow, Column, Row

LEMMA MergeFresh ==
    ASSUME NEW db \in Row, NEW loaded \in Row, NEW new \in Row
    PROVE  /\ new = loaded => MergeRow(db, loaded, new) = db
           /\ loaded = db => MergeRow(db, loaded, new) = new
BY DEF MergeRow, Column, Row

\* An order outside raced' keeps its row, or it was loaded as it is now
\* committed and gets the row the call computed.
LEMMA FlushIsSerial ==
    ASSUME TypeOK, NEW c \in Requests, NEW new, Computed(c, new), Flush(c, new),
           NEW o \in Orders, o \notin raced'
    PROVE  /\ \/ new[o] = req[c].seen[o] /\ order'[o] = order[o]
              \/ order[o] = req[c].seen[o] /\ order'[o] = new[o]
           /\ o = req[c].o => order[o] = req[c].seen[o] /\ order'[o] = new[o]
           /\ o = req[c].o => \A p \in ReadBy(req[c].op, o) : order[p] = req[c].seen[p]
<1> DEFINE q == req[c]
<1>1. q.o \in Orders /\ q.seen \in [Orders -> Row] /\ q.op \in Ops
  BY CallFields DEF Computed
<1>2. order[o] \in Row /\ q.seen[o] \in Row /\ new[o] \in Row
  BY <1>1 DEF TypeOK, Computed
<1>3. order'[o] = MergeRow(order[o], q.seen[o], new[o])
  BY DEF Flush
<1>4. q.o \in ReadBy(q.op, q.o)
  BY <1>1 DEF ReadBy
<1>5. CASE Stale(q)
  <2>1. new[o] = q.seen[o] /\ o # q.o
    BY <1>5 DEF Flush
  <2> QED BY <2>1, <1>2, <1>3, MergeFresh
<1>6. CASE ~Stale(q)
  <2>1. \A p \in ReadBy(q.op, q.o) : q.seen[p] = order[p]
    BY <1>6 DEF Stale
  <2>2. CASE o \in ReadBy(q.op, q.o)
    BY <2>1, <2>2, <1>2, <1>3, MergeFresh
  <2>3. CASE o \notin ReadBy(q.op, q.o)
    <3>1. new[o] = q.seen[o] /\ o # q.o
      BY <2>3, <1>4 DEF Computed
    <3> QED BY <3>1, <1>2, <1>3, MergeFresh
  <2> QED BY <2>2, <2>3
<1> QED BY <1>5, <1>6

\* FlushRow() hands Flush() the loaded rows with one of them replaced.
LEMMA RowIsComputed ==
    ASSUME TypeOK, NEW c \in Requests, req[c] # Idle, NEW row \in Row
    PROVE  Computed(c, [req[c].seen EXCEPT ![req[c].o] = row])
BY CallFields DEF Computed, ReadBy

LEMMA FlushRowIsSerial ==
    ASSUME TypeOK, NEW c \in Requests, req[c] # Idle, NEW row \in Row, FlushRow(c, row),
           NEW o \in Orders, o \notin raced'
    PROVE  /\ o # req[c].o => order'[o] = order[o]
           /\ o = req[c].o => /\ order[o] = req[c].seen[o]
                              /\ order'[o] = row
                              /\ \A p \in ReadBy(req[c].op, o) : order[p] = req[c].seen[p]
<1> DEFINE new == [req[c].seen EXCEPT ![req[c].o] = row]
<1>1. Computed(c, new) /\ Flush(c, new)
  BY RowIsComputed DEF FlushRow
<1>2. req[c].o \in Orders /\ req[c].seen \in [Orders -> Row]
  BY CallFields
<1>3. /\ \/ new[o] = req[c].seen[o] /\ order'[o] = order[o]
         \/ order[o] = req[c].seen[o] /\ order'[o] = new[o]
      /\ o = req[c].o => order[o] = req[c].seen[o] /\ order'[o] = new[o]
      /\ o = req[c].o => \A p \in ReadBy(req[c].op, o) : order[p] = req[c].seen[p]
  BY <1>1, FlushIsSerial
<1>4. o # req[c].o => new[o] = req[c].seen[o]
  BY <1>2
<1>5. o = req[c].o => new[o] = row
  BY <1>2
<1> QED BY <1>3, <1>4, <1>5

-------------------------------------------------------------------------------
\* The rows the calls compute are rows.
LEMMA RowTypes ==
    ASSUME NEW row \in Row
    PROVE  /\ \A pay \in PayStatus : [row EXCEPT !.pay = pay] \in Row
           /\ \A prov \in ProvStatus : [row EXCEPT !.prov = prov] \in Row
           /\ \A method \in {"momo", "other"} : [row EXCEPT !.method = method] \in Row
           /\ \A name \in Under : [row EXCEPT !.domain = name] \in Row
           /\ \A txn \in Txns \cup {None} : [row EXCEPT !.txn = txn] \in Row
BY DEF Row, Under

LEMMA AbsentType == Absent \in Row
BY DEF Absent, Row, ProvStatus

LEMMA CancelledType ==
    ASSUME NEW rows \in [Orders -> Row]
    PROVE  Cancelled(rows) \in [Orders -> Row]
<1>1. ASSUME NEW o \in Orders
      PROVE  [rows[o] EXCEPT !.pay = "cancelled", !.prov = "cancelled"] \in Row
  BY DEF Row, PayStatus, ProvStatus
<1> QED BY <1>1 DEF Cancelled

\* A checkout computes rows, from a load of the whole table.
LEMMA CheckoutIsComputed ==
    ASSUME TypeOK, NEW c \in Requests, req[c].op = "create", NEW row \in Row
    PROVE  Computed(c, [Cancelled(req[c].seen) EXCEPT ![req[c].o] = row])
<1>1. req[c] # Idle
  BY Working DEF Ops
<1>2. req[c].o \in Orders /\ req[c].seen \in [Orders -> Row]
  BY <1>1, CallFields
<1> QED BY <1>1, <1>2, CancelledType DEF Computed, ReadBy

-------------------------------------------------------------------------------
\* The row each call but a checkout computes.
LEMMA SubmitRow ==
    ASSUME TypeOK, NEW c \in Requests, SubmitMomo(c)
    PROVE  \E txn \in Txns, row \in Row :
             /\ row = [req[c].seen[req[c].o] EXCEPT !.txn = txn, !.pay = "submitted", !.method = "momo"]
             /\ FlushRow(c, row)
             /\ \A o \in Orders \ {req[c].o} : req[c].seen[o].txn # txn
<1>1. req[c].o \in Orders /\ req[c].seen[req[c].o] \in Row
  BY Working, CallFields DEF SubmitMomo, Ops
<1>2. \A txn \in Txns :
        [req[c].seen[req[c].o] EXCEPT !.txn = txn, !.pay = "submitted", !.method = "momo"] \in Row
  BY <1>1 DEF Row, PayStatus
<1> QED BY <1>2 DEF SubmitMomo

LEMMA ConfirmRow ==
    ASSUME TypeOK, NEW c \in Requests, Confirm(c)
    PROVE  \E row \in Row :
             /\ FlushRow(c, row)
             /\ row.pay = "paid" /\ row.txn = req[c].seen[req[c].o].txn
             /\ IF Hosting(req[c].o) THEN UNCHANGED applied
                                     ELSE row.prov = "active" /\ ApplyPaid(req[c].o)
<1> DEFINE o == req[c].o
           row == req[c].seen[o]
           Paid(method, name) == [row EXCEPT !.pay = "paid", !.method = method, !.domain = name]
           Ready(method, name) == [Paid(method, name) EXCEPT !.prov = "ready_for_activation"]
           Done(method, name) == [Paid(method, name) EXCEPT !.prov = "active"]
<1>1. o \in Orders /\ row \in Row
  BY Working, CallFields DEF Confirm, Ops
<1>2. PICK method \in {row.method, "other"}, name \in {row.domain} \cup Names :
        IF Hosting(o) THEN FlushRow(c, Ready(method, name)) /\ UNCHANGED applied
                      ELSE FlushRow(c, Done(method, name)) /\ ApplyPaid(o)
  BY DEF Confirm
<1>3. /\ Ready(method, name) \in Row /\ Done(method, name) \in Row
      /\ Ready(method, name).pay = "paid" /\ Ready(method, name).txn = row.txn
      /\ Done(method, name).pay = "paid" /\ Done(method, name).txn = row.txn
      /\ Done(method, name).prov = "active"
  BY <1>1 DEF Row, PayStatus, ProvStatus
<1> HIDE DEF Ready, Done
<1> QED BY <1>2, <1>3

LEMMA SetStatusRow ==
    ASSUME TypeOK, NEW c \in Requests, SetStatus(c)
    PROVE  \E row \in Row :
             /\ FlushRow(c, row)
             /\ row.txn = req[c].seen[req[c].o].txn
             /\ row.prov = req[c].seen[req[c].o].prov \/ row.prov = "ready_for_activation"
             /\ req[c].seen[req[c].o].prov = "active" => row.prov = "active"
             /\ \/ row.pay = req[c].seen[req[c].o].pay
                \/ req[c].seen[req[c].o].pay \notin Closed
                \/ req[c].o \in reopened'
             /\ UNCHANGED <<subs, applied>>
<1> DEFINE o == req[c].o
           row == req[c].seen[o]
           granted == [row EXCEPT !.pay = "paid", !.method = "other",
                                  !.prov = IF @ = "pending" THEN "ready_for_activation" ELSE @]
           Bases == {granted, row, [row EXCEPT !.method = "momo"], [row EXCEPT !.method = "other"]}
<1>1. o \in Orders /\ row \in Row
  BY Working, CallFields DEF SetStatus, Ops
<1>2. PICK base \in Bases, pay \in PayStatus :
        FlushRow(c, [base EXCEPT !.pay = pay]) /\ Reopen(o, row.pay \in Closed /\ pay # row.pay)
  BY DEF SetStatus
<1>3. base \in Row /\ base.txn = row.txn /\ (base.prov = row.prov \/ base.prov = "ready_for_activation")
      /\ (row.prov = "active" => base.prov = "active")
  BY <1>1, <1>2 DEF Row, PayStatus, ProvStatus
<1>4. /\ [base EXCEPT !.pay = pay] \in Row /\ [base EXCEPT !.pay = pay].pay = pay
      /\ [base EXCEPT !.pay = pay].txn = base.txn /\ [base EXCEPT !.pay = pay].prov = base.prov
  BY <1>3 DEF Row
<1>5. pay = row.pay \/ row.pay \notin Closed \/ o \in reopened'
  BY <1>2, <1>1 DEF Reopen
<1> HIDE DEF Bases, granted
<1>6. UNCHANGED <<subs, applied>>
  BY DEF SetStatus
<1> QED BY <1>2, <1>3, <1>4, <1>5, <1>6

\* The subscriptions a call may add for its order.
MoreSubs(o) ==
    \/ \E name \in Under : NewSubscription(o, name)
    \/ subs' = [subs EXCEPT ![o][None] = @ + 2]

LEMMA CreateRow ==
    ASSUME TypeOK, NEW c \in Requests, Create(c) \/ CreateFree(c) \/ ProvisionFree(c)
    PROVE  /\ req[c].op = "create"
           /\ \E row \in Row :
                /\ row.txn = None
                /\ \/ /\ Hosting(req[c].o)
                      /\ Flush(c, [Cancelled(req[c].seen) EXCEPT ![req[c].o] = row])
                   \/ /\ ~Hosting(req[c].o)
                      /\ FlushRow(c, row)
                /\ reopened \subseteq reopened' /\ reopened' \subseteq reopened \cup {req[c].o}
                /\ UNCHANGED applied
                /\ \/ UNCHANGED subs
                   \/ /\ row.pay = "paid" /\ row.prov = "active"
                      /\ \E name \in Under : NewSubscription(req[c].o, name)
                   \/ req[c].o \in reopened' /\ MoreSubs(req[c].o)
<1> DEFINE o == req[c].o
           Draft(pay, name) == [Absent EXCEPT !.pay = pay, !.prov = "pending", !.domain = name]
           Other == [Absent EXCEPT !.pay = "pending"]
<1>1. \A pay \in {"pending", "submitted"}, name \in Under :
        Draft(pay, name) \in Row /\ Draft(pay, name).txn = None
  BY AbsentType DEF Absent, Row, PayStatus, ProvStatus, Under
<1>2. \A name \in Under, pay \in {"paid", "submitted"} :
        /\ Gift(pay, name) \in Row /\ Gift(pay, name).txn = None
        /\ Gift(pay, name).pay = pay /\ Gift(pay, name).prov = "active"
  BY AbsentType DEF Gift, Absent, Row, PayStatus, ProvStatus, Under
<1>3. Other \in Row /\ Other.txn = None
  BY AbsentType DEF Absent, Row, PayStatus
<1>4. CASE Create(c) /\ Hosting(o)
  <2>1. PICK pay \in {"pending", "submitted"}, name \in Under :
          Flush(c, [Cancelled(req[c].seen) EXCEPT ![o] = Draft(pay, name)])
    BY <1>4 DEF Create
  <2>2. req[c].op = "create" /\ UNCHANGED <<subs, applied, reopened>>
    BY <1>4 DEF Create
  <2> HIDE DEF Draft
  <2> QED BY <1>1, <1>4, <2>1, <2>2
<1>5. CASE Create(c) /\ ~Hosting(o)
  <2>1. FlushRow(c, Other) /\ req[c].op = "create" /\ UNCHANGED <<subs, applied, reopened>>
    BY <1>5 DEF Create
  <2> HIDE DEF Other
  <2> QED BY <1>3, <1>5, <2>1
<1>6. CASE CreateFree(c)
  <2>1. PICK name \in Under, pay \in {"paid", "submitted"} :
          /\ Flush(c, [Cancelled(req[c].seen) EXCEPT ![o] = Gift(pay, name)])
          /\ NewSubscription(o, name)
          /\ Reopen(o, pay # "paid")
    BY <1>6 DEF CreateFree
  <2>2. req[c].op = "create" /\ Hosting(o) /\ UNCHANGED applied
    BY <1>6 DEF CreateFree
  <2>3. /\ reopened \subseteq reopened' /\ reopened' \subseteq reopened \cup {o}
        /\ pay = "paid" \/ o \in reopened'
    BY <2>1 DEF Reopen
  <2>4. MoreSubs(o)
    BY <2>1 DEF MoreSubs
  <2> QED BY <1>2, <2>1, <2>2, <2>3, <2>4
<1>7. CASE ProvisionFree(c)
  <2>1. /\ req[c].op = "create" /\ Hosting(o) /\ UNCHANGED applied
        /\ Flush(c, [Cancelled(req[c].seen) EXCEPT ![o] = Gift("paid", None)])
        /\ MoreSubs(o)
    BY <1>7 DEF ProvisionFree, MoreSubs
  <2>2. /\ reopened \subseteq reopened' /\ reopened' \subseteq reopened \cup {o}
        /\ o \in reopened'
    BY <1>7 DEF ProvisionFree, Reopen
  <2>3. None \in Under
    BY DEF Under
  <2> QED BY <1>2, <2>1, <2>2, <2>3
<1> QED BY <1>4, <1>5, <1>6, <1>7

\* The calls that change one row and create or apply nothing.
LEMMA PlainRow ==
    ASSUME TypeOK, NEW c \in Requests, Claim(c) \/ Reject(c)
    PROVE  \E row \in Row :
             /\ FlushRow(c, row)
             /\ row.txn = req[c].seen[req[c].o].txn
             /\ req[c].seen[req[c].o].pay # "paid" /\ row.pay \in {"submitted", "failed"}
             /\ \/ row.pay = "failed"
                \/ req[c].seen[req[c].o].pay \notin Closed
                \/ req[c].o \in reopened'
             /\ reopened \subseteq reopened' /\ reopened' \subseteq reopened \cup {req[c].o}
             /\ UNCHANGED <<subs, applied>>
<1> DEFINE row == req[c].seen[req[c].o]
           Claimed == [row EXCEPT !.pay = "submitted"]
           Failed == [row EXCEPT !.pay = "failed"]
<1>1. req[c].o \in Orders /\ row \in Row
  BY Working, CallFields DEF Claim, Reject, Ops
<1>2. /\ Claimed \in Row /\ Claimed.pay = "submitted" /\ Claimed.txn = row.txn
      /\ Failed \in Row /\ Failed.pay = "failed" /\ Failed.txn = row.txn
  BY <1>1 DEF Row, PayStatus
<1>3. CASE Claim(c)
  <2>1. FlushRow(c, Claimed) /\ row.pay # "paid" /\ UNCHANGED <<subs, applied>>
    BY <1>3 DEF Claim
  <2>2. /\ row.pay \notin Closed \/ req[c].o \in reopened'
        /\ reopened \subseteq reopened' /\ reopened' \subseteq reopened \cup {req[c].o}
    BY <1>3 DEF Claim, Reopen
  <2> HIDE DEF Claimed
  <2> QED BY <1>2, <2>1, <2>2
<1>4. CASE Reject(c)
  <2>1. FlushRow(c, Failed) /\ row.pay # "paid" /\ UNCHANGED <<subs, applied, reopened>>
    BY <1>4 DEF Reject
  <2> HIDE DEF Failed
  <2> QED BY <1>2, <2>1
<1> QED BY <1>3, <1>4

\* The calls that deliver: what they load, and what they leave.
LEMMA DeliveredRow ==
    ASSUME TypeOK, NEW c \in Requests, Activate(c) \/ RetryProvision(c) \/ Verify(c)
    PROVE  /\ UNCHANGED reopened
           /\ \E row \in Row :
                /\ FlushRow(c, row)
                /\ row.txn = req[c].seen[req[c].o].txn
                /\ row.pay = "paid" /\ row.prov = "active"
                /\ \/ UNCHANGED <<subs, applied>>
                   \/ /\ ~(req[c].seen[req[c].o].pay = "paid" /\ req[c].seen[req[c].o].prov = "active")
                      /\ \/ /\ \E name \in Under : NewSubscription(req[c].o, name)
                            /\ UNCHANGED applied
                         \/ /\ ApplyPaid(req[c].o)
                            /\ UNCHANGED subs
<1> DEFINE o == req[c].o
           row == req[c].seen[o]
           Named(name) == [row EXCEPT !.domain = name]
           Active(name) == [Named(name) EXCEPT !.prov = "active"]
           Retried == [row EXCEPT !.prov = "active"]
           Verified == [row EXCEPT !.pay = "paid", !.prov = "active"]
<1>1. o \in Orders /\ row \in Row
  BY Working, CallFields DEF Activate, RetryProvision, Verify, Ops
<1>2. CASE Activate(c)
  <2>1. PICK name \in Names :
          \/ row.prov = "active" /\ FlushRow(c, Named(name)) /\ UNCHANGED <<subs, applied>>
          \/ /\ row.prov # "active" /\ FlushRow(c, Active(name))
             /\ \/ NewSubscription(o, name) /\ UNCHANGED applied
                \/ ApplyPaid(o) /\ UNCHANGED subs
    BY <1>2 DEF Activate
  <2>2. row.pay = "paid" /\ UNCHANGED reopened
    BY <1>2 DEF Activate
  <2>3. /\ Named(name) \in Row /\ Named(name).txn = row.txn
        /\ Named(name).pay = row.pay /\ Named(name).prov = row.prov
        /\ Active(name) \in Row /\ Active(name).txn = row.txn
        /\ Active(name).pay = row.pay /\ Active(name).prov = "active"
    BY <1>1 DEF Row, ProvStatus
  <2> HIDE DEF Named, Active
  <2> QED BY <2>1, <2>2, <2>3 DEF Under
<1>3. CASE RetryProvision(c)
  <2>1. /\ FlushRow(c, Retried) /\ row.pay = "paid" /\ row.prov # "active"
        /\ UNCHANGED <<applied, reopened>>
        /\ NewSubscription(o, row.domain) \/ UNCHANGED subs
    BY <1>3 DEF RetryProvision
  <2>2. /\ Retried \in Row /\ Retried.txn = row.txn
        /\ Retried.pay = row.pay /\ Retried.prov = "active" /\ row.domain \in Under
    BY <1>1 DEF Row, ProvStatus, Under
  <2> HIDE DEF Retried
  <2> QED BY <2>1, <2>2
<1>4. CASE Verify(c)
  <2>1. /\ FlushRow(c, Verified) /\ row.pay # "paid" /\ UNCHANGED reopened
        /\ \/ NewSubscription(o, row.domain) /\ UNCHANGED applied
           \/ ApplyPaid(o) /\ UNCHANGED subs
    BY <1>4 DEF Verify
  <2>2. /\ Verified \in Row /\ Verified.txn = row.txn
        /\ Verified.pay = "paid" /\ Verified.prov = "active" /\ row.domain \in Under
    BY <1>1 DEF Row, ProvStatus, PayStatus, Under
  <2> HIDE DEF Verified
  <2> QED BY <2>1, <2>2
<1> QED BY <1>2, <1>3, <1>4

-------------------------------------------------------------------------------
(***************************************************************************)
(* Type correctness.                                                       *)
(***************************************************************************)
LEMMA FlushType ==
    ASSUME TypeOK, NEW c \in Requests, NEW new, Computed(c, new), Flush(c, new)
    PROVE  /\ order' \in [Orders -> Row]
           /\ req' \in [Requests -> CallState]
           /\ raced' \in SUBSET Orders /\ raced \subseteq raced'
           /\ calls' \in 0..MaxCalls
<1>1. req[c].o \in Orders /\ req[c].seen \in [Orders -> Row]
  BY CallFields DEF Computed
<1>2. \A o \in Orders : MergeRow(order[o], req[c].seen[o], new[o]) \in Row
  BY <1>1, MergeType DEF TypeOK, Computed
<1>3. order' \in [Orders -> Row]
  BY <1>2 DEF Flush
<1>4. req' \in [Requests -> CallState]
  BY DEF Flush, TypeOK, CallState
<1>5. raced' \in SUBSET Orders /\ raced \subseteq raced'
  BY <1>1 DEF Flush, TypeOK
<1>6. calls' \in 0..MaxCalls
  BY DEF Flush, TypeOK
<1> QED BY <1>3, <1>4, <1>5, <1>6

\* What a committing call does to the tables it shares with the others.
LEMMA Commit ==
    ASSUME TypeOK, NEW c \in Requests, Step(c), ~Abort(c),
           ~\E op \in Ops, o \in Orders : Load(c, op, o)
    PROVE  /\ req[c] # Idle
           /\ \E new : Computed(c, new) /\ Flush(c, new)
           /\ reopened \subseteq reopened' /\ reopened' \subseteq reopened \cup {req[c].o}
           /\ UNCHANGED subs \/ MoreSubs(req[c].o)
           /\ UNCHANGED applied \/ ApplyPaid(req[c].o)
<1>1. req[c].op \in Ops
  BY DEF Step, Create, CreateFree, ProvisionFree, SubmitMomo, Claim, Confirm, Reject, SetStatus, Activate,
         RetryProvision, Verify, Ops
<1>2. req[c] # Idle
  BY <1>1, Working
<1>3. ASSUME NEW row \in Row, FlushRow(c, row)
      PROVE  \E new : Computed(c, new) /\ Flush(c, new)
  BY <1>2, <1>3, RowIsComputed DEF FlushRow
<1>4. CASE Create(c) \/ CreateFree(c) \/ ProvisionFree(c)
  BY <1>2, <1>3, <1>4, CreateRow, CheckoutIsComputed DEF MoreSubs
<1>5. CASE SubmitMomo(c)
  <2>1. /\ UNCHANGED <<subs, applied>>
        /\ reopened \subseteq reopened' /\ reopened' \subseteq reopened \cup {req[c].o}
    BY <1>5 DEF SubmitMomo, Reopen
  <2> QED BY <1>2, <1>3, <1>5, <2>1, SubmitRow
<1>6. CASE Claim(c) \/ Reject(c)
  BY <1>2, <1>3, <1>6, PlainRow
<1>7. CASE Confirm(c)
  <2>1. /\ UNCHANGED subs
        /\ reopened \subseteq reopened' /\ reopened' \subseteq reopened \cup {req[c].o}
    BY <1>7 DEF Confirm, Reopen
  <2> QED BY <1>2, <1>3, <1>7, <2>1, ConfirmRow
<1>8. CASE SetStatus(c)
  <2>1. reopened \subseteq reopened' /\ reopened' \subseteq reopened \cup {req[c].o}
    BY <1>8 DEF SetStatus, Reopen
  <2> QED BY <1>2, <1>3, <1>8, <2>1, SetStatusRow
<1>9. CASE Activate(c) \/ RetryProvision(c) \/ Verify(c)
  BY <1>2, <1>3, <1>9, DeliveredRow DEF MoreSubs
<1> QED BY <1>4, <1>5, <1>6, <1>7, <1>8, <1>9 DEF Step

LEMMA LoadType ==
    ASSUME TypeOK, NEW c \in Requests, NEW op \in Ops, NEW o \in Orders, Load(c, op, o)
    PROVE  TypeOK'
<1>1. Found(o) \in {"none", "one", "several"}
  BY DEF Found
<1>2. Absent \in Row
  BY AbsentType
<1>3. [p \in Orders |-> IF p \in ReadBy(op, o) THEN order[p] ELSE Absent] \in [Orders -> Row]
  BY <1>2 DEF TypeOK
<1>4. req' \in [Requests -> CallState]
  BY <1>1, <1>3 DEF Load, TypeOK, CallState
<1> QED BY <1>4 DEF Load, TypeOK

LEMMA StepType ==
    ASSUME TypeOK, [Next]_vars
    PROVE  TypeOK'
<1>1. ASSUME NEW c \in Requests, NEW op \in Ops, NEW o \in Orders, Load(c, op, o)
      PROVE  TypeOK'
  BY <1>1, LoadType
<1>2. ASSUME NEW c \in Requests, Abort(c)
      PROVE  TypeOK'
  BY <1>2 DEF Abort, TypeOK, CallState
<1>3. ASSUME NEW c \in Requests, Step(c), ~Abort(c),
             ~\E op \in Ops, o \in Orders : Load(c, op, o)
      PROVE  TypeOK'
  <2>1. req[c].o \in Orders
    BY <1>3, Commit, CallFields
  <2>2. subs' \in [Orders -> [Under -> Nat]]
    <3>1. UNCHANGED subs \/ MoreSubs(req[c].o)
      BY <1>3, Commit
    <3>0. CASE subs' = [subs EXCEPT ![req[c].o][None] = @ + 2]
      <4>1. [subs[req[c].o] EXCEPT ![None] = @ + 2] \in [Under -> Nat]
        BY <2>1 DEF TypeOK, Under
      <4>2. subs' = [subs EXCEPT ![req[c].o] = [subs[req[c].o] EXCEPT ![None] = @ + 2]]
        BY <3>0
      <4> QED BY <2>1, <4>1, <4>2 DEF TypeOK
    <3>2. ASSUME NEW name \in Under, NewSubscription(req[c].o, name)
          PROVE  subs' \in [Orders -> [Under -> Nat]]
      <4>1. [subs[req[c].o] EXCEPT ![name] = @ + 1] \in [Under -> Nat]
        BY <2>1 DEF TypeOK
      <4>2. subs' = [subs EXCEPT ![req[c].o] = [subs[req[c].o] EXCEPT ![name] = @ + 1]]
        BY <3>2 DEF NewSubscription
      <4> QED BY <2>1, <4>1, <4>2 DEF TypeOK
    <3> QED BY <3>0, <3>1, <3>2 DEF TypeOK, MoreSubs
  <2>3. applied' \in [Orders -> Nat]
    BY <1>3, Commit, <2>1 DEF TypeOK, ApplyPaid
  <2>4. reopened' \in SUBSET Orders
    BY <1>3, Commit, <2>1 DEF TypeOK
  <2> QED BY <1>3, Commit, FlushType, <2>2, <2>3, <2>4 DEF TypeOK
<1>4. CASE UNCHANGED vars
  BY <1>4 DEF vars, TypeOK
<1> QED BY <1>1, <1>2, <1>3, <1>4 DEF Next

LEMMA InitType == Init => TypeOK
BY AbsentType DEF Init, TypeOK, CallState

\* Every row, loaded row and call in progress is one the code can hold.
THEOREM TypeCorrect == Spec => []TypeOK
<1>1. TypeOK /\ [Next]_vars => TypeOK'
  BY StepType
<1> QED BY InitType, <1>1, PTL DEF Spec

-------------------------------------------------------------------------------
(***************************************************************************)
(* Names, which the database keeps unique whatever was raced.              *)
(***************************************************************************)
\* What a step does to the subscriptions: nothing, or one more under a name
\* that no domain row holds.
LEMMA SubsStep ==
    ASSUME TypeOK, [Next]_vars
    PROVE  \/ UNCHANGED subs
           \/ \E q \in Orders, name \in Under :
                /\ name \in Names => \A o \in Orders : subs[o][name] = 0
                /\ subs' = [subs EXCEPT ![q] = [subs[q] EXCEPT ![name] = @ + 1]]
           \/ \E q \in Orders : subs' = [subs EXCEPT ![q] = [subs[q] EXCEPT ![None] = @ + 2]]
<1>1. CASE UNCHANGED vars
  BY <1>1 DEF vars
<1>2. ASSUME NEW c \in Requests, Step(c), UNCHANGED subs
      PROVE  UNCHANGED subs
  BY <1>2
<1>3. ASSUME NEW c \in Requests, Step(c), ~UNCHANGED subs
      PROVE  \/ \E q \in Orders, name \in Under :
                /\ name \in Names => \A o \in Orders : subs[o][name] = 0
                /\ subs' = [subs EXCEPT ![q] = [subs[q] EXCEPT ![name] = @ + 1]]
             \/ \E q \in Orders :
                    subs' = [subs EXCEPT ![q] = [subs[q] EXCEPT ![None] = @ + 2]]
  <2>1. ~Abort(c) /\ ~\E op \in Ops, o \in Orders : Load(c, op, o)
    BY <1>3 DEF Abort, Load
  <2>2. MoreSubs(req[c].o)
    BY <1>3, <2>1, Commit
  <2>3. req[c].o \in Orders
    BY <1>3, <2>1, Commit, CallFields
  <2>4. ASSUME NEW name \in Under, NewSubscription(req[c].o, name)
        PROVE  /\ name \in Names => \A o \in Orders : subs[o][name] = 0
               /\ subs' = [subs EXCEPT ![req[c].o] = [subs[req[c].o] EXCEPT ![name] = @ + 1]]
    <3>1. name \in Names => \A o \in Orders : subs[o][name] = 0
      BY <2>4 DEF NewSubscription, Taken, TypeOK, Under
    <3> QED BY <2>4, <3>1 DEF NewSubscription
  <2>5. ASSUME subs' = [subs EXCEPT ![req[c].o][None] = @ + 2]
        PROVE  subs' = [subs EXCEPT ![req[c].o] = [subs[req[c].o] EXCEPT ![None] = @ + 2]]
    BY <2>5
  <2>6. CASE \E name \in Under : NewSubscription(req[c].o, name)
    BY <2>3, <2>4, <2>6
  <2>7. CASE subs' = [subs EXCEPT ![req[c].o][None] = @ + 2]
    BY <2>3, <2>5, <2>7
  <2> QED BY <2>2, <2>6, <2>7 DEF MoreSubs
<1> QED BY <1>1, <1>2, <1>3 DEF Next

\* No two subscriptions are ever created under one name.
THEOREM NamesServedOnce == Spec => []NameServedOnce
<1>1. Init => NameServedOnce
  BY DEF Init, NameServedOnce, Under
<1>2. TypeOK /\ NameServedOnce /\ [Next]_vars => NameServedOnce'
  <2> SUFFICES ASSUME TypeOK, NameServedOnce, [Next]_vars
               PROVE  NameServedOnce'
    OBVIOUS
  <2>1. CASE UNCHANGED subs
    BY <2>1 DEF NameServedOnce
  <2>2. ASSUME NEW q \in Orders, NEW name \in Under,
               name \in Names => \A o \in Orders : subs[o][name] = 0,
               subs' = [subs EXCEPT ![q] = [subs[q] EXCEPT ![name] = @ + 1]]
        PROVE  NameServedOnce'
    <3>1. subs \in [Orders -> [Under -> Nat]] /\ Names \subseteq Under
      BY DEF TypeOK, Under
    <3>2. \A n \in Names, o \in Orders :
            subs'[o][n] = IF o = q /\ n = name THEN 1 ELSE subs[o][n]
      BY <2>2, <3>1
    <3>3. \A n \in Names, o \in Orders : n = name => subs[o][n] = 0
      BY <2>2
    <3> QED BY <3>2, <3>3 DEF NameServedOnce
  <2>3. ASSUME NEW q \in Orders, subs' = [subs EXCEPT ![q] = [subs[q] EXCEPT ![None] = @ + 2]]
        PROVE  NameServedOnce'
    <3>1. \A n \in Names : n # None
      BY NameAssumption DEF None
    <3>2. \A n \in Names, o \in Orders : subs'[o][n] = subs[o][n]
      BY <2>3, <3>1 DEF TypeOK, Under
    <3> QED BY <3>2 DEF NameServedOnce
  <2> QED BY <2>1, <2>2, <2>3, SubsStep
<1> QED BY <1>1, <1>2, TypeCorrect, PTL DEF Spec

-------------------------------------------------------------------------------
(***************************************************************************)
(* What one step may do to an order that no call raced on or reopened.     *)
(***************************************************************************)
\* Orders are created once: only a checkout loads an order that is not there.
LoadedAsCalled ==
    \A c \in Requests : req[c] # Idle =>
        (req[c].op = "create" <=> ~Exists(req[c].seen[req[c].o]))

LEMMA LoadedStep ==
    ASSUME TypeOK, LoadedAsCalled, [Next]_vars
    PROVE  LoadedAsCalled'
<1>1. ASSUME NEW c \in Requests, req' = [req EXCEPT ![c] = Idle]
      PROVE  LoadedAsCalled'
  BY <1>1 DEF LoadedAsCalled, TypeOK, Exists
<1>2. ASSUME NEW c \in Requests, NEW op \in Ops, NEW o \in Orders, Load(c, op, o)
      PROVE  LoadedAsCalled'
  <2>1. o \in ReadBy(op, o)
    BY DEF ReadBy
  <2>2. /\ req'[c].op = op /\ req'[c].o = o /\ req'[c].seen[o] = order[o]
        /\ \A d \in Requests : d # c => req'[d] = req[d]
    BY <1>2, <2>1 DEF Load, TypeOK
  <2>3. op = "create" <=> ~Exists(order[o])
    BY <1>2 DEF Load
  <2> QED BY <2>2, <2>3 DEF LoadedAsCalled, Exists
<1>3. ASSUME NEW c \in Requests, Step(c), ~Abort(c),
             ~\E op \in Ops, o \in Orders : Load(c, op, o)
      PROVE  req' = [req EXCEPT ![c] = Idle]
  BY <1>3, Commit DEF Flush
<1>4. CASE UNCHANGED vars
  BY <1>4 DEF vars, LoadedAsCalled
<1> QED BY <1>1, <1>2, <1>3, <1>4 DEF Next, Abort

Served(row) == row.pay = "paid" /\ row.prov = "active"

\* The step delivers nothing for o, and o stays paid, or served, if it was.
Keeps(o) ==
    /\ subs'[o] = subs[o] /\ applied'[o] = applied[o]
    /\ order[o].pay = "paid" => order'[o].pay = "paid"
    /\ Served(order[o]) => Served(order'[o])

\* The step makes one delivery for o, which was not served and is now.
Delivers(o) ==
    /\ ~Served(order[o]) /\ Served(order'[o])
    /\ \/ /\ subs'[o] = subs[o]
          /\ applied'[o] = applied[o] + 1
       \/ /\ \E name \in Under : subs'[o] = [subs[o] EXCEPT ![name] = @ + 1]
          /\ applied'[o] = applied[o]

\* The transaction id of o stays, is cleared, or becomes one no other order has.
TxnKept(o) ==
    \/ order'[o].txn \in {order[o].txn, None}
    \/ \A p \in Orders \ {o} :
         /\ order[p].txn # order'[o].txn
         /\ p \notin raced' => order'[p].txn = order[p].txn

\* If o becomes an unpaid hosting invoice it becomes the only one.
Settled == raced \cup reopened
UnpaidKept(o) ==
    o \in UnpaidHosting' =>
        o \in UnpaidHosting \/ \A p \in UnpaidHosting' : p \notin Settled' => p = o

\* Other orders than the one a single-row call is about.
LEMMA BystanderStep ==
    ASSUME TypeOK, NEW c \in Requests, req[c] # Idle, NEW row \in Row, FlushRow(c, row),
           NEW o \in Orders, o \notin raced', o # req[c].o,
           UNCHANGED subs \/ MoreSubs(req[c].o),
           UNCHANGED applied \/ ApplyPaid(req[c].o)
    PROVE  Keeps(o) /\ TxnKept(o) /\ UnpaidKept(o)
<1>1. order'[o] = order[o]
  BY FlushRowIsSerial
<1>2. subs'[o] = subs[o]
  BY CallFields DEF MoreSubs, NewSubscription, TypeOK
<1>3. applied'[o] = applied[o]
  BY CallFields DEF ApplyPaid, TypeOK
<1>4. UnpaidKept(o)
  BY <1>1 DEF UnpaidKept, UnpaidHosting
<1> QED BY <1>1, <1>2, <1>3, <1>4 DEF Keeps, TxnKept

LEMMA SubmitStep ==
    ASSUME TypeOK, LoadedAsCalled, NEW c \in Requests, SubmitMomo(c),
           NEW o \in Orders, o \notin raced'
    PROVE  Keeps(o) /\ TxnKept(o) /\ (o \notin reopened' => UnpaidKept(o))
<1>1. PICK txn \in Txns, row \in Row :
         /\ row = [req[c].seen[req[c].o] EXCEPT !.txn = txn, !.pay = "submitted", !.method = "momo"]
         /\ FlushRow(c, row)
         /\ \A p \in Orders \ {req[c].o} : req[c].seen[p].txn # txn
  BY SubmitRow
<1>2. /\ req[c].op = "submit" /\ req[c].seen[req[c].o].pay # "paid" /\ UNCHANGED <<subs, applied>>
      /\ Reopen(req[c].o, req[c].seen[req[c].o].pay \in Closed)
  BY DEF SubmitMomo
<1>3. req[c] # Idle /\ req[c].o \in Orders /\ req[c].seen \in [Orders -> Row]
  BY <1>2, Working, CallFields DEF Ops
<1>4. CASE o # req[c].o
  BY <1>1, <1>2, <1>3, <1>4, BystanderStep
<1>5. CASE o = req[c].o
  <2>1. /\ order[o] = req[c].seen[o] /\ order'[o] = row
        /\ \A p \in Orders : order[p] = req[c].seen[p]
    BY <1>1, <1>2, <1>3, <1>5, FlushRowIsSerial DEF ReadBy
  <2>2. row.txn = txn /\ row.pay = "submitted"
    BY <1>1, <1>3 DEF Row
  <2>3. Keeps(o)
    BY <1>2, <1>5, <2>1 DEF Keeps, Served
  <2>4. ASSUME NEW p \in Orders \ {o}
        PROVE  /\ order[p].txn # order'[o].txn
               /\ p \notin raced' => order'[p].txn = order[p].txn
    BY <1>1, <1>3, <1>5, <2>1, <2>2, FlushRowIsSerial
  <2>5. ASSUME o \notin reopened'
        PROVE  order[o].pay \in {"pending", "submitted"}
    <3>1. order[o].pay \notin Closed
      BY <1>2, <1>5, <2>1, <2>5 DEF Reopen
    <3>2. order[o].pay # "absent"
      BY <1>2, <1>3, <1>5, <2>1 DEF LoadedAsCalled, Exists
    <3> QED BY <3>1, <3>2 DEF Closed, TypeOK, Row, PayStatus
  <2> QED BY <2>3, <2>4, <2>5 DEF TxnKept, UnpaidKept, UnpaidHosting
<1> QED BY <1>4, <1>5

LEMMA PlainStep ==
    ASSUME TypeOK, LoadedAsCalled, NEW c \in Requests, Claim(c) \/ Reject(c),
           NEW o \in Orders, o \notin raced'
    PROVE  TxnKept(o) /\ (o \notin reopened' => Keeps(o) /\ UnpaidKept(o))
<1>1. PICK row \in Row :
         /\ FlushRow(c, row)
         /\ row.txn = req[c].seen[req[c].o].txn
         /\ req[c].seen[req[c].o].pay # "paid" /\ row.pay \in {"submitted", "failed"}
         /\ \/ row.pay = "failed"
            \/ req[c].seen[req[c].o].pay \notin Closed
            \/ req[c].o \in reopened'
         /\ UNCHANGED <<subs, applied>>
  BY PlainRow
<1>2. req[c].op \in {"claim", "reject"}
  BY DEF Claim, Reject
<1>3. req[c] # Idle /\ req[c].o \in Orders /\ req[c].seen \in [Orders -> Row]
  BY <1>2, Working, CallFields DEF Ops
<1>4. CASE o # req[c].o
  BY <1>1, <1>3, <1>4, BystanderStep
<1>5. CASE o = req[c].o
  <2>1. order[o] = req[c].seen[o] /\ order'[o] = row
    BY <1>1, <1>3, <1>5, FlushRowIsSerial
  <2>2. Keeps(o) /\ TxnKept(o)
    BY <1>1, <1>5, <2>1 DEF Keeps, TxnKept, Served
  <2>3. ASSUME o \notin reopened', row.pay # "failed"
        PROVE  order[o].pay \in {"pending", "submitted"}
    <3>1. order[o].pay \notin Closed
      BY <1>1, <1>5, <2>1, <2>3
    <3>2. order[o].pay # "absent"
      BY <1>2, <1>3, <1>5, <2>1 DEF LoadedAsCalled, Exists
    <3> QED BY <3>1, <3>2 DEF Closed, TypeOK, Row, PayStatus
  <2> QED BY <2>1, <2>2, <2>3 DEF UnpaidKept, UnpaidHosting
<1> QED BY <1>4, <1>5

LEMMA SetStatusStep ==
    ASSUME TypeOK, LoadedAsCalled, NEW c \in Requests, SetStatus(c),
           NEW o \in Orders, o \notin raced'
    PROVE  TxnKept(o) /\ (o \notin reopened' => Keeps(o) /\ UnpaidKept(o))
<1>1. PICK row \in Row :
         /\ FlushRow(c, row)
         /\ row.txn = req[c].seen[req[c].o].txn
         /\ req[c].seen[req[c].o].prov = "active" => row.prov = "active"
         /\ \/ row.pay = req[c].seen[req[c].o].pay
            \/ req[c].seen[req[c].o].pay \notin Closed
            \/ req[c].o \in reopened'
         /\ UNCHANGED <<subs, applied>>
  BY SetStatusRow
<1>2. req[c].op = "set_status"
  BY DEF SetStatus
<1>3. req[c] # Idle /\ req[c].o \in Orders /\ req[c].seen \in [Orders -> Row]
  BY <1>2, Working, CallFields DEF Ops
<1>4. CASE o # req[c].o
  BY <1>1, <1>3, <1>4, BystanderStep
<1>5. CASE o = req[c].o
  <2>1. order[o] = req[c].seen[o] /\ order'[o] = row
    BY <1>1, <1>3, <1>5, FlushRowIsSerial
  <2>2. TxnKept(o)
    BY <1>1, <1>5, <2>1 DEF TxnKept
  <2>3. ASSUME o \notin reopened'
        PROVE  Keeps(o)
    BY <1>1, <1>5, <2>1, <2>3 DEF Keeps, Served, Closed
  <2>4. order[o].pay # "absent"
    BY <1>2, <1>3, <1>5, <2>1 DEF LoadedAsCalled, Exists
  <2>5. ASSUME o \notin reopened', row.pay \in {"pending", "submitted"}
        PROVE  order[o].pay \in {"pending", "submitted"}
    BY <1>1, <1>5, <2>1, <2>4, <2>5 DEF Closed, TypeOK, Row, PayStatus
  <2> QED BY <2>1, <2>2, <2>3, <2>5 DEF UnpaidKept, UnpaidHosting
<1> QED BY <1>4, <1>5

LEMMA ConfirmStep ==
    ASSUME TypeOK, NEW c \in Requests, Confirm(c), NEW o \in Orders, o \notin raced'
    PROVE  TxnKept(o) /\ (o \notin reopened' => (Keeps(o) \/ Delivers(o)) /\ UnpaidKept(o))
<1>1. PICK row \in Row :
         /\ FlushRow(c, row)
         /\ row.pay = "paid" /\ row.txn = req[c].seen[req[c].o].txn
         /\ IF Hosting(req[c].o) THEN UNCHANGED applied
                                 ELSE row.prov = "active" /\ ApplyPaid(req[c].o)
  BY ConfirmRow
<1>2. req[c].op = "confirm" /\ UNCHANGED subs /\ Reopen(req[c].o, req[c].seen[req[c].o].pay = "paid")
  BY DEF Confirm
<1>3. req[c] # Idle /\ req[c].o \in Orders
  BY <1>2, Working, CallFields DEF Ops
<1>4. CASE o # req[c].o
  <2>1. UNCHANGED applied \/ ApplyPaid(req[c].o)
    BY <1>1
  <2> QED BY <1>1, <1>2, <1>3, <1>4, <2>1, BystanderStep
<1>5. CASE o = req[c].o
  <2>1. order[o] = req[c].seen[o] /\ order'[o] = row
    BY <1>1, <1>3, <1>5, FlushRowIsSerial
  <2>2. TxnKept(o) /\ UnpaidKept(o)
    BY <1>1, <1>5, <2>1 DEF TxnKept, UnpaidKept, UnpaidHosting
  <2>3. ASSUME o \notin reopened'
        PROVE  Keeps(o) \/ Delivers(o)
    <3>1. order[o].pay # "paid"
      BY <1>2, <1>5, <2>1, <2>3 DEF Reopen
    <3>2. CASE Hosting(o)
      BY <1>1, <1>2, <1>5, <2>1, <3>1, <3>2 DEF Keeps, Served
    <3>3. CASE ~Hosting(o)
      <4>1. applied'[o] = applied[o] + 1
        BY <1>1, <1>5, <3>3 DEF ApplyPaid, TypeOK
      <4> QED BY <1>1, <1>2, <1>5, <2>1, <3>1, <3>3, <4>1 DEF Delivers, Served
    <3> QED BY <3>2, <3>3
  <2> QED BY <2>2, <2>3
<1> QED BY <1>4, <1>5

LEMMA DeliverStep ==
    ASSUME TypeOK, NEW c \in Requests, Activate(c) \/ RetryProvision(c) \/ Verify(c),
           NEW o \in Orders, o \notin raced'
    PROVE  TxnKept(o) /\ (Keeps(o) \/ Delivers(o)) /\ UnpaidKept(o)
<1>1. PICK row \in Row :
         /\ FlushRow(c, row)
         /\ row.txn = req[c].seen[req[c].o].txn
         /\ Served(row)
         /\ \/ UNCHANGED <<subs, applied>>
            \/ /\ ~Served(req[c].seen[req[c].o])
               /\ \/ /\ \E name \in Under : NewSubscription(req[c].o, name)
                     /\ UNCHANGED applied
                  \/ /\ ApplyPaid(req[c].o)
                     /\ UNCHANGED subs
  BY DeliveredRow DEF Served
<1>2. req[c] # Idle /\ req[c].o \in Orders
  BY Working, CallFields DEF Activate, RetryProvision, Verify, Ops
<1>3. CASE o # req[c].o
  <2>1. /\ UNCHANGED subs \/ MoreSubs(req[c].o)
        /\ UNCHANGED applied \/ ApplyPaid(req[c].o)
    BY <1>1 DEF MoreSubs
  <2> QED BY <1>1, <1>2, <1>3, <2>1, BystanderStep
<1>4. CASE o = req[c].o
  <2>1. order[o] = req[c].seen[o] /\ order'[o] = row
    BY <1>1, <1>2, <1>4, FlushRowIsSerial
  <2>2. TxnKept(o) /\ UnpaidKept(o)
    BY <1>1, <1>4, <2>1 DEF TxnKept, UnpaidKept, UnpaidHosting, Served
  <2>3. CASE UNCHANGED <<subs, applied>>
    BY <1>1, <2>1, <2>2, <2>3 DEF Keeps, Served
  <2>4. ASSUME NEW name \in Under, NewSubscription(o, name), UNCHANGED applied,
               ~Served(order[o])
        PROVE  Delivers(o)
    <3>1. subs'[o] = [subs[o] EXCEPT ![name] = @ + 1]
      BY <2>4 DEF NewSubscription, TypeOK
    <3> QED BY <1>1, <2>1, <2>4, <3>1 DEF Delivers
  <2>5. ASSUME ApplyPaid(o), UNCHANGED subs, ~Served(order[o])
        PROVE  Delivers(o)
    <3>1. applied'[o] = applied[o] + 1
      BY <2>5 DEF ApplyPaid, TypeOK
    <3> QED BY <1>1, <2>1, <2>5, <3>1 DEF Delivers
  <2> QED BY <1>1, <1>4, <2>1, <2>2, <2>3, <2>4, <2>5
<1> QED BY <1>3, <1>4

\* A checkout from a load that is still the committed table: the others'
\* unpaid invoices are cancelled.
LEMMA CheckoutStep ==
    ASSUME TypeOK, LoadedAsCalled, NEW c \in Requests,
           Create(c) \/ CreateFree(c) \/ ProvisionFree(c),
           NEW o \in Orders, o \notin raced'
    PROVE  TxnKept(o) /\ (o \notin reopened' => Keeps(o) \/ Delivers(o)) /\ UnpaidKept(o)
<1> DEFINE q == req[c]
<1>1. /\ q.op = "create" /\ UNCHANGED applied
      /\ \E row \in Row :
          /\ row.txn = None
          /\ \/ Hosting(q.o) /\ Flush(c, [Cancelled(q.seen) EXCEPT ![q.o] = row])
             \/ ~Hosting(q.o) /\ FlushRow(c, row)
          /\ \/ UNCHANGED subs
             \/ Served(row) /\ \E name \in Under : NewSubscription(q.o, name)
             \/ q.o \in reopened' /\ MoreSubs(q.o)
  BY CreateRow DEF Served
<1>2. PICK row \in Row :
         /\ row.txn = None
         /\ \/ Hosting(q.o) /\ Flush(c, [Cancelled(q.seen) EXCEPT ![q.o] = row])
            \/ ~Hosting(q.o) /\ FlushRow(c, row)
         /\ \/ UNCHANGED subs
            \/ Served(row) /\ \E name \in Under : NewSubscription(q.o, name)
            \/ q.o \in reopened' /\ MoreSubs(q.o)
  BY <1>1
<1>3. q # Idle /\ q.o \in Orders /\ q.seen \in [Orders -> Row]
  BY <1>1, Working, CallFields DEF Ops
<1>4. q.seen[q.o].pay = "absent"
  BY <1>1, <1>3 DEF LoadedAsCalled, Exists
<1>5. UNCHANGED subs \/ MoreSubs(q.o)
  BY <1>2 DEF MoreSubs
<1>6. CASE o = q.o
  <2>1. order[o].pay = "absent" /\ order'[o] = row
    <3> DEFINE new == [Cancelled(q.seen) EXCEPT ![q.o] = row]
    <3>1. CASE Hosting(q.o)
      <4>1. Computed(c, new) /\ Flush(c, new)
        BY <1>1, <1>2, <3>1, CheckoutIsComputed
      <4>2. new[q.o] = row
        BY <1>3 DEF Cancelled
      <4> HIDE DEF new
      <4> QED BY <1>3, <1>4, <1>6, <4>1, <4>2, FlushIsSerial
    <3>2. CASE ~Hosting(q.o)
      BY <1>2, <1>3, <1>4, <1>6, <3>2, FlushRowIsSerial
    <3> QED BY <3>1, <3>2
  <2>2. TxnKept(o)
    BY <1>2, <2>1 DEF TxnKept
  <2>3. ASSUME o \notin reopened'
        PROVE  Keeps(o) \/ Delivers(o)
    <3>1. CASE UNCHANGED subs
      BY <1>1, <2>1, <3>1 DEF Keeps, Served
    <3>2. ASSUME NEW name \in Under, NewSubscription(q.o, name), Served(row)
          PROVE  Delivers(o)
      <4>1. subs'[o] = [subs[o] EXCEPT ![name] = @ + 1]
        BY <1>6, <3>2 DEF NewSubscription, TypeOK
      <4> QED BY <1>1, <2>1, <3>2, <4>1 DEF Delivers, Served
    <3> QED BY <1>2, <1>6, <2>3, <3>1, <3>2
  <2>4. UnpaidKept(o)
    <3> SUFFICES ASSUME Hosting(o), NEW p \in UnpaidHosting', p \notin Settled', p # o
                 PROVE  FALSE
      BY DEF UnpaidKept, UnpaidHosting
    <3> DEFINE new == [Cancelled(q.seen) EXCEPT ![q.o] = row]
    <3>1. Computed(c, new) /\ Flush(c, new)
      BY <1>1, <1>2, <1>6, CheckoutIsComputed
    <3>2. p \in Orders /\ p \notin raced' /\ Hosting(p) /\ order'[p].pay \in {"pending", "submitted"}
      BY DEF UnpaidHosting, Settled, Hosting
    <3>3. new[p] = Cancelled(q.seen)[p]
      BY <1>3, <1>6, <3>2 DEF Cancelled
    <3>4. new[p].pay \notin {"pending", "submitted"}
      BY <1>3, <3>2, <3>3 DEF Cancelled, Row
    <3> HIDE DEF new
    <3>5. order[p] = q.seen[p]
      BY <1>1, <1>6, <3>1, <3>2, FlushIsSerial DEF ReadBy
    <3>6. order'[p] = new[p]
      BY <3>1, <3>2, <3>5, FlushIsSerial
    <3> QED BY <3>2, <3>4, <3>6
  <2> QED BY <2>2, <2>3, <2>4
<1>7. CASE o # q.o /\ Hosting(q.o)
  <2> DEFINE new == [Cancelled(q.seen) EXCEPT ![q.o] = row]
             gone == [q.seen[o] EXCEPT !.pay = "cancelled", !.prov = "cancelled"]
  <2>1. Computed(c, new) /\ Flush(c, new)
    BY <1>1, <1>2, <1>7, CheckoutIsComputed
  <2>2. \/ new[o] = q.seen[o]
        \/ q.seen[o].pay \in {"pending", "submitted"} /\ new[o] = gone
    BY <1>3, <1>7 DEF Cancelled
  <2> HIDE DEF new
  <2>3. \/ order'[o] = order[o]
        \/ order[o] = q.seen[o] /\ order[o].pay \in {"pending", "submitted"} /\ order'[o] = gone
    BY <2>1, <2>2, FlushIsSerial
  <2>4. gone.txn = q.seen[o].txn /\ gone.pay = "cancelled"
    BY <1>3 DEF Row
  <2> HIDE DEF gone
  <2>5. subs'[o] = subs[o]
    BY <1>3, <1>5, <1>7 DEF MoreSubs, NewSubscription, TypeOK
  <2>6. Keeps(o)
    BY <1>1, <2>3, <2>5 DEF Keeps, Served
  <2> QED BY <2>3, <2>4, <2>6 DEF TxnKept, UnpaidKept, UnpaidHosting
<1>8. CASE o # q.o /\ ~Hosting(q.o)
  BY <1>1, <1>2, <1>3, <1>5, <1>8, BystanderStep
<1> QED BY <1>6, <1>7, <1>8

\* Every step: the three facts the invariants follow from.
LEMMA OrderlyStep ==
    ASSUME TypeOK, LoadedAsCalled, [Next]_vars, NEW o \in Orders
    PROVE  /\ Settled \subseteq Settled' /\ raced \subseteq raced'
           /\ o \notin raced' => TxnKept(o)
           /\ o \notin Settled' => (Keeps(o) \/ Delivers(o)) /\ UnpaidKept(o)
<1>1. CASE UNCHANGED <<order, subs, applied, raced, reopened>>
  BY <1>1 DEF Settled, TxnKept, Keeps, UnpaidKept, UnpaidHosting
<1>2. ASSUME NEW c \in Requests, Step(c), ~Abort(c),
             ~\E op \in Ops, p \in Orders : Load(c, op, p)
      PROVE  /\ Settled \subseteq Settled' /\ raced \subseteq raced'
             /\ o \notin raced' => TxnKept(o)
             /\ o \notin Settled' => (Keeps(o) \/ Delivers(o)) /\ UnpaidKept(o)
  <2>1. Settled \subseteq Settled' /\ raced \subseteq raced'
    BY <1>2, Commit, FlushType DEF Settled
  <2>2. o \notin Settled' => o \notin raced' /\ o \notin reopened'
    BY DEF Settled
  <2> SUFFICES ASSUME o \notin raced'
               PROVE  /\ TxnKept(o)
                      /\ o \notin reopened' => (Keeps(o) \/ Delivers(o)) /\ UnpaidKept(o)
    BY <2>1, <2>2
  <2>3. CASE Create(c) \/ CreateFree(c) \/ ProvisionFree(c)
    BY <2>3, CheckoutStep
  <2>4. CASE SubmitMomo(c)
    BY <2>4, SubmitStep
  <2>5. CASE Claim(c) \/ Reject(c)
    BY <2>5, PlainStep
  <2>6. CASE Confirm(c)
    BY <2>6, ConfirmStep
  <2>7. CASE SetStatus(c)
    BY <2>7, SetStatusStep
  <2>8. CASE Activate(c) \/ RetryProvision(c) \/ Verify(c)
    BY <2>8, DeliverStep
  <2> QED BY <1>2, <2>3, <2>4, <2>5, <2>6, <2>7, <2>8 DEF Step
<1> QED BY <1>1, <1>2 DEF Next, Load, Abort, vars

-------------------------------------------------------------------------------
(***************************************************************************)
(* The invariants.                                                         *)
(***************************************************************************)
\* The strengthening of DeliveredIsPaid: what has been delivered is also
\* active, which is what stops the calls that deliver.
DeliveredIsServed ==
    \A o \in Orders : Untouched(o) /\ Delivered(o) => Served(order[o])

OrdersInv ==
    /\ LoadedAsCalled
    /\ DeliveredIsServed
    /\ DeliveredOnce
    /\ TxnUsedOnce
    /\ UnpaidInvoiceReplaced

LEMMA InitOrders == Init => OrdersInv
<1> SUFFICES ASSUME Init PROVE OrdersInv
  OBVIOUS
<1>1. \A o \in Orders : ~Delivered(o) /\ ~DeliveredTwice(o)
  <2>1. \A o \in Orders : applied[o] = 0 /\ \A n \in Under : subs[o][n] = 0
    BY DEF Init
  <2>2. ~(0 > 0) /\ ~(0 > 1)
    OBVIOUS
  <2>3. /\ \A o \in Orders : ~(applied[o] > 0) /\ ~(applied[o] > 1)
        /\ \A o \in Orders : \A n \in Under : ~(subs[o][n] > 0) /\ ~(subs[o][n] > 1)
    BY <2>1, <2>2, Zenon
  <2>4. \A o \in Orders : SubscribedAs(o) = {}
    BY <2>3, Zenon DEF SubscribedAs
  <2> QED BY <2>3, <2>4, Zenon DEF Delivered, DeliveredTwice
<1>2. \A o \in Orders : order[o].txn = None /\ order[o].pay = "absent"
  <2>1. \A o \in Orders : order[o] = Absent
    BY DEF Init
  <2>2. Absent.txn = None /\ Absent.pay = "absent"
    BY DEF Absent
  <2> QED BY <2>1, <2>2
<1>3. LoadedAsCalled
  BY DEF Init, LoadedAsCalled
<1>4. UnpaidHosting = {}
  BY <1>2 DEF UnpaidHosting
<1> QED
  BY <1>1, <1>2, <1>3, <1>4
  DEF OrdersInv, DeliveredIsServed, DeliveredOnce, TxnUsedOnce, UnpaidInvoiceReplaced

LEMMA DeliveryInvariant ==
    ASSUME TypeOK, OrdersInv, [Next]_vars
    PROVE  DeliveredIsServed' /\ DeliveredOnce'
<1> SUFFICES ASSUME NEW o \in Orders, Untouched(o)'
             PROVE  /\ Delivered(o)' => Served(order[o])'
                    /\ ~DeliveredTwice(o)'
  BY DEF DeliveredIsServed, DeliveredOnce
<1>1. Untouched(o) /\ (Keeps(o) \/ Delivers(o))
  BY OrderlyStep DEF OrdersInv, Untouched, Settled
<1>2. (Delivered(o) => Served(order[o])) /\ ~DeliveredTwice(o)
  BY <1>1 DEF OrdersInv, DeliveredIsServed, DeliveredOnce
<1>3. CASE Keeps(o)
  <2>1. SubscribedAs(o)' = SubscribedAs(o)
    BY <1>3 DEF Keeps, SubscribedAs
  <2>2. (Delivered(o)' <=> Delivered(o)) /\ (Served(order[o]) => Served(order[o])')
    BY <1>3, <2>1 DEF Keeps, Delivered
  <2>3. DeliveredTwice(o)' <=> DeliveredTwice(o)
    BY <1>3, <2>1 DEF Keeps, DeliveredTwice
  <2> QED BY <1>2, <2>2, <2>3
<1>4. CASE Delivers(o)
  <2>1. Served(order[o])' /\ ~Delivered(o)
    BY <1>2, <1>4 DEF Delivers
  <2>2. subs[o] \in [Under -> Nat] /\ applied[o] \in Nat
    BY DEF TypeOK
  <2>3. applied[o] = 0 /\ \A n \in Under : subs[o][n] = 0
    BY <2>1, <2>2 DEF Delivered, SubscribedAs
  <2>4. CASE subs'[o] = subs[o] /\ applied'[o] = applied[o] + 1
    BY <2>1, <2>3, <2>4 DEF DeliveredTwice, SubscribedAs
  <2>5. ASSUME NEW name \in Under, subs'[o] = [subs[o] EXCEPT ![name] = @ + 1],
               applied'[o] = applied[o]
        PROVE  ~DeliveredTwice(o)'
    <3>1. \A n \in Under : subs'[o][n] = IF n = name THEN 1 ELSE 0
      BY <2>2, <2>3, <2>5
    <3> QED BY <2>3, <2>5, <3>1 DEF DeliveredTwice, SubscribedAs
  <2> QED BY <1>4, <2>1, <2>4, <2>5 DEF Delivers
<1> QED BY <1>1, <1>3, <1>4

LEMMA TxnInvariant ==
    ASSUME TypeOK, OrdersInv, [Next]_vars
    PROVE  TxnUsedOnce'
<1> SUFFICES ASSUME NEW o \in Orders, NEW p \in Orders, o # p, o \notin raced', p \notin raced',
                    order'[o].txn = order'[p].txn, order'[o].txn # None
             PROVE  FALSE
  BY DEF TxnUsedOnce
<1>1. TxnKept(o) /\ TxnKept(p) /\ o \notin raced /\ p \notin raced
  BY OrderlyStep DEF OrdersInv
<1>2. order[o].txn = order[p].txn => order[o].txn = None
  BY <1>1 DEF OrdersInv, TxnUsedOnce
<1>3. CASE order'[o].txn = order[o].txn /\ order'[p].txn = order[p].txn
  BY <1>2, <1>3
<1>4. CASE order'[o].txn # order[o].txn
  BY <1>1, <1>4 DEF TxnKept
<1>5. CASE order'[p].txn # order[p].txn
  BY <1>1, <1>5 DEF TxnKept
<1> QED BY <1>3, <1>4, <1>5

LEMMA UnpaidInvariant ==
    ASSUME TypeOK, OrdersInv, [Next]_vars
    PROVE  UnpaidInvoiceReplaced'
<1> SUFFICES ASSUME NEW o \in UnpaidHosting', NEW p \in UnpaidHosting', o # p,
                    Untouched(o)', Untouched(p)'
             PROVE  FALSE
  BY DEF UnpaidInvoiceReplaced
<1>1. o \in Orders /\ p \in Orders /\ o \notin Settled' /\ p \notin Settled'
  BY DEF UnpaidHosting, Untouched, Settled
<1>2. UnpaidKept(o) /\ UnpaidKept(p) /\ Untouched(o) /\ Untouched(p)
  BY <1>1, OrderlyStep DEF OrdersInv, Untouched, Settled
<1>3. o \in UnpaidHosting /\ p \in UnpaidHosting
  BY <1>1, <1>2 DEF UnpaidKept
<1> QED BY <1>2, <1>3 DEF OrdersInv, UnpaidInvoiceReplaced

LEMMA OrdersInvariant == Spec => [](TypeOK /\ OrdersInv)
<1>1. Init => TypeOK /\ OrdersInv
  BY InitType, InitOrders
<1>2. TypeOK /\ OrdersInv /\ [Next]_vars => (TypeOK /\ OrdersInv)'
  <2> SUFFICES ASSUME TypeOK, OrdersInv, [Next]_vars
               PROVE  TypeOK' /\ OrdersInv'
    OBVIOUS
  <2>1. LoadedAsCalled'
    BY LoadedStep DEF OrdersInv
  <2> QED BY <2>1, StepType, DeliveryInvariant, TxnInvariant, UnpaidInvariant DEF OrdersInv
<1> QED BY <1>1, <1>2, PTL DEF Spec

\* An order no call has raced on, reopened or paid again delivers at most once.
THEOREM DeliveredAtMostOnce == Spec => []DeliveredOnce
<1>1. OrdersInv => DeliveredOnce
  BY DEF OrdersInv
<1> QED BY <1>1, OrdersInvariant, PTL

\* ... and what it delivered is, and stays, paid.
THEOREM DeliveriesArePaid == Spec => []DeliveredIsPaid
<1>1. OrdersInv => DeliveredIsPaid
  BY DEF OrdersInv, DeliveredIsServed, DeliveredIsPaid, Served
<1> QED BY <1>1, OrdersInvariant, PTL

\* One Mobile Money payment is claimed for one invoice only.
THEOREM TxnsUsedOnce == Spec => []TxnUsedOnce
<1>1. OrdersInv => TxnUsedOnce
  BY DEF OrdersInv
<1> QED BY <1>1, OrdersInvariant, PTL

\* A checkout replaces the unpaid invoice before it.
THEOREM UnpaidInvoicesReplaced == Spec => []UnpaidInvoiceReplaced
<1>1. OrdersInv => UnpaidInvoiceReplaced
  BY DEF OrdersInv
<1> QED BY <1>1, OrdersInvariant, PTL
================================================================================
