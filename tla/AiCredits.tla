------------------------------- MODULE AiCredits -------------------------------
(***************************************************************************)
(* The AI credit wallet of one customer (credits.py) under concurrent      *)
(* requests.  Every call is one database transaction: it loads the wallet  *)
(* and the operation with plain SELECTs, computes in memory, writes them   *)
(* with a flush, which takes the row locks, and commits.  A chat flushes   *)
(* the credit it reserves before it asks the model and so holds the wallet *)
(* row for as long as the answer takes; whoever loaded the wallet before   *)
(* the answer is committed waits, and then writes what it had computed.    *)
(*                                                                         *)
(* An UPDATE writes the columns the session changed: charges write         *)
(* credits_remaining and lifetime_used, top-ups credits_remaining and      *)
(* total_allocated.  Wallets are created with the customer; the creation   *)
(* of a missing one in get_account is left out.                            *)
(***************************************************************************)
EXTENDS Integers, FiniteSets, Sums

CONSTANTS
    Ops,           \* AI operations
    Calls,         \* requests in progress at a time
    Initial,       \* credits of the plan
    Amount,        \* credits of a top-up
    MaxPerChat,    \* MAX_CREDITS_PER_CHAT
    MaxTopUps      \* bound: top-ups

ASSUME CreditAssumption ==
    /\ Initial \in Nat /\ Amount \in Nat \ {0}
    /\ MaxPerChat \in Nat \ {0} /\ MaxTopUps \in Nat
ASSUME OpsAssumption == IsFiniteSet(Ops)

VARIABLES
    account,    \* the committed row of ai_credit_accounts
    op,         \* the committed rows of ai_operations
    call,       \* what each request has loaded and changed
    gaps,       \* history: ways in which charges were lost
    unbilled,   \* history: operations completed before they were charged
    topUps      \* bound: top-ups so far

vars == <<account, op, call, gaps, unbilled, topUps>>

Reserve == 1    \* CHAT_RESERVE_CREDITS, and the cost of any other operation

Chats == {"chat", "stream"}
Starts == Chats \cup {"stub", "gated"}
OpKinds == Starts \cup {"confirm", "complete"}
Gaps == {"stale", "topup", "twice"}

Account == [left : Nat, total : Nat, used : Nat]
OpStatus == {"none", "pending", "authorized", "running", "success", "failed"}
OpRow == [status : OpStatus, cost : 0 .. MaxPerChat]
NoOp == [status |-> "none", cost |-> 0]

(***************************************************************************)
(* at: what the call did last.  mine and row: its copies of the wallet and *)
(* of the operation of.  lost: the gaps that open if it commits.           *)
(***************************************************************************)
Idle == [at |-> "idle"]
Stages == {"found", "loaded", "written", "settled"}
OpCall == [at : Stages, kind : OpKinds, of : Ops,
           mine : Account, row : OpRow, lost : SUBSET Gaps]
TopUp == [at : Stages, kind : {"topup"}, mine : Account, lost : SUBSET Gaps]

TypeOK ==
    /\ account \in Account
    /\ op \in [Ops -> OpRow]
    /\ call \in [Calls -> OpCall \cup TopUp \cup {Idle}]
    /\ gaps \subseteq Gaps
    /\ unbilled \subseteq Ops
    /\ topUps \in 0 .. MaxTopUps

Init ==
    /\ account = [left |-> Initial, total |-> Initial, used |-> 0]
    /\ op = [o \in Ops |-> NoOp]
    /\ call = [c \in Calls |-> Idle]
    /\ gaps = {} /\ unbilled = {}
    /\ topUps = 0

At(c, where) == call[c].at = where
Busy == {c \in Calls : ~ At(c, "idle")}
OnAccount(c) == call[c].kind \notin {"gated", "complete"}
OnOp(c) == call[c].kind # "topup"
Set(c, value) == call' = [call EXCEPT ![c] = value]
Unsaved == UNCHANGED <<account, op, gaps, unbilled>>

(***************************************************************************)
(* Row locks: the rows a call has written and not yet committed.           *)
(***************************************************************************)
MayWrite(c) ==
    \A d \in {d \in Calls \ {c} : call[d].at \in {"written", "settled"}} :
        /\ ~ (OnAccount(c) /\ OnAccount(d))
        /\ ~ (OnOp(c) /\ OnOp(d) /\ call[c].of = call[d].of)

-----------------------------------------------------------------------------
(***************************************************************************)
(* start_operation: levels 1-2 (stub) and chats are charged at once and    *)
(* run; levels 3-4 (gated) wait for a confirmation.                        *)
(***************************************************************************)
\* Slip: the balance is compared with what was ever bought.
AffordsAnything(a, cost) == a.total >= cost

Affords(a, cost) == a.left >= cost

StartOperation(c, kind, o) ==
    /\ At(c, "idle") /\ kind \in Starts
    /\ op[o] = NoOp /\ \A d \in Busy : ~ (OnOp(d) /\ call[d].of = o)
    /\ Affords(account, Reserve)
    /\ Set(c, [at |-> "loaded", kind |-> kind, of |-> o, mine |-> account,
               row |-> [status |-> IF kind = "gated" THEN "pending" ELSE "running",
                        cost |-> Reserve],
               lost |-> {}])
    /\ UNCHANGED topUps /\ Unsaved

(***************************************************************************)
(* grant_credits by staff and _activate_credits for a paid order.          *)
(***************************************************************************)
GrantCredits(c) ==
    /\ At(c, "idle") /\ topUps < MaxTopUps
    /\ Set(c, [at |-> "loaded", kind |-> "topup", mine |-> account, lost |-> {}])
    /\ topUps' = topUps + 1 /\ Unsaved

(***************************************************************************)
(* _get_op for confirm_operation and complete_operation.                   *)
(***************************************************************************)
Confirmable == {"pending", "authorized"}

GetOp(c, kind, o) ==
    /\ At(c, "idle") /\ op[o] # NoOp
    /\ \/ kind = "confirm" /\ op[o].status \in Confirmable
       \/ kind = "complete"
    /\ Set(c, [at |-> "found", kind |-> kind, of |-> o, mine |-> account,
               row |-> op[o], lost |-> {}])
    /\ UNCHANGED topUps /\ Unsaved

\* confirm_operation asserts the balance after it has looked at the status.
AssertCredits(c) ==
    /\ At(c, "found") /\ call[c].kind = "confirm"
    /\ Affords(account, call[c].row.cost)
    /\ Set(c, [call[c] EXCEPT !.at = "loaded", !.mine = account])
    /\ UNCHANGED topUps /\ Unsaved

-----------------------------------------------------------------------------
(***************************************************************************)
(* Flush: the row locks are taken and the UPDATEs made.                    *)
(***************************************************************************)
Charge(a, cost) == [left |-> a.left - cost, total |-> a.total, used |-> a.used + cost]
Credit(a) == [left |-> a.left + Amount, total |-> a.total + Amount, used |-> a.used]

\* What the write destroys, seen when the locks are held.
Lost(c) ==
    LET k == call[c].kind IN
    (IF call[c].mine = account THEN {}
     ELSE IF k = "topup" \/ call[c].mine.total # account.total
          THEN {"stale", "topup"} ELSE {"stale"})
    \cup (IF k = "confirm" /\ op[call[c].of].status \notin Confirmable
          THEN {"twice"} ELSE {})

FlushCharge(c) ==
    /\ At(c, "loaded") /\ call[c].kind \in Chats \cup {"stub", "confirm"} /\ MayWrite(c)
    /\ Set(c, [call[c] EXCEPT
               !.at = "written", !.lost = Lost(c),
               !.mine = Charge(@, call[c].row.cost),
               !.row.status = IF call[c].kind \in Chats THEN "running" ELSE "success"])
    /\ UNCHANGED topUps /\ Unsaved

FlushPending(c) ==
    /\ At(c, "loaded") /\ call[c].kind = "gated" /\ MayWrite(c)
    /\ Set(c, [call[c] EXCEPT !.at = "written"])
    /\ UNCHANGED topUps /\ Unsaved

FlushTopUp(c) ==
    /\ At(c, "loaded") /\ call[c].kind = "topup" /\ MayWrite(c)
    /\ Set(c, [call[c] EXCEPT !.at = "written", !.lost = Lost(c), !.mine = Credit(@)])
    /\ UNCHANGED topUps /\ Unsaved

\* complete_operation: whatever the status was, and without a charge.
CompleteOperation(c, success) ==
    /\ At(c, "found") /\ call[c].kind = "complete" /\ MayWrite(c)
    /\ Set(c, [call[c] EXCEPT !.at = "written",
               !.row.status = IF success THEN "success" ELSE "failed"])
    /\ UNCHANGED topUps /\ Unsaved

(***************************************************************************)
(* settle_chat_usage.  The model's answer costs actual credits: more than  *)
(* reserved is taken as far as the wallet goes.  A chat that fails is      *)
(* rolled back as a whole (Abort); a stream that fails is refunded.        *)
(***************************************************************************)
Extra(c, actual) ==
    LET delta == actual - call[c].row.cost IN
    IF delta > call[c].mine.left THEN call[c].mine.left ELSE delta

\* Slip: lifetime_used counts the reserve only.
SettledUnused(c, extra) ==
    [call[c] EXCEPT !.at = "settled", !.mine.left = @ - extra,
                    !.row = [status |-> "success", cost |-> @.cost + extra]]

\* Slip: the operation keeps its reserved cost.
SettledReserve(c, extra) ==
    [call[c] EXCEPT !.at = "settled", !.mine = Charge(@, extra), !.row.status = "success"]

Settled(c, extra) ==
    [call[c] EXCEPT !.at = "settled", !.mine = Charge(@, extra),
                    !.row = [status |-> "success", cost |-> @.cost + extra]]

SettleChatUsage(c, actual) ==
    /\ At(c, "written") /\ call[c].kind \in Chats
    /\ Set(c, Settled(c, Extra(c, actual)))
    /\ UNCHANGED topUps /\ Unsaved

RefundStream(c) ==
    /\ At(c, "written") /\ call[c].kind = "stream"
    /\ Set(c, [call[c] EXCEPT !.at = "settled", !.mine = Charge(@, - call[c].row.cost),
               !.row = [status |-> "failed", cost |-> 0]])
    /\ UNCHANGED topUps /\ Unsaved

-----------------------------------------------------------------------------
(***************************************************************************)
(* The end of the transaction.                                             *)
(***************************************************************************)
SaveTopUp(c) ==
    /\ account' = [account EXCEPT !.left = call[c].mine.left, !.total = call[c].mine.total]
    /\ UNCHANGED <<op, unbilled>>

SaveOperation(c) ==
    /\ account' = IF OnAccount(c)
                  THEN [account EXCEPT !.left = call[c].mine.left, !.used = call[c].mine.used]
                  ELSE account
    /\ op' = IF call[c].kind = "complete"
             THEN [op EXCEPT ![call[c].of].status = call[c].row.status]
             ELSE [op EXCEPT ![call[c].of] = call[c].row]
    /\ unbilled' = IF call[c].kind = "complete" /\ op[call[c].of].status \in Confirmable
                   THEN unbilled \cup {call[c].of} ELSE unbilled

Save(c) ==
    /\ IF OnOp(c) THEN SaveOperation(c) ELSE SaveTopUp(c)
    /\ gaps' = gaps \cup call[c].lost
    /\ Set(c, Idle) /\ UNCHANGED topUps

Commit(c) ==
    /\ IF At(c, "written") THEN call[c].kind \notin Chats ELSE At(c, "settled")
    /\ Save(c)

(***************************************************************************)
(* A stream whose session ends before it is settled: the client goes away, *)
(* or the framework (FastAPI 0.115 to 0.117) closes the session before the *)
(* body is sent, so that what is settled later is never committed.  The    *)
(* operation stays "running" and charged with its reserve.                 *)
(***************************************************************************)
CutShort(c) ==
    /\ At(c, "written") /\ call[c].kind = "stream"
    /\ Save(c)

\* An insufficient balance, a failed chat, a lost connection, a crash.
Abort(c) ==
    /\ ~ At(c, "idle")
    /\ Set(c, Idle) /\ UNCHANGED topUps /\ Unsaved

Next ==
    \E c \in Calls :
        \/ \E kind \in Starts, o \in Ops : StartOperation(c, kind, o)
        \/ \E kind \in {"confirm", "complete"}, o \in Ops : GetOp(c, kind, o)
        \/ GrantCredits(c) \/ AssertCredits(c)
        \/ FlushCharge(c) \/ FlushPending(c) \/ FlushTopUp(c)
        \/ \E success \in BOOLEAN : CompleteOperation(c, success)
        \/ \E actual \in 1 .. MaxPerChat : SettleChatUsage(c, actual)
        \/ RefundStream(c) \/ Commit(c) \/ CutShort(c) \/ Abort(c)

Spec == Init /\ [][Next]_vars

-----------------------------------------------------------------------------
(***************************************************************************)
(* Credits bought are credits left or used, unless a top-up and a charge   *)
(* overlapped: charges that overlap lose one of the two, balanced, but the *)
(* columns a top-up and a charge write are not the same, and a charge that *)
(* waits for a top-up writes the old balance over the new one.             *)
(***************************************************************************)
Conserved == "topup" \notin gaps => account.left + account.used = account.total

(***************************************************************************)
(* The credits used are those the operations say they cost, except for     *)
(* what was completed without a confirmation, if no call wrote over        *)
(* another and no operation was confirmed twice at once.                   *)
(***************************************************************************)
Billed == {o \in Ops : op[o].status \in {"running", "success", "failed"}} \ unbilled

ChargesAreRecorded ==
    gaps \cap {"stale", "twice"} = {} =>
        account.used = Total([o \in Ops |-> IF o \in Billed THEN op[o].cost ELSE 0])

=============================================================================
