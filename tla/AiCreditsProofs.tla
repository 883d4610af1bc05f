---------------------------- MODULE AiCreditsProofs ----------------------------
(***************************************************************************)
(* What TLAPS proves of AiCredits for any number of operations, concurrent *)
(* calls and top-ups, and any size of the plan and of a chat's cost.       *)
(*                                                                         *)
(* A balance that never becomes negative is part of the type, and takes    *)
(* what the calls have asserted before they charge (Covered).  That        *)
(* credits are conserved rests on the row locks (LocksHold): what a call   *)
(* found when it took the lock on the wallet is still there when it        *)
(* commits (CopiesOK), and so the two columns it does not write agree with *)
(* the two it writes, unless it opens the gap "topup".                     *)
(*                                                                         *)
(* That every charge is on record needs the copies a call has of its       *)
(* operation and of the wallet to fit the rows (RecordInv): what it has    *)
(* added to the wallet is what it has put on the operation, and no other   *)
(* call is about to settle that one.                                       *)
(***************************************************************************)
EXTENDS AiCredits, FiniteSetTheorems, TLAPS

USE CreditAssumption DEF CreditAssumption

Charges == Chats \cup {"stub", "confirm"}

\* What a call may still take from its copy of the wallet, or give back.
Covered ==
    \A c \in Calls :
        /\ At(c, "loaded") /\ call[c].kind \in Charges =>
              call[c].mine.left >= call[c].row.cost
        /\ call[c].at \in {"loaded", "written"} /\ call[c].kind \in Chats =>
              call[c].row.cost = Reserve
        /\ At(c, "written") /\ call[c].kind = "stream" =>
              call[c].mine.used >= call[c].row.cost

TypeInv == TypeOK /\ Covered

-------------------------------------------------------------------------------
\* A busy call is about an operation, or it is a top-up.
LEMMA CallShape ==
    ASSUME TypeOK, NEW c \in Calls, ~ At(c, "idle")
    PROVE  /\ call[c].at \in Stages /\ call[c].mine \in Account
           /\ call[c].lost \in SUBSET Gaps
           /\ OnOp(c) => call[c] \in OpCall
           /\ ~ OnOp(c) => call[c] \in TopUp /\ call[c].kind = "topup"
           /\ OnAccount(c) => call[c].kind \in Charges \cup {"topup"}
BY DEF TypeOK, At, Idle, OpCall, TopUp, OnOp, OnAccount, OpKinds, Starts, Chats, Charges

\* What Set() assigns, to the call and to the others.
LEMMA SetCall ==
    ASSUME TypeOK, NEW c \in Calls, NEW value, Set(c, value)
    PROVE  /\ call'[c] = value
           /\ \A d \in Calls \ {c} : call'[d] = call[d]
           /\ value \in OpCall \cup TopUp \cup {Idle} =>
                 call' \in [Calls -> OpCall \cup TopUp \cup {Idle}]
BY DEF TypeOK, Set

\* What Covered says of one call.
CoveredCall(q) ==
    /\ q.at = "loaded" /\ q.kind \in Charges => q.mine.left >= q.row.cost
    /\ q.at \in {"loaded", "written"} /\ q.kind \in Chats => q.row.cost = Reserve
    /\ q.at = "written" /\ q.kind = "stream" => q.mine.used >= q.row.cost

LEMMA CoveredByCall == Covered <=> \A c \in Calls : CoveredCall(call[c])
BY DEF Covered, CoveredCall, At

\* A step that gives one call a covered value keeps TypeInv, if the rows keep
\* their types.
LEMMA SetKeepsType ==
    ASSUME TypeInv, NEW c \in Calls, NEW value, Set(c, value),
           value \in OpCall \cup TopUp \cup {Idle}, CoveredCall(value)
    PROVE  /\ call' \in [Calls -> OpCall \cup TopUp \cup {Idle}]
           /\ Covered'
<1>1. /\ call'[c] = value /\ \A d \in Calls \ {c} : call'[d] = call[d]
      /\ call' \in [Calls -> OpCall \cup TopUp \cup {Idle}]
  BY SetCall DEF TypeInv
<1>2. \A d \in Calls : CoveredCall(call[d])
  BY CoveredByCall DEF TypeInv
<1>3. \A d \in Calls : CoveredCall(call'[d])
  BY <1>1, <1>2
<1>4. (\A d \in Calls : CoveredCall(call'[d])) => Covered'
  BY DEF Covered, CoveredCall, At
<1> QED BY <1>1, <1>3, <1>4

\* The same for a step that saves nothing.
LEMMA UnsavedKeepsType ==
    ASSUME TypeInv, NEW c \in Calls, NEW value, Set(c, value), Unsaved,
           topUps' \in 0 .. MaxTopUps,
           value \in OpCall \cup TopUp \cup {Idle}, CoveredCall(value)
    PROVE  TypeInv'
BY SetKeepsType DEF TypeInv, TypeOK, Unsaved

LEMMA IdleCovered == CoveredCall(Idle) /\ Idle.at = "idle"
BY DEF CoveredCall, Idle

-------------------------------------------------------------------------------
LEMMA ChargeType ==
    ASSUME NEW a \in Account, NEW cost \in Int, a.left >= cost, a.used + cost >= 0
    PROVE  /\ Charge(a, cost) \in Account
           /\ Charge(a, cost).left = a.left - cost
           /\ Charge(a, cost).used = a.used + cost
           /\ Charge(a, cost).total = a.total
BY DEF Charge, Account

LEMMA CreditType ==
    ASSUME NEW a \in Account
    PROVE  /\ Credit(a) \in Account
           /\ Credit(a).left = a.left + Amount
           /\ Credit(a).used = a.used
           /\ Credit(a).total = a.total + Amount
BY DEF Credit, Account

LEMMA LostType == ASSUME NEW c \in Calls PROVE Lost(c) \in SUBSET Gaps
BY DEF Lost, Gaps

LEMMA InitType == Init => TypeInv
<1> SUFFICES ASSUME Init PROVE TypeInv
  OBVIOUS
<1>1. \A c \in Calls : CoveredCall(call[c])
  BY IdleCovered DEF Init
<1>2. TypeOK
  BY DEF Init, TypeOK, Account, OpRow, NoOp, OpStatus
<1> QED BY <1>1, <1>2, CoveredByCall DEF TypeInv

LEMMA StartType ==
    ASSUME TypeInv, NEW c \in Calls, NEW kind \in Starts, NEW o \in Ops,
           StartOperation(c, kind, o)
    PROVE  TypeInv'
<1> DEFINE q == [at |-> "loaded", kind |-> kind, of |-> o, mine |-> account,
                 row |-> [status |-> IF kind = "gated" THEN "pending" ELSE "running",
                          cost |-> Reserve],
                 lost |-> {}]
<1>1. Set(c, q) /\ Unsaved /\ topUps' = topUps /\ account.left >= Reserve
  BY DEF StartOperation, Affords
<1>2. q.row \in OpRow
  BY DEF OpRow, OpStatus, Reserve
<1>3. account \in Account /\ topUps \in 0 .. MaxTopUps
  BY DEF TypeInv, TypeOK
<1>4. q \in OpCall
  BY <1>2, <1>3 DEF OpCall, Stages, OpKinds
<1>5. CoveredCall(q)
  BY <1>1, <1>3 DEF CoveredCall, Account, Reserve
<1> QED BY <1>1, <1>3, <1>4, <1>5, UnsavedKeepsType

LEMMA GrantType ==
    ASSUME TypeInv, NEW c \in Calls, GrantCredits(c)
    PROVE  TypeInv'
<1> DEFINE q == [at |-> "loaded", kind |-> "topup", mine |-> account, lost |-> {}]
<1>1. Set(c, q) /\ Unsaved /\ topUps' = topUps + 1 /\ topUps < MaxTopUps
  BY DEF GrantCredits
<1>2. account \in Account /\ topUps \in 0 .. MaxTopUps
  BY DEF TypeInv, TypeOK
<1>3. q \in TopUp
  BY <1>2 DEF TopUp, Stages
<1>4. CoveredCall(q)
  BY DEF CoveredCall, Charges, Chats
<1> QED BY <1>1, <1>2, <1>3, <1>4, UnsavedKeepsType

LEMMA GetOpType ==
    ASSUME TypeInv, NEW c \in Calls, NEW kind \in {"confirm", "complete"}, NEW o \in Ops,
           GetOp(c, kind, o)
    PROVE  TypeInv'
<1> DEFINE q == [at |-> "found", kind |-> kind, of |-> o, mine |-> account,
                 row |-> op[o], lost |-> {}]
<1>1. Set(c, q) /\ Unsaved /\ topUps' = topUps
  BY DEF GetOp
<1>2. account \in Account /\ op[o] \in OpRow /\ topUps \in 0 .. MaxTopUps
  BY DEF TypeInv, TypeOK
<1>3. q \in OpCall
  BY <1>2 DEF OpCall, Stages, OpKinds
<1>4. CoveredCall(q)
  BY DEF CoveredCall
<1> QED BY <1>1, <1>2, <1>3, <1>4, UnsavedKeepsType

LEMMA AssertType ==
    ASSUME TypeInv, NEW c \in Calls, AssertCredits(c)
    PROVE  TypeInv'
<1> DEFINE q == [call[c] EXCEPT !.at = "loaded", !.mine = account]
<1>1. /\ Set(c, q) /\ Unsaved /\ topUps' = topUps
      /\ call[c].at = "found" /\ call[c].kind = "confirm"
      /\ account.left >= call[c].row.cost
  BY DEF AssertCredits, At, Affords
<1>2. account \in Account /\ topUps \in 0 .. MaxTopUps /\ TypeOK
  BY DEF TypeInv, TypeOK
<1>3. call[c] \in OpCall
  BY <1>1, <1>2, CallShape DEF At, OnOp
<1>4. /\ q \in OpCall /\ q.at = "loaded" /\ q.mine = account
      /\ q.row = call[c].row /\ q.kind = "confirm"
  BY <1>1, <1>2, <1>3 DEF OpCall, Stages
<1>5. CoveredCall(q)
  BY <1>1, <1>4 DEF CoveredCall, Chats
<1> QED BY <1>1, <1>2, <1>4, <1>5, UnsavedKeepsType

LEMMA FlushChargeType ==
    ASSUME TypeInv, NEW c \in Calls, FlushCharge(c)
    PROVE  TypeInv'
<1> DEFINE status == IF call[c].kind \in Chats THEN "running" ELSE "success"
           q == [call[c] EXCEPT !.at = "written", !.lost = Lost(c),
                                !.mine = Charge(@, call[c].row.cost),
                                !.row.status = status]
<1>1. /\ Set(c, q) /\ Unsaved /\ topUps' = topUps
      /\ call[c].at = "loaded" /\ call[c].kind \in Charges
  BY DEF FlushCharge, At, Charges
<1>2. topUps \in 0 .. MaxTopUps /\ TypeOK /\ Covered
  BY DEF TypeInv, TypeOK
<1>3. call[c] \in OpCall
  BY <1>1, <1>2, CallShape DEF At, OnOp, Charges, Chats
<1>4. /\ call[c].mine.left >= call[c].row.cost
      /\ call[c].kind \in Chats => call[c].row.cost = Reserve
  BY <1>1, <1>2, CoveredByCall DEF CoveredCall
<1>5. call[c].mine \in Account /\ call[c].row \in OpRow /\ call[c].row.cost \in Nat
  BY <1>3 DEF OpCall, OpRow
<1>6. /\ Charge(call[c].mine, call[c].row.cost) \in Account
      /\ Charge(call[c].mine, call[c].row.cost).used = call[c].mine.used + call[c].row.cost
      /\ call[c].mine.used \in Nat
  BY <1>4, <1>5, ChargeType DEF Account
<1>7. [call[c].row EXCEPT !.status = status] \in OpRow
  BY <1>5 DEF OpRow, OpStatus
<1>8. Lost(c) \in SUBSET Gaps
  BY LostType
<1>9. /\ q \in OpCall /\ q.at = "written" /\ q.kind = call[c].kind
      /\ q.mine = Charge(call[c].mine, call[c].row.cost)
      /\ q.row = [call[c].row EXCEPT !.status = status]
  BY <1>3, <1>6, <1>7, <1>8 DEF OpCall, Stages
<1>10. q.row.cost = call[c].row.cost
  BY <1>5, <1>9 DEF OpRow
<1>11. CoveredCall(q)
  BY <1>4, <1>5, <1>6, <1>9, <1>10 DEF CoveredCall
<1> QED BY <1>1, <1>2, <1>9, <1>11, UnsavedKeepsType

LEMMA FlushPendingType ==
    ASSUME TypeInv, NEW c \in Calls, FlushPending(c)
    PROVE  TypeInv'
<1> DEFINE q == [call[c] EXCEPT !.at = "written"]
<1>1. /\ Set(c, q) /\ Unsaved /\ topUps' = topUps
      /\ call[c].at = "loaded" /\ call[c].kind = "gated"
  BY DEF FlushPending, At
<1>2. topUps \in 0 .. MaxTopUps /\ TypeOK
  BY DEF TypeInv, TypeOK
<1>3. call[c] \in OpCall
  BY <1>1, <1>2, CallShape DEF At, OnOp
<1>4. q \in OpCall /\ q.at = "written" /\ q.kind = "gated"
  BY <1>1, <1>3 DEF OpCall, Stages
<1>5. CoveredCall(q)
  BY <1>4 DEF CoveredCall, Chats
<1> QED BY <1>1, <1>2, <1>4, <1>5, UnsavedKeepsType

LEMMA FlushTopUpType ==
    ASSUME TypeInv, NEW c \in Calls, FlushTopUp(c)
    PROVE  TypeInv'
<1> DEFINE q == [call[c] EXCEPT !.at = "written", !.lost = Lost(c), !.mine = Credit(@)]
<1>1. /\ Set(c, q) /\ Unsaved /\ topUps' = topUps
      /\ call[c].at = "loaded" /\ call[c].kind = "topup"
  BY DEF FlushTopUp, At
<1>2. topUps \in 0 .. MaxTopUps /\ TypeOK
  BY DEF TypeInv, TypeOK
<1>3. call[c] \in TopUp /\ call[c].mine \in Account
  BY <1>1, <1>2, CallShape DEF At, OnOp
<1>4. q \in TopUp /\ q.at = "written" /\ q.kind = "topup"
  BY <1>1, <1>3, CreditType, LostType DEF TopUp, Stages
<1>5. CoveredCall(q)
  BY <1>4 DEF CoveredCall, Chats
<1> QED BY <1>1, <1>2, <1>4, <1>5, UnsavedKeepsType

LEMMA CompleteType ==
    ASSUME TypeInv, NEW c \in Calls, NEW success \in BOOLEAN, CompleteOperation(c, success)
    PROVE  TypeInv'
<1> DEFINE status == IF success THEN "success" ELSE "failed"
           q == [call[c] EXCEPT !.at = "written", !.row.status = status]
<1>1. /\ Set(c, q) /\ Unsaved /\ topUps' = topUps
      /\ call[c].at = "found" /\ call[c].kind = "complete"
  BY DEF CompleteOperation, At
<1>2. topUps \in 0 .. MaxTopUps /\ TypeOK
  BY DEF TypeInv, TypeOK
<1>3. call[c] \in OpCall /\ call[c].row \in OpRow
  BY <1>1, <1>2, CallShape DEF At, OnOp, OpCall
<1>4. [call[c].row EXCEPT !.status = status] \in OpRow
  BY <1>3 DEF OpRow, OpStatus
<1>5. q \in OpCall /\ q.at = "written" /\ q.kind = "complete"
  BY <1>1, <1>3, <1>4 DEF OpCall, Stages
<1>6. CoveredCall(q)
  BY <1>5 DEF CoveredCall, Chats
<1> QED BY <1>1, <1>2, <1>5, <1>6, UnsavedKeepsType

\* A settlement never takes more than the wallet's copy holds, nor lets the
\* operation cost more than the limit.
LEMMA ExtraBound ==
    ASSUME TypeInv, NEW c \in Calls, NEW actual \in 1 .. MaxPerChat,
           SettleChatUsage(c, actual)
    PROVE  /\ call[c] \in OpCall /\ Extra(c, actual) \in Nat
           /\ Extra(c, actual) <= call[c].mine.left
           /\ call[c].row.cost + Extra(c, actual) \in 0 .. MaxPerChat
<1>1. call[c].at = "written" /\ call[c].kind \in Chats /\ TypeOK
  BY DEF SettleChatUsage, At, TypeInv
<1>2. call[c] \in OpCall
  BY <1>1, CallShape DEF At, OnOp, Chats
<1>3. call[c].row.cost = 1
  BY <1>1, CoveredByCall DEF CoveredCall, TypeInv, Reserve
<1>4. call[c].mine.left \in Nat
  BY <1>2 DEF OpCall, Account
<1> QED BY <1>2, <1>3, <1>4 DEF Extra

LEMMA SettleType ==
    ASSUME TypeInv, NEW c \in Calls, NEW actual \in 1 .. MaxPerChat,
           SettleChatUsage(c, actual)
    PROVE  TypeInv'
<1> DEFINE extra == Extra(c, actual)
           q == Settled(c, extra)
<1>1. Set(c, q) /\ Unsaved /\ topUps' = topUps
  BY DEF SettleChatUsage
<1>2. /\ call[c] \in OpCall /\ extra \in Nat /\ extra <= call[c].mine.left
      /\ call[c].row.cost + extra \in 0 .. MaxPerChat
  BY ExtraBound
<1>3. topUps \in 0 .. MaxTopUps /\ call[c].mine \in Account /\ call[c].mine.used \in Nat
  BY <1>2 DEF TypeInv, TypeOK, OpCall, Account
<1>4. Charge(call[c].mine, extra) \in Account
  BY <1>2, <1>3, ChargeType
<1>5. [status |-> "success", cost |-> call[c].row.cost + extra] \in OpRow
  BY <1>2 DEF OpRow, OpStatus
<1>6. q \in OpCall /\ q.at = "settled"
  BY <1>2, <1>4, <1>5 DEF Settled, OpCall, Stages
<1>7. CoveredCall(q)
  BY <1>6 DEF CoveredCall
<1> QED BY <1>1, <1>3, <1>6, <1>7, UnsavedKeepsType

LEMMA RefundShape ==
    ASSUME TypeInv, NEW c \in Calls, RefundStream(c)
    PROVE  /\ call[c] \in OpCall /\ call[c].row.cost \in Nat
           /\ call[c].mine \in Account
           /\ call[c].mine.left >= - call[c].row.cost
           /\ call[c].mine.used + - call[c].row.cost >= 0
<1>1. call[c].at = "written" /\ call[c].kind = "stream" /\ TypeOK
  BY DEF RefundStream, At, TypeInv
<1>2. call[c] \in OpCall
  BY <1>1, CallShape DEF At, OnOp
<1>3. call[c].mine.used >= call[c].row.cost
  BY <1>1, CoveredByCall DEF CoveredCall, TypeInv
<1>4. /\ call[c].mine \in Account /\ call[c].row.cost \in Nat
      /\ call[c].mine.left \in Nat /\ call[c].mine.used \in Nat
  BY <1>2 DEF OpCall, Account, OpRow
<1> QED BY <1>2, <1>3, <1>4

LEMMA RefundType ==
    ASSUME TypeInv, NEW c \in Calls, RefundStream(c)
    PROVE  TypeInv'
<1> DEFINE q == [call[c] EXCEPT !.at = "settled", !.mine = Charge(@, - call[c].row.cost),
                                !.row = [status |-> "failed", cost |-> 0]]
<1>1. Set(c, q) /\ Unsaved /\ topUps' = topUps
  BY DEF RefundStream
<1>2. call[c] \in OpCall /\ topUps \in 0 .. MaxTopUps
  BY RefundShape DEF TypeInv, TypeOK
<1>3. Charge(call[c].mine, - call[c].row.cost) \in Account
  BY RefundShape, ChargeType
<1>4. [status |-> "failed", cost |-> 0] \in OpRow
  BY DEF OpRow, OpStatus
<1>5. q \in OpCall /\ q.at = "settled"
  BY <1>2, <1>3, <1>4 DEF OpCall, Stages
<1>6. CoveredCall(q)
  BY <1>5 DEF CoveredCall
<1> QED BY <1>1, <1>2, <1>5, <1>6, UnsavedKeepsType

LEMMA SaveType ==
    ASSUME TypeInv, NEW c \in Calls, ~ At(c, "idle"), Save(c)
    PROVE  TypeInv'
<1>1. TypeOK /\ Set(c, Idle) /\ topUps' = topUps
  BY DEF TypeInv, Save
<1>2. call' \in [Calls -> OpCall \cup TopUp \cup {Idle}] /\ Covered'
  BY <1>1, SetKeepsType, IdleCovered
<1>3. call[c].mine \in Account /\ call[c].lost \in SUBSET Gaps
  BY <1>1, CallShape
<1>4. gaps' \subseteq Gaps /\ topUps' \in 0 .. MaxTopUps
  BY <1>1, <1>3 DEF Save, TypeOK
<1>5. CASE ~ OnOp(c)
  <2>1. account' \in Account
    BY <1>1, <1>3, <1>5 DEF Save, SaveTopUp, Account, TypeOK
  <2>2. op' = op /\ unbilled' = unbilled
    BY <1>5 DEF Save, SaveTopUp
  <2> QED BY <1>1, <1>2, <1>4, <2>1, <2>2 DEF TypeInv, TypeOK
<1>6. CASE OnOp(c)
  <2>1. call[c] \in OpCall /\ call[c].of \in Ops /\ call[c].row \in OpRow
    BY <1>1, <1>6, CallShape DEF OpCall
  <2>2. account' \in Account
    BY <1>1, <1>3, <1>6 DEF Save, SaveOperation, Account, TypeOK
  <2>3. unbilled' \subseteq Ops
    BY <1>1, <1>6, <2>1 DEF Save, SaveOperation, TypeOK
  <2>4. [op[call[c].of] EXCEPT !.status = call[c].row.status] \in OpRow
    BY <1>1, <2>1 DEF OpRow, TypeOK
  <2>5. op' \in [Ops -> OpRow]
    BY <1>1, <1>6, <2>1, <2>4 DEF Save, SaveOperation, TypeOK
  <2> QED BY <1>1, <1>2, <1>4, <2>2, <2>3, <2>5 DEF TypeInv, TypeOK
<1> QED BY <1>5, <1>6

LEMMA AbortType ==
    ASSUME TypeInv, NEW c \in Calls, Abort(c)
    PROVE  TypeInv'
<1>1. Set(c, Idle) /\ Unsaved /\ topUps' = topUps /\ topUps \in 0 .. MaxTopUps
  BY DEF Abort, TypeInv, TypeOK
<1> QED BY <1>1, UnsavedKeepsType, IdleCovered

LEMMA NextType == TypeInv /\ [Next]_vars => TypeInv'
<1> SUFFICES ASSUME TypeInv, [Next]_vars PROVE TypeInv'
  OBVIOUS
<1>1. CASE UNCHANGED vars
  BY <1>1 DEF vars, TypeInv, TypeOK, Covered, At
<1>2. ASSUME NEW c \in Calls, NEW kind \in Starts, NEW o \in Ops, StartOperation(c, kind, o)
      PROVE  TypeInv'
  BY <1>2, StartType
<1>3. ASSUME NEW c \in Calls, NEW kind \in {"confirm", "complete"}, NEW o \in Ops,
             GetOp(c, kind, o)
      PROVE  TypeInv'
  BY <1>3, GetOpType
<1>4. ASSUME NEW c \in Calls,
             \/ GrantCredits(c) \/ AssertCredits(c)
             \/ FlushCharge(c) \/ FlushPending(c) \/ FlushTopUp(c)
             \/ RefundStream(c) \/ Abort(c)
      PROVE  TypeInv'
  BY <1>4, GrantType, AssertType, FlushChargeType, FlushPendingType, FlushTopUpType,
     RefundType, AbortType
<1>5. ASSUME NEW c \in Calls, NEW success \in BOOLEAN, CompleteOperation(c, success)
      PROVE  TypeInv'
  BY <1>5, CompleteType
<1>6. ASSUME NEW c \in Calls, NEW actual \in 1 .. MaxPerChat, SettleChatUsage(c, actual)
      PROVE  TypeInv'
  BY <1>6, SettleType
<1>7. ASSUME NEW c \in Calls, Commit(c) \/ CutShort(c)
      PROVE  TypeInv'
  BY <1>7, SaveType DEF Commit, CutShort, At
<1> QED BY <1>1, <1>2, <1>3, <1>4, <1>5, <1>6, <1>7 DEF Next

(***************************************************************************)
(* The wallet, the operations and what requests have loaded keep their     *)
(* types (credits.py); in particular no charge and no refund ever makes a  *)
(* balance or the credits used negative, and no chat costs more than       *)
(* MAX_CREDITS_PER_CHAT, however the requests interleave.                  *)
(***************************************************************************)
THEOREM TypeCorrect == Spec => []TypeOK
<1>1. TypeInv => TypeOK
  BY DEF TypeInv
<1> QED BY <1>1, InitType, NextType, PTL DEF Spec

-------------------------------------------------------------------------------
Locking(c) == call[c].at \in {"written", "settled"} /\ OnAccount(c)

\* The row lock on the wallet is held by one call at a time.
LocksHold ==
    \A c, d \in Calls : Locking(c) /\ Locking(d) => c = d

Balanced(a) == a.left + a.used = a.total

\* What the copies of busy calls have in common with the wallet.
CopyOK(c) ==
    /\ ~ At(c, "idle") => Balanced(call[c].mine)
    /\ Locking(c) /\ "topup" \notin call[c].lost =>
          IF OnOp(c) THEN call[c].mine.total = account.total
                     ELSE call[c].mine.used = account.used

CopiesOK ==
    "topup" \notin gaps => Balanced(account) /\ \A c \in Calls : CopyOK(c)

ConservedInv == LocksHold /\ CopiesOK

-------------------------------------------------------------------------------
\* A step of one call that saves nothing keeps ConservedInv if it has the
\* lock before it is locking, and its copy is in order.
LEMMA UnsavedConserves ==
    ASSUME TypeOK, ConservedInv, NEW c \in Calls, NEW value, Set(c, value), Unsaved,
           value.at \in {"written", "settled"} /\ value.kind \notin {"gated", "complete"} =>
              (MayWrite(c) /\ OnAccount(c)) \/ Locking(c),
           "topup" \notin gaps =>
              /\ value.at # "idle" => Balanced(value.mine)
              /\ /\ value.at \in {"written", "settled"}
                 /\ value.kind \notin {"gated", "complete"}
                 /\ "topup" \notin value.lost
                 => IF value.kind # "topup" THEN value.mine.total = account.total
                                            ELSE value.mine.used = account.used
    PROVE  ConservedInv'
<1>1. call'[c] = value /\ \A d \in Calls \ {c} : call'[d] = call[d]
  BY SetCall
<1>2. account' = account /\ gaps' = gaps
  BY DEF Unsaved
<1>3. \A d \in Calls \ {c} : Locking(d)' = Locking(d) /\ CopyOK(d)' = CopyOK(d)
  BY <1>1, <1>2 DEF Locking, CopyOK, OnAccount, OnOp, At
<1>4. Locking(c)' => \A d \in Calls \ {c} : ~ Locking(d)
  <2>1. ASSUME MayWrite(c), OnAccount(c), NEW d \in Calls \ {c}, Locking(d)
        PROVE  FALSE
    BY <2>1 DEF MayWrite, Locking
  <2>2. Locking(c)' => (MayWrite(c) /\ OnAccount(c)) \/ Locking(c)
    BY <1>1 DEF Locking, OnAccount
  <2>3. Locking(c) => \A d \in Calls \ {c} : ~ Locking(d)
    BY DEF ConservedInv, LocksHold
  <2> QED BY <2>1, <2>2, <2>3
<1>5. LocksHold'
  <2> SUFFICES ASSUME NEW d \in Calls, NEW e \in Calls, Locking(d)', Locking(e)', d # e
               PROVE  FALSE
    BY DEF LocksHold
  <2>1. CASE d = c
    BY <2>1, <1>3, <1>4
  <2>2. CASE e = c
    BY <2>2, <1>3, <1>4
  <2>3. CASE d # c /\ e # c
    BY <2>3, <1>3 DEF ConservedInv, LocksHold
  <2> QED BY <2>1, <2>2, <2>3
<1>6. "topup" \notin gaps => CopyOK(c)'
  BY <1>1, <1>2 DEF CopyOK, Locking, OnAccount, OnOp, At
<1>7. CopiesOK'
  <2> SUFFICES ASSUME "topup" \notin gaps
               PROVE  Balanced(account') /\ \A d \in Calls : CopyOK(d)'
    BY <1>2 DEF CopiesOK
  <2>1. Balanced(account) /\ \A d \in Calls : CopyOK(d)
    BY DEF ConservedInv, CopiesOK
  <2> QED BY <2>1, <1>2, <1>3, <1>6
<1> QED BY <1>5, <1>7 DEF ConservedInv

\* The copy of a call at work is balanced, unless the gap "topup" is open.
LEMMA MineBalanced ==
    ASSUME ConservedInv, NEW c \in Calls, ~ At(c, "idle"), "topup" \notin gaps
    PROVE  /\ Balanced(call[c].mine) /\ Balanced(account)
           /\ Locking(c) /\ "topup" \notin call[c].lost =>
                 IF OnOp(c) THEN call[c].mine.total = account.total
                            ELSE call[c].mine.used = account.used
BY DEF ConservedInv, CopiesOK, CopyOK

\* What a charge or a top-up that finds the lock free has loaded.
LEMMA LoadedCopy ==
    ASSUME NEW c \in Calls, "topup" \notin Lost(c)
    PROVE  IF OnOp(c) THEN call[c].mine.total = account.total
                      ELSE call[c].mine = account
BY DEF Lost, OnOp

LEMMA ChargeBalanced ==
    ASSUME NEW a \in Account, NEW cost \in Int, Balanced(a)
    PROVE  Balanced(Charge(a, cost)) /\ Charge(a, cost).total = a.total
BY DEF Balanced, Charge, Account

LEMMA CreditBalanced ==
    ASSUME NEW a \in Account, Balanced(a)
    PROVE  Balanced(Credit(a)) /\ Credit(a).used = a.used
BY DEF Balanced, Credit, Account

LEMMA InitConserved == Init => ConservedInv
BY DEF Init, ConservedInv, LocksHold, CopiesOK, CopyOK, Locking, Balanced, Idle, At

\* The steps that load: the copy is the wallet, and nothing is locked yet.
LEMMA LoadConserves ==
    ASSUME TypeOK, ConservedInv, NEW c \in Calls, NEW value, Set(c, value), Unsaved,
           value.at \in {"found", "loaded"}, value.mine = account
    PROVE  ConservedInv'
<1>1. "topup" \notin gaps => Balanced(account)
  BY DEF ConservedInv, CopiesOK
<1> QED BY <1>1, UnsavedConserves

LEMMA StepsLoad ==
    ASSUME TypeOK, ConservedInv, NEW c \in Calls,
           \/ \E kind \in Starts, o \in Ops : StartOperation(c, kind, o)
           \/ \E kind \in {"confirm", "complete"}, o \in Ops : GetOp(c, kind, o)
           \/ GrantCredits(c)
    PROVE  ConservedInv'
<1>1. ASSUME NEW kind \in Starts, NEW o \in Ops, StartOperation(c, kind, o)
      PROVE  ConservedInv'
  <2> DEFINE q == [at |-> "loaded", kind |-> kind, of |-> o, mine |-> account,
                   row |-> [status |-> IF kind = "gated" THEN "pending" ELSE "running",
                            cost |-> Reserve],
                   lost |-> {}]
  <2>1. Set(c, q) /\ Unsaved
    BY <1>1 DEF StartOperation
  <2>2. q.at = "loaded" /\ q.mine = account
    OBVIOUS
  <2> HIDE DEF q
  <2> QED BY <2>1, <2>2, LoadConserves
<1>2. ASSUME NEW kind \in {"confirm", "complete"}, NEW o \in Ops, GetOp(c, kind, o)
      PROVE  ConservedInv'
  <2> DEFINE q == [at |-> "found", kind |-> kind, of |-> o, mine |-> account,
                   row |-> op[o], lost |-> {}]
  <2>1. Set(c, q) /\ Unsaved
    BY <1>2 DEF GetOp
  <2>2. q.at = "found" /\ q.mine = account
    OBVIOUS
  <2> HIDE DEF q
  <2> QED BY <2>1, <2>2, LoadConserves
<1>3. ASSUME GrantCredits(c)
      PROVE  ConservedInv'
  <2> DEFINE q == [at |-> "loaded", kind |-> "topup", mine |-> account, lost |-> {}]
  <2>1. Set(c, q) /\ Unsaved
    BY <1>3 DEF GrantCredits
  <2>2. q.at = "loaded" /\ q.mine = account
    OBVIOUS
  <2> HIDE DEF q
  <2> QED BY <2>1, <2>2, LoadConserves
<1> QED BY <1>1, <1>2, <1>3

LEMMA AssertConserves ==
    ASSUME TypeOK, ConservedInv, NEW c \in Calls, AssertCredits(c)
    PROVE  ConservedInv'
<1> DEFINE q == [call[c] EXCEPT !.at = "loaded", !.mine = account]
<1>1. Set(c, q) /\ Unsaved /\ call[c].at = "found" /\ call[c].kind = "confirm"
  BY DEF AssertCredits, At
<1>2. call[c] \in OpCall
  BY <1>1, CallShape DEF At, OnOp
<1>3. q.at = "loaded" /\ q.mine = account
  BY <1>2 DEF OpCall
<1> HIDE DEF q
<1> QED BY <1>1, <1>3, LoadConserves

LEMMA FlushChargeConserves ==
    ASSUME TypeInv, ConservedInv, NEW c \in Calls, FlushCharge(c)
    PROVE  ConservedInv'
<1> DEFINE cost == call[c].row.cost
           status == IF call[c].kind \in Chats THEN "running" ELSE "success"
           q == [call[c] EXCEPT !.at = "written", !.lost = Lost(c),
                                !.mine = Charge(@, cost), !.row.status = status]
<1>1. /\ Set(c, q) /\ Unsaved /\ MayWrite(c)
      /\ call[c].at = "loaded" /\ call[c].kind \in Charges
  BY DEF FlushCharge, At, Charges
<1>2. OnOp(c) /\ OnAccount(c) /\ ~ At(c, "idle") /\ TypeOK
  BY <1>1 DEF OnOp, OnAccount, At, Charges, Chats, TypeInv
<1>3. call[c] \in OpCall
  BY <1>2, CallShape
<1>4. call[c].mine \in Account /\ cost \in Int
  BY <1>3 DEF OpCall, OpRow
<1>5. /\ q.at = "written" /\ q.kind = call[c].kind /\ q.lost = Lost(c)
      /\ q.mine = Charge(call[c].mine, cost)
  BY <1>3 DEF OpCall
<1>6. q.kind # "topup"
  BY <1>1, <1>5 DEF Charges, Chats
<1>7. ASSUME "topup" \notin gaps
      PROVE  /\ Balanced(q.mine)
             /\ "topup" \notin q.lost => q.mine.total = account.total
  BY <1>2, <1>4, <1>5, <1>7, MineBalanced, ChargeBalanced, LoadedCopy
<1> HIDE DEF q
<1> QED BY <1>1, <1>2, <1>5, <1>6, <1>7, UnsavedConserves

LEMMA FlushTopUpConserves ==
    ASSUME TypeInv, ConservedInv, NEW c \in Calls, FlushTopUp(c)
    PROVE  ConservedInv'
<1> DEFINE q == [call[c] EXCEPT !.at = "written", !.lost = Lost(c), !.mine = Credit(@)]
<1>1. /\ Set(c, q) /\ Unsaved /\ MayWrite(c)
      /\ call[c].at = "loaded" /\ call[c].kind = "topup"
  BY DEF FlushTopUp, At
<1>2. ~ OnOp(c) /\ OnAccount(c) /\ ~ At(c, "idle") /\ TypeOK
  BY <1>1 DEF OnOp, OnAccount, At, TypeInv
<1>3. call[c] \in TopUp /\ call[c].mine \in Account
  BY <1>2, CallShape
<1>4. /\ q.at = "written" /\ q.kind = "topup" /\ q.lost = Lost(c)
      /\ q.mine = Credit(call[c].mine)
  BY <1>1, <1>3 DEF TopUp
<1>5. ASSUME "topup" \notin gaps
      PROVE  /\ Balanced(q.mine)
             /\ "topup" \notin q.lost => q.mine.used = account.used
  BY <1>2, <1>3, <1>4, <1>5, MineBalanced, CreditBalanced, LoadedCopy
<1> HIDE DEF q
<1> QED BY <1>1, <1>2, <1>4, <1>5, UnsavedConserves

\* Operations that are not charged do not touch the wallet.
LEMMA UnchargedConserves ==
    ASSUME TypeOK, ConservedInv, NEW c \in Calls,
           FlushPending(c) \/ \E success \in BOOLEAN : CompleteOperation(c, success)
    PROVE  ConservedInv'
<1>1. ASSUME NEW value, Set(c, value), Unsaved, ~ At(c, "idle"),
             value.at = "written", value.kind \in {"gated", "complete"},
             value.mine = call[c].mine
      PROVE  ConservedInv'
  BY <1>1, MineBalanced, UnsavedConserves
<1>2. CASE FlushPending(c)
  <2> DEFINE q == [call[c] EXCEPT !.at = "written"]
  <2>1. Set(c, q) /\ Unsaved /\ call[c].at = "loaded" /\ call[c].kind = "gated"
    BY <1>2 DEF FlushPending, At
  <2>2. ~ At(c, "idle") /\ call[c] \in OpCall
    BY <2>1, CallShape DEF At, OnOp
  <2>3. q.at = "written" /\ q.kind = "gated" /\ q.mine = call[c].mine
    BY <2>1, <2>2 DEF OpCall
  <2> HIDE DEF q
  <2> QED BY <1>1, <2>1, <2>2, <2>3
<1>3. ASSUME NEW success \in BOOLEAN, CompleteOperation(c, success)
      PROVE  ConservedInv'
  <2> DEFINE status == IF success THEN "success" ELSE "failed"
             q == [call[c] EXCEPT !.at = "written", !.row.status = status]
  <2>1. Set(c, q) /\ Unsaved /\ call[c].at = "found" /\ call[c].kind = "complete"
    BY <1>3 DEF CompleteOperation, At
  <2>2. ~ At(c, "idle") /\ call[c] \in OpCall
    BY <2>1, CallShape DEF At, OnOp
  <2>3. q.at = "written" /\ q.kind = "complete" /\ q.mine = call[c].mine
    BY <2>1, <2>2 DEF OpCall
  <2> HIDE DEF q
  <2> QED BY <1>1, <2>1, <2>2, <2>3
<1> QED BY <1>2, <1>3

\* Settling and refunding charge the copy of a call that holds the lock.
LEMMA SettleConserves ==
    ASSUME TypeInv, ConservedInv, NEW c \in Calls,
           \/ \E actual \in 1 .. MaxPerChat : SettleChatUsage(c, actual)
           \/ RefundStream(c)
    PROVE  ConservedInv'
<1>1. ASSUME NEW value, NEW cost \in Int, Set(c, value), Unsaved, call[c] \in OpCall,
             call[c].at = "written", call[c].kind \in Chats,
             value.at = "settled", value.kind = call[c].kind,
             value.lost = call[c].lost, value.mine = Charge(call[c].mine, cost)
      PROVE  ConservedInv'
  <2>1. OnOp(c) /\ Locking(c) /\ ~ At(c, "idle") /\ value.kind # "topup" /\ TypeOK
    BY <1>1 DEF OnOp, OnAccount, Locking, At, Chats, TypeInv
  <2>2. call[c].mine \in Account
    BY <1>1 DEF OpCall
  <2>3. ASSUME "topup" \notin gaps
        PROVE  /\ Balanced(value.mine)
               /\ "topup" \notin value.lost => value.mine.total = account.total
    BY <1>1, <2>1, <2>2, <2>3, MineBalanced, ChargeBalanced
  <2> QED BY <1>1, <2>1, <2>3, UnsavedConserves
<1>2. ASSUME NEW actual \in 1 .. MaxPerChat, SettleChatUsage(c, actual)
      PROVE  ConservedInv'
  <2> DEFINE extra == Extra(c, actual)
             q == Settled(c, extra)
  <2>1. /\ Set(c, q) /\ Unsaved /\ call[c].at = "written" /\ call[c].kind \in Chats
    BY <1>2 DEF SettleChatUsage, At
  <2>2. call[c] \in OpCall /\ extra \in Int
    BY <1>2, ExtraBound
  <2>3. /\ q.at = "settled" /\ q.kind = call[c].kind /\ q.lost = call[c].lost
        /\ q.mine = Charge(call[c].mine, extra)
    BY <2>2 DEF Settled, OpCall
  <2> HIDE DEF q, extra
  <2> QED BY <1>1, <2>1, <2>2, <2>3
<1>3. CASE RefundStream(c)
  <2> DEFINE cost == - call[c].row.cost
             q == [call[c] EXCEPT !.at = "settled", !.mine = Charge(@, cost),
                                  !.row = [status |-> "failed", cost |-> 0]]
  <2>1. /\ Set(c, q) /\ Unsaved /\ call[c].at = "written" /\ call[c].kind \in Chats
    BY <1>3 DEF RefundStream, At, Chats
  <2>2. call[c] \in OpCall /\ cost \in Int
    BY <1>3, RefundShape
  <2>3. /\ q.at = "settled" /\ q.kind = call[c].kind /\ q.lost = call[c].lost
        /\ q.mine = Charge(call[c].mine, cost)
    BY <2>2 DEF OpCall
  <2> HIDE DEF q, cost
  <2> QED BY <1>1, <2>1, <2>2, <2>3
<1> QED BY <1>2, <1>3

\* A call that saves the wallet has it locked, so no other copy is bound to
\* it, and the columns it leaves alone fit those it writes.
LEMMA SaveConserves ==
    ASSUME TypeInv, ConservedInv, NEW c \in Calls, Save(c),
           call[c].at \in {"written", "settled"}
    PROVE  ConservedInv'
<1>1. TypeOK /\ ~ At(c, "idle") /\ Set(c, Idle) /\ gaps' = gaps \cup call[c].lost
  BY DEF Save, At, TypeInv
<1>2. call'[c] = Idle /\ \A d \in Calls \ {c} : call'[d] = call[d]
  BY <1>1, SetCall
<1>3. ~ Locking(c)' /\ CopyOK(c)'
  BY <1>2 DEF Locking, CopyOK, At, Idle
<1>4. \A d \in Calls \ {c} : Locking(d)' = Locking(d) /\ OnOp(d)' = OnOp(d)
  BY <1>2 DEF Locking, OnAccount, OnOp
<1>5. LocksHold'
  BY <1>3, <1>4 DEF ConservedInv, LocksHold
<1>6. ASSUME "topup" \notin gaps'
      PROVE  Balanced(account') /\ \A d \in Calls : CopyOK(d)'
  <2>1. "topup" \notin gaps /\ "topup" \notin call[c].lost
    BY <1>1, <1>6
  <2>2. Balanced(account) /\ \A d \in Calls : CopyOK(d)
    BY <2>1 DEF ConservedInv, CopiesOK
  <2>3. CASE ~ OnAccount(c)
    <3>1. account' = account
      BY <2>3 DEF Save, SaveOperation, OnAccount, OnOp
    <3>2. \A d \in Calls \ {c} : CopyOK(d)' = CopyOK(d)
      BY <3>1, <1>2 DEF CopyOK, Locking, OnAccount, OnOp, At
    <3> QED BY <3>1, <3>2, <2>2, <1>3
  <2>4. CASE OnAccount(c)
    <3>1. Locking(c)
      BY <2>4 DEF Locking
    <3>2. \A d \in Calls \ {c} : ~ Locking(d)
      BY <3>1 DEF ConservedInv, LocksHold
    <3>3. \A d \in Calls \ {c} : CopyOK(d)'
      BY <3>2, <1>2, <1>4, <2>2 DEF CopyOK, At
    <3>4. /\ Balanced(call[c].mine)
          /\ IF OnOp(c) THEN call[c].mine.total = account.total
                        ELSE call[c].mine.used = account.used
      BY <3>1, <2>1, <1>1, MineBalanced
    <3>5. call[c].mine \in Account /\ account \in Account
      BY <1>1, CallShape DEF TypeOK
    <3>6. CASE OnOp(c)
      <4>1. account' = [account EXCEPT !.left = call[c].mine.left,
                                       !.used = call[c].mine.used]
        BY <3>6, <2>4 DEF Save, SaveOperation
      <4>2. /\ account'.left = call[c].mine.left /\ account'.used = call[c].mine.used
            /\ account'.total = account.total
        BY <4>1, <3>5 DEF Account
      <4> QED BY <4>2, <3>3, <3>4, <3>6, <1>3 DEF Balanced
    <3>7. CASE ~ OnOp(c)
      <4>1. account' = [account EXCEPT !.left = call[c].mine.left,
                                       !.total = call[c].mine.total]
        BY <3>7 DEF Save, SaveTopUp
      <4>2. /\ account'.left = call[c].mine.left /\ account'.total = call[c].mine.total
            /\ account'.used = account.used
        BY <4>1, <3>5 DEF Account
      <4> QED BY <4>2, <3>3, <3>4, <3>7, <1>3 DEF Balanced
    <3> QED BY <3>6, <3>7
  <2> QED BY <2>3, <2>4
<1> QED BY <1>5, <1>6 DEF ConservedInv, CopiesOK

LEMMA AbortConserves ==
    ASSUME TypeOK, ConservedInv, NEW c \in Calls, Abort(c)
    PROVE  ConservedInv'
<1>1. Set(c, Idle) /\ Unsaved /\ Idle.at = "idle"
  BY DEF Abort, Idle
<1> QED BY <1>1, UnsavedConserves

LEMMA NextConserves == TypeInv /\ ConservedInv /\ [Next]_vars => ConservedInv'
<1> SUFFICES ASSUME TypeInv, ConservedInv, [Next]_vars PROVE ConservedInv'
  OBVIOUS
<1>1. TypeOK
  BY DEF TypeInv
<1>2. CASE UNCHANGED vars
  BY <1>2 DEF vars, ConservedInv, LocksHold, CopiesOK, CopyOK, Locking, OnAccount, OnOp, At
<1>3. ASSUME NEW c \in Calls,
             \/ \E kind \in Starts, o \in Ops : StartOperation(c, kind, o)
             \/ \E kind \in {"confirm", "complete"}, o \in Ops : GetOp(c, kind, o)
             \/ GrantCredits(c) \/ AssertCredits(c)
      PROVE  ConservedInv'
  BY <1>1, <1>3, StepsLoad, AssertConserves
<1>4. ASSUME NEW c \in Calls,
             \/ FlushCharge(c) \/ FlushPending(c) \/ FlushTopUp(c)
             \/ \E success \in BOOLEAN : CompleteOperation(c, success)
      PROVE  ConservedInv'
  BY <1>1, <1>4, FlushChargeConserves, FlushTopUpConserves, UnchargedConserves
<1>5. ASSUME NEW c \in Calls,
             \/ \E actual \in 1 .. MaxPerChat : SettleChatUsage(c, actual)
             \/ RefundStream(c)
      PROVE  ConservedInv'
  BY <1>5, SettleConserves
<1>6. ASSUME NEW c \in Calls, Commit(c) \/ CutShort(c)
      PROVE  ConservedInv'
  BY <1>6, SaveConserves DEF Commit, CutShort, At
<1>7. ASSUME NEW c \in Calls, Abort(c)
      PROVE  ConservedInv'
  BY <1>1, <1>7, AbortConserves
<1> QED BY <1>2, <1>3, <1>4, <1>5, <1>6, <1>7 DEF Next

(***************************************************************************)
(* The credits of a customer (credits.py) are left or used, none vanish    *)
(* and none appear, whatever requests interleave, are settled, refunded,   *)
(* cut short or aborted, as long as no top-up and charge overlapped.       *)
(***************************************************************************)
THEOREM CreditsConserved == Spec => []Conserved
<1>1. ConservedInv => Conserved
  BY DEF ConservedInv, CopiesOK, Balanced, Conserved
<1> QED BY <1>1, InitType, NextType, InitConserved, NextConserves, PTL DEF Spec

-------------------------------------------------------------------------------
(***************************************************************************)
(* Sums.                                                                   *)
(***************************************************************************)
LEMMA UnitsOfOne ==
    ASSUME NEW x, NEW n \in Nat
    PROVE  IsFiniteSet({x} \X (1 .. n)) /\ Cardinality({x} \X (1 .. n)) = n
<1>1. IsFiniteSet(1 .. n) /\ Cardinality(1 .. n) = n
  BY FS_Interval
<1>2. IsFiniteSet({x}) /\ Cardinality({x}) = 1
  BY FS_Singleton
<1>3. /\ IsFiniteSet({x} \X (1 .. n))
      /\ Cardinality({x} \X (1 .. n)) = Cardinality({x}) * Cardinality(1 .. n)
  BY <1>1, <1>2, FS_Product
<1>4. 1 * n = n
  OBVIOUS
<1> QED BY <1>1, <1>2, <1>3, <1>4

\* The units of all members, and of all but one.
Besides(f, x) == {u \in Units(f) : u[1] # x}

LEMMA UnitsFinite ==
    ASSUME NEW S, IsFiniteSet(S), NEW f \in [S -> Nat]
    PROVE  IsFiniteSet(Units(f)) /\ Total(f) \in Nat
<1> DEFINE T == {{x} \X (1 .. f[x]) : x \in S}
           g == [x \in S |-> {x} \X (1 .. f[x])]
<1>1. g \in Surjection(S, T)
  <2>1. g \in [S -> T]
    OBVIOUS
  <2>2. \A t \in T : \E x \in S : g[x] = t
    OBVIOUS
  <2> HIDE DEF T, g
  <2> QED BY <2>1, <2>2 DEF Surjection
<1>2. IsFiniteSet(T)
  BY <1>1, FS_Surjection
<1>3. \A t \in T : IsFiniteSet(t)
  <2>1. \A x \in S : IsFiniteSet({x} \X (1 .. f[x]))
    BY UnitsOfOne
  <2> QED BY <2>1
<1>4. Units(f) = UNION T
  BY DEF Units
<1> HIDE DEF T
<1>5. IsFiniteSet(Units(f))
  BY <1>2, <1>3, <1>4, FS_UNION
<1> QED BY <1>5, FS_CardinalityType DEF Total

LEMMA TotalSplit ==
    ASSUME NEW S, IsFiniteSet(S), NEW f \in [S -> Nat], NEW x \in S
    PROVE  /\ IsFiniteSet(Besides(f, x))
           /\ Total(f) = f[x] + Cardinality(Besides(f, x))
<1> DEFINE own == {x} \X (1 .. f[x])
<1>1. IsFiniteSet(Units(f)) /\ IsFiniteSet(Besides(f, x))
  BY UnitsFinite, FS_Subset DEF Besides
<1>2. IsFiniteSet(own) /\ Cardinality(own) = f[x]
  BY UnitsOfOne
<1>3. Units(f) = own \cup Besides(f, x) /\ own \cap Besides(f, x) = {}
  <2>1. \A u \in Units(f) : u[1] = x => u \in own
    <3>1. SUFFICES ASSUME NEW y \in S, NEW u \in {y} \X (1 .. f[y]), u[1] = x
                   PROVE  u \in own
      BY DEF Units
    <3>2. y = x
      BY <3>1
    <3> QED BY <3>1, <3>2
  <2>2. own \subseteq Units(f)
    BY DEF Units
  <2>3. \A u \in own : u[1] = x
    OBVIOUS
  <2> HIDE DEF own
  <2>4. Units(f) \subseteq own \cup Besides(f, x) /\ Besides(f, x) \subseteq Units(f)
    BY <2>1 DEF Besides
  <2>5. \A u \in Besides(f, x) : u \notin own
    BY <2>3 DEF Besides
  <2> QED BY <2>2, <2>4, <2>5
<1>4. Cardinality(Besides(f, x)) \in Nat /\ f[x] \in Nat /\ Cardinality({}) = 0
  BY <1>1, FS_CardinalityType, FS_EmptySet
<1> HIDE DEF own
<1>5. Cardinality(own \cup Besides(f, x)) =
          Cardinality(own) + Cardinality(Besides(f, x)) - Cardinality(own \cap Besides(f, x))
  BY <1>1, <1>2, FS_Union
<1>6. Total(f) = Cardinality(own) + Cardinality(Besides(f, x)) - Cardinality({})
  BY <1>3, <1>5 DEF Total
<1> QED BY <1>1, <1>2, <1>4, <1>6

\* A sum changes by what one of its terms changes.
LEMMA TotalChange ==
    ASSUME NEW S, IsFiniteSet(S), NEW f \in [S -> Nat], NEW g \in [S -> Nat],
           NEW x \in S, \A y \in S \ {x} : g[y] = f[y]
    PROVE  Total(g) = Total(f) - f[x] + g[x]
<1>1. Besides(g, x) = Besides(f, x)
  <2>1. Units(f) = UNION {{y} \X (1 .. f[y]) : y \in S}
        /\ Units(g) = UNION {{y} \X (1 .. g[y]) : y \in S}
    BY DEF Units
  <2>2. \A u : u \in Besides(f, x) <=> \E y \in S \ {x} : u \in {y} \X (1 .. f[y])
    BY <2>1 DEF Besides
  <2>3. \A u : u \in Besides(g, x) <=> \E y \in S \ {x} : u \in {y} \X (1 .. g[y])
    BY <2>1 DEF Besides
  <2> QED BY <2>2, <2>3
<1>2. Total(f) = f[x] + Cardinality(Besides(f, x)) /\ Total(g) = g[x] + Cardinality(Besides(g, x))
      /\ Cardinality(Besides(f, x)) \in Nat
  BY TotalSplit, FS_CardinalityType
<1> QED BY <1>1, <1>2

LEMMA TotalZero ==
    ASSUME NEW S, NEW f \in [S -> Nat], \A x \in S : f[x] = 0
    PROVE  Total(f) = 0
<1>1. Units(f) = {}
  BY DEF Units
<1> QED BY <1>1, FS_EmptySet DEF Total

-------------------------------------------------------------------------------
(***************************************************************************)
(* Charges and operations.                                                 *)
(***************************************************************************)
Charged == {"running", "success", "failed"}
Took(q) == q.at \in {"written", "settled"}
OfOp(q) == q.at # "idle" /\ q.kind # "topup"

\* Two calls on one operation: neither creates it, and only one of them has
\* its row lock.
NotInTheWay(p, q) ==
    OfOp(p) /\ OfOp(q) /\ p.of = q.of =>
        /\ p.kind \notin Starts /\ q.kind \notin Starts
        /\ ~ (Took(p) /\ Took(q))
Apart == \A c, d \in Calls : c # d => NotInTheWay(call[c], call[d])

\* The copy a call has of its operation, against the row in ops.
RowFits(q, ops) ==
    OfOp(q) =>
        /\ q.row.status # "none"
        /\ q.kind \in Starts => ops[q.of] = NoOp
        /\ q.kind = "gated" => q.row.status = "pending"
        /\ q.kind \in {"confirm", "complete"} =>
              ops[q.of].status # "none" /\ q.row.cost = ops[q.of].cost
        /\ Took(q) /\ q.kind \in Charges => q.row.status \in Charged
        /\ Took(q) /\ q.kind \in {"confirm", "complete"} =>
              q.row.status \in {"success", "failed"}
        /\ Took(q) /\ q.kind = "confirm" /\ "twice" \notin q.lost =>
              ops[q.of].status \in Confirmable

\* A charge on its way to be saved is the wallet's and the operation's cost.
WalletFits(q, a) ==
    Took(q) /\ q.kind \in Charges /\ "stale" \notin q.lost =>
        q.mine.used = a.used + q.row.cost

RowsKept ==
    \A o \in Ops : /\ op[o].status = "none" => op[o] = NoOp
                   /\ o \in unbilled => op[o].status \in {"success", "failed"}

RecordInv ==
    /\ Apart
    /\ \A c \in Calls : RowFits(call[c], op) /\ WalletFits(call[c], account)
    /\ RowsKept
    /\ ChargesAreRecorded

LEMMA KindsDiffer ==
    /\ \A k \in Charges : k \notin {"topup", "gated", "complete"}
    /\ \A k \in Chats : k \in Charges /\ k \in Starts
    /\ {"confirm", "complete", "topup"} \cap Starts = {}
BY DEF Charges, Chats, Starts

LEMMA TheWayIsMutual == \A p, q : NotInTheWay(p, q) => NotInTheWay(q, p)
BY DEF NotInTheWay

\* What is neither at work nor about an operation fits everywhere.
LEMMA NoOpFits ==
    ASSUME NEW q, ~ OfOp(q), q.at = "idle" \/ q.kind = "topup"
    PROVE  /\ RowFits(q, op) /\ WalletFits(q, account)
           /\ \A p : NotInTheWay(q, p)
BY KindsDiffer DEF OfOp, RowFits, WalletFits, NotInTheWay, Took

\* A step that saves nothing and gives one call a fitting value.
LEMMA UnsavedRecords ==
    ASSUME TypeOK, RecordInv, NEW c \in Calls, NEW value, Set(c, value), Unsaved,
           RowFits(value, op), WalletFits(value, account),
           \A d \in Calls \ {c} : NotInTheWay(value, call[d])
    PROVE  RecordInv'
<1>1. call'[c] = value /\ \A d \in Calls \ {c} : call'[d] = call[d]
  BY SetCall
<1>2. UNCHANGED <<account, op, gaps, unbilled>>
  BY DEF Unsaved
<1>3. Apart'
  <2>1. ASSUME NEW a \in Calls, NEW b \in Calls, a # b
        PROVE  NotInTheWay(call'[a], call'[b])
    BY <1>1, <2>1, TheWayIsMutual DEF RecordInv, Apart
  <2> QED BY <2>1 DEF Apart, NotInTheWay, OfOp, Took
<1>4. \A d \in Calls : RowFits(call'[d], op) /\ WalletFits(call'[d], account)
  BY <1>1 DEF RecordInv
<1>5. \A d \in Calls : RowFits(call'[d], op') /\ WalletFits(call'[d], account')
  BY <1>2, <1>4
<1>6. \A d \in Calls : (RowFits(call[d], op) /\ WalletFits(call[d], account))'
  BY <1>5 DEF RowFits, WalletFits, OfOp, Took
<1>7. RowsKept' /\ ChargesAreRecorded'
  BY <1>2 DEF RecordInv, RowsKept, ChargesAreRecorded, Billed
<1> QED BY <1>3, <1>6, <1>7 DEF RecordInv

\* A call that stays on its operation is in nobody's way, if it takes the
\* lock only when it may.
LEMMA StaysApart ==
    ASSUME RecordInv, NEW c \in Calls, NEW value, OfOp(call[c]),
           value.kind = call[c].kind, value.of = call[c].of,
           Took(value) => Took(call[c]) \/ MayWrite(c),
           NEW d \in Calls \ {c}
    PROVE  NotInTheWay(value, call[d])
<1>1. NotInTheWay(call[c], call[d])
  BY DEF RecordInv, Apart
<1>2. MayWrite(c) /\ Took(call[d]) => ~ (OnOp(c) /\ OnOp(d) /\ call[c].of = call[d].of)
  BY DEF MayWrite, Took
<1> QED BY <1>1, <1>2 DEF NotInTheWay, OfOp, OnOp

LEMMA StartRecords ==
    ASSUME TypeOK, RecordInv, NEW c \in Calls, NEW kind \in Starts, NEW o \in Ops,
           StartOperation(c, kind, o)
    PROVE  RecordInv'
<1> DEFINE q == [at |-> "loaded", kind |-> kind, of |-> o, mine |-> account,
                 row |-> [status |-> IF kind = "gated" THEN "pending" ELSE "running",
                          cost |-> Reserve],
                 lost |-> {}]
<1>1. /\ Set(c, q) /\ Unsaved /\ op[o] = NoOp
      /\ \A d \in Calls : ~ (call[d].at # "idle" /\ OnOp(d) /\ call[d].of = o)
  BY DEF StartOperation, Busy, At
<1>2. /\ q.at = "loaded" /\ q.kind \in Starts /\ q.of = o /\ q.row.status # "none"
      /\ q.kind = "gated" => q.row.status = "pending"
  OBVIOUS
<1> HIDE DEF q
<1>3. ~ Took(q)
  BY <1>2 DEF Took
<1>4. RowFits(q, op) /\ WalletFits(q, account)
  BY <1>1, <1>2, <1>3, KindsDiffer DEF RowFits, WalletFits
<1>5. \A d \in Calls \ {c} : NotInTheWay(q, call[d])
  BY <1>1, <1>2 DEF NotInTheWay, OfOp, OnOp
<1> QED BY <1>1, <1>4, <1>5, UnsavedRecords

LEMMA GrantRecords ==
    ASSUME TypeOK, RecordInv, NEW c \in Calls, GrantCredits(c) \/ Abort(c)
    PROVE  RecordInv'
<1>1. PICK q : Set(c, q) /\ (q.at = "idle" \/ q.kind = "topup")
  <2>1. CASE GrantCredits(c)
    <3> DEFINE q == [at |-> "loaded", kind |-> "topup", mine |-> account, lost |-> {}]
    <3>1. Set(c, q) /\ q.kind = "topup"
      BY <2>1 DEF GrantCredits
    <3> QED BY <3>1
  <2>2. CASE Abort(c)
    BY <2>2 DEF Abort, Idle
  <2> QED BY <2>1, <2>2
<1>2. ~ OfOp(q)
  BY <1>1 DEF OfOp
<1>3. Unsaved
  BY DEF GrantCredits, Abort
<1> QED BY <1>1, <1>2, <1>3, NoOpFits, UnsavedRecords

LEMMA GetOpRecords ==
    ASSUME TypeOK, RecordInv, NEW c \in Calls, NEW kind \in {"confirm", "complete"},
           NEW o \in Ops, GetOp(c, kind, o)
    PROVE  RecordInv'
<1> DEFINE q == [at |-> "found", kind |-> kind, of |-> o, mine |-> account,
                 row |-> op[o], lost |-> {}]
<1>1. Set(c, q) /\ Unsaved /\ op[o] # NoOp
  BY DEF GetOp
<1>2. /\ q.at = "found" /\ q.kind \in {"confirm", "complete"} /\ q.of = o /\ q.row = op[o]
  OBVIOUS
<1> HIDE DEF q
<1>3. ~ Took(q) /\ q.kind \notin Starts /\ q.kind # "gated"
  BY <1>2, KindsDiffer DEF Took
<1>4. op[o].status # "none"
  BY <1>1 DEF RecordInv, RowsKept
<1>5. RowFits(q, op) /\ WalletFits(q, account)
  BY <1>2, <1>3, <1>4 DEF RowFits, WalletFits
<1>6. \A d \in Calls \ {c} : NotInTheWay(q, call[d])
  <2> SUFFICES ASSUME NEW d \in Calls \ {c}, OfOp(call[d]), call[d].of = o
               PROVE  call[d].kind \notin Starts
    BY <1>2, <1>3 DEF NotInTheWay
  <2> QED BY <1>1 DEF RecordInv, RowFits
<1> QED BY <1>1, <1>5, <1>6, UnsavedRecords

LEMMA AssertRecords ==
    ASSUME TypeOK, RecordInv, NEW c \in Calls, AssertCredits(c)
    PROVE  RecordInv'
<1> DEFINE q == [call[c] EXCEPT !.at = "loaded", !.mine = account]
<1>1. Set(c, q) /\ Unsaved /\ call[c].at = "found" /\ call[c].kind = "confirm"
  BY DEF AssertCredits, At
<1>2. call[c] \in OpCall
  BY <1>1, CallShape DEF At, OnOp
<1>3. q.at = "loaded" /\ q.kind = "confirm" /\ q.of = call[c].of /\ q.row = call[c].row
  BY <1>1, <1>2 DEF OpCall
<1> HIDE DEF q
<1>4. ~ Took(q) /\ OfOp(q) /\ OfOp(call[c]) /\ q.kind \notin Starts
  BY <1>1, <1>3, KindsDiffer DEF Took, OfOp
<1>5. RowFits(call[c], op)
  BY DEF RecordInv
<1>6. RowFits(q, op) /\ WalletFits(q, account)
  BY <1>1, <1>3, <1>4, <1>5 DEF RowFits, WalletFits
<1>7. \A d \in Calls \ {c} : NotInTheWay(q, call[d])
  BY <1>1, <1>3, <1>4, StaysApart
<1> QED BY <1>1, <1>6, <1>7, UnsavedRecords

LEMMA FlushChargeRecords ==
    ASSUME TypeOK, RecordInv, NEW c \in Calls, FlushCharge(c)
    PROVE  RecordInv'
<1> DEFINE cost == call[c].row.cost
           status == IF call[c].kind \in Chats THEN "running" ELSE "success"
           q == [call[c] EXCEPT !.at = "written", !.lost = Lost(c),
                                !.mine = Charge(@, cost), !.row.status = status]
<1>1. /\ Set(c, q) /\ Unsaved /\ MayWrite(c)
      /\ call[c].at = "loaded" /\ call[c].kind \in Charges
  BY DEF FlushCharge, At, Charges
<1>2. call[c].kind \notin {"topup", "gated", "complete"}
  BY <1>1, KindsDiffer
<1>3. call[c] \in OpCall
  BY <1>1, <1>2, CallShape DEF At, OnOp
<1>4. status \in Charged /\ (call[c].kind = "confirm" => status = "success")
  BY DEF Charged, Chats
<1>5. /\ q.at = "written" /\ q.kind = call[c].kind /\ q.of = call[c].of /\ q.lost = Lost(c)
      /\ q.mine = Charge(call[c].mine, cost)
      /\ q.row.cost = cost /\ q.row.status = status
  BY <1>3 DEF OpCall, OpRow
<1> HIDE DEF q, status
<1>6. OfOp(call[c]) /\ Took(q) /\ q.row.status # "none"
  BY <1>1, <1>2, <1>4, <1>5 DEF OfOp, Took, Charged
<1>7. RowFits(call[c], op)
  BY DEF RecordInv
<1>8. "twice" \notin Lost(c) /\ call[c].kind = "confirm" => op[call[c].of].status \in Confirmable
  BY DEF Lost
<1>9. RowFits(q, op)
  BY <1>2, <1>4, <1>5, <1>6, <1>7, <1>8 DEF RowFits
<1>10. WalletFits(q, account)
  <2>1. "stale" \notin Lost(c) => call[c].mine = account
    BY DEF Lost
  <2> QED BY <1>5, <2>1 DEF WalletFits, Charge
<1>11. \A d \in Calls \ {c} : NotInTheWay(q, call[d])
  BY <1>1, <1>5, <1>6, StaysApart
<1> QED BY <1>1, <1>9, <1>10, <1>11, UnsavedRecords

LEMMA FlushTopUpRecords ==
    ASSUME TypeOK, RecordInv, NEW c \in Calls, FlushTopUp(c)
    PROVE  RecordInv'
<1> DEFINE q == [call[c] EXCEPT !.at = "written", !.lost = Lost(c), !.mine = Credit(@)]
<1>1. Set(c, q) /\ Unsaved /\ call[c].at = "loaded" /\ call[c].kind = "topup"
  BY DEF FlushTopUp, At
<1>2. call[c] \in TopUp
  BY <1>1, CallShape DEF At, OnOp
<1>3. q.kind = "topup"
  BY <1>1, <1>2 DEF TopUp
<1> HIDE DEF q
<1>4. ~ OfOp(q)
  BY <1>3 DEF OfOp
<1> QED BY <1>1, <1>3, <1>4, NoOpFits, UnsavedRecords

\* Operations that are not charged keep their cost.
LEMMA UnchargedRecords ==
    ASSUME TypeOK, RecordInv, NEW c \in Calls,
           FlushPending(c) \/ \E success \in BOOLEAN : CompleteOperation(c, success)
    PROVE  RecordInv'
<1>1. CASE FlushPending(c)
  <2> DEFINE q == [call[c] EXCEPT !.at = "written"]
  <2>1. /\ Set(c, q) /\ Unsaved /\ MayWrite(c)
        /\ call[c].at = "loaded" /\ call[c].kind = "gated"
    BY <1>1 DEF FlushPending, At
  <2>2. call[c] \in OpCall /\ OfOp(call[c])
    BY <2>1, CallShape DEF At, OnOp, OfOp
  <2>3. /\ q.at = "written" /\ q.kind = "gated" /\ q.of = call[c].of
        /\ q.row = call[c].row
    BY <2>1, <2>2 DEF OpCall
  <2> HIDE DEF q
  <2>4. RowFits(call[c], op) /\ q.kind \notin Charges
    BY <2>3, KindsDiffer DEF RecordInv
  <2>5. RowFits(q, op) /\ WalletFits(q, account)
    BY <2>1, <2>2, <2>3, <2>4 DEF RowFits, WalletFits
  <2>6. \A d \in Calls \ {c} : NotInTheWay(q, call[d])
    BY <2>1, <2>2, <2>3, StaysApart
  <2> QED BY <2>1, <2>5, <2>6, UnsavedRecords
<1>2. ASSUME NEW success \in BOOLEAN, CompleteOperation(c, success)
      PROVE  RecordInv'
  <2> DEFINE status == IF success THEN "success" ELSE "failed"
             q == [call[c] EXCEPT !.at = "written", !.row.status = status]
  <2>1. /\ Set(c, q) /\ Unsaved /\ MayWrite(c)
        /\ call[c].at = "found" /\ call[c].kind = "complete"
    BY <1>2 DEF CompleteOperation, At
  <2>2. call[c] \in OpCall /\ OfOp(call[c])
    BY <2>1, CallShape DEF At, OnOp, OfOp
  <2>3. /\ q.at = "written" /\ q.kind = "complete" /\ q.of = call[c].of
        /\ q.row.cost = call[c].row.cost /\ q.row.status = status
    BY <2>1, <2>2 DEF OpCall, OpRow
  <2>4. status \in {"success", "failed"}
    OBVIOUS
  <2> HIDE DEF q, status
  <2>5. RowFits(call[c], op) /\ q.kind \notin Charges /\ q.kind \notin Starts
    BY <2>3, KindsDiffer DEF RecordInv
  <2>6. RowFits(q, op) /\ WalletFits(q, account)
    BY <2>1, <2>2, <2>3, <2>4, <2>5 DEF RowFits, WalletFits
  <2>7. \A d \in Calls \ {c} : NotInTheWay(q, call[d])
    BY <2>1, <2>2, <2>3, StaysApart
  <2> QED BY <2>1, <2>6, <2>7, UnsavedRecords
<1> QED BY <1>1, <1>2

\* What settling and refunding take or give back, the operation costs more
\* or less.
LEMMA SettleRecords ==
    ASSUME TypeInv, RecordInv, NEW c \in Calls,
           \/ \E actual \in 1 .. MaxPerChat : SettleChatUsage(c, actual)
           \/ RefundStream(c)
    PROVE  RecordInv'
<1>1. ASSUME NEW q, NEW cost \in Int, Set(c, q), Unsaved, call[c] \in OpCall,
             call[c].at = "written", call[c].kind \in Chats,
             q.at = "settled", q.kind = call[c].kind, q.of = call[c].of,
             q.lost = call[c].lost, q.mine.used = call[c].mine.used + cost,
             q.row.cost = call[c].row.cost + cost, q.row.status \in {"success", "failed"}
      PROVE  RecordInv'
  <2>1. /\ OfOp(call[c]) /\ Took(call[c]) /\ Took(q) /\ TypeOK
        /\ q.kind \in Charges /\ q.kind \in Starts /\ q.kind \notin {"gated", "complete", "confirm"}
    BY <1>1, KindsDiffer DEF OfOp, Took, TypeInv, Chats
  <2>2. RowFits(call[c], op) /\ WalletFits(call[c], account)
    BY DEF RecordInv
  <2>3. RowFits(q, op)
    BY <1>1, <2>1, <2>2 DEF RowFits, Charged
  <2>4. account.used \in Nat /\ call[c].row.cost \in Nat /\ call[c].mine.used \in Nat
    BY <1>1, <2>1 DEF TypeOK, Account, OpCall, OpRow
  <2>5. WalletFits(q, account)
    BY <1>1, <2>1, <2>2, <2>4 DEF WalletFits
  <2>6. \A d \in Calls \ {c} : NotInTheWay(q, call[d])
    BY <1>1, <2>1, StaysApart
  <2> QED BY <1>1, <2>1, <2>3, <2>5, <2>6, UnsavedRecords
<1>2. ASSUME NEW actual \in 1 .. MaxPerChat, SettleChatUsage(c, actual)
      PROVE  RecordInv'
  <2> DEFINE extra == Extra(c, actual)
             q == Settled(c, extra)
  <2>1. Set(c, q) /\ Unsaved /\ call[c].at = "written" /\ call[c].kind \in Chats
    BY <1>2 DEF SettleChatUsage, At
  <2>2. call[c] \in OpCall /\ extra \in Int
    BY <1>2, ExtraBound
  <2>3. /\ q.at = "settled" /\ q.kind = call[c].kind /\ q.of = call[c].of
        /\ q.lost = call[c].lost /\ q.mine.used = call[c].mine.used + extra
        /\ q.row.cost = call[c].row.cost + extra /\ q.row.status = "success"
    BY <2>2 DEF Settled, OpCall, Charge
  <2> HIDE DEF q, extra
  <2> QED BY <1>1, <2>1, <2>2, <2>3
<1>3. CASE RefundStream(c)
  <2> DEFINE cost == - call[c].row.cost
             q == [call[c] EXCEPT !.at = "settled", !.mine = Charge(@, cost),
                                  !.row = [status |-> "failed", cost |-> 0]]
  <2>1. Set(c, q) /\ Unsaved /\ call[c].at = "written" /\ call[c].kind \in Chats
    BY <1>3 DEF RefundStream, At, Chats
  <2>2. call[c] \in OpCall /\ cost \in Int /\ call[c].row.cost \in Nat
    BY <1>3, RefundShape
  <2>3. /\ q.at = "settled" /\ q.kind = call[c].kind /\ q.of = call[c].of
        /\ q.lost = call[c].lost /\ q.mine.used = call[c].mine.used + cost
        /\ q.row.cost = 0 /\ q.row.status = "failed"
    BY <2>2 DEF OpCall, Charge
  <2>4. q.row.cost = call[c].row.cost + cost
    BY <2>2, <2>3
  <2> HIDE DEF q, cost
  <2> QED BY <1>1, <2>1, <2>2, <2>3, <2>4
<1> QED BY <1>2, <1>3

\* What an operation contributes to the credits used.
CostOf(r, free) == IF r.status \in Charged /\ ~ free THEN r.cost ELSE 0
Costs == [o \in Ops |-> CostOf(op[o], o \in unbilled)]

LEMMA CostsType ==
    ASSUME TypeOK
    PROVE  /\ Costs \in [Ops -> Nat]
           /\ Total(Costs) \in Nat
           /\ ChargesAreRecorded <=>
                 (gaps \cap {"stale", "twice"} = {} => account.used = Total(Costs))
<1>1. \A o \in Ops : op[o].cost \in Nat
  BY DEF TypeOK, OpRow
<1>2. Costs \in [Ops -> Nat]
  BY <1>1 DEF Costs, CostOf
<1>3. [o \in Ops |-> IF o \in Billed THEN op[o].cost ELSE 0] = Costs
  <2>1. \A o \in Ops : (IF o \in Billed THEN op[o].cost ELSE 0) = CostOf(op[o], o \in unbilled)
    BY DEF Billed, CostOf, Charged
  <2> QED BY <2>1 DEF Costs
<1>4. Total(Costs) \in Nat
  BY <1>2, OpsAssumption, UnitsFinite DEF OpsAssumption
<1> QED BY <1>2, <1>3, <1>4 DEF ChargesAreRecorded

\* A save changes the cost of the call's operation and of no other.
LEMMA CostsChange ==
    ASSUME TypeOK, TypeOK', NEW o \in Ops,
           \A p \in Ops \ {o} : op'[p] = op[p] /\ (p \in unbilled' <=> p \in unbilled)
    PROVE  Total(Costs)' = Total(Costs) - CostOf(op[o], o \in unbilled)
                                        + CostOf(op'[o], o \in unbilled')
<1>1. Costs \in [Ops -> Nat] /\ Costs' \in [Ops -> Nat]
  <2>1. Costs \in [Ops -> Nat]
    BY CostsType
  <2>2. \A p \in Ops : op'[p].cost \in Nat
    BY DEF TypeOK, OpRow
  <2>3. Costs' \in [Ops -> Nat]
    BY <2>2 DEF Costs, CostOf
  <2> QED BY <2>1, <2>3
<1>2. \A p \in Ops : /\ Costs[p] = CostOf(op[p], p \in unbilled)
                     /\ Costs'[p] = CostOf(op'[p], p \in unbilled')
  BY DEF Costs, CostOf
<1>3. \A p \in Ops \ {o} : Costs'[p] = Costs[p]
  BY DEF Costs, CostOf
<1> DEFINE f == Costs
           g == Costs'
<1>4. Total(g) = Total(f) - f[o] + g[o]
  <2> HIDE DEF f, g
  <2>1. f \in [Ops -> Nat] /\ g \in [Ops -> Nat] /\ \A p \in Ops \ {o} : g[p] = f[p]
    BY <1>1, <1>3 DEF f, g
  <2> QED BY <2>1, OpsAssumption, TotalChange DEF OpsAssumption
<1> QED BY <1>2, <1>4 DEF Total, Units

\* What a call that may end writes to its operation, and how the credits used
\* move with it.
LEMMA SavedRow ==
    ASSUME TypeOK, RecordInv, NEW c \in Calls, OnOp(c), Save(c), Took(call[c])
    PROVE  LET o == call[c].of  new == op'[o] IN
           /\ o \in Ops
           /\ new.status # "none" /\ new.cost = call[c].row.cost
           /\ \A p \in Ops \ {o} : op'[p] = op[p] /\ (p \in unbilled' <=> p \in unbilled)
           /\ o \in unbilled => o \in unbilled'
           /\ o \in unbilled' => new.status \in {"success", "failed"}
           /\ gaps' \cap {"stale", "twice"} = {} /\ gaps \cap {"stale", "twice"} = {} =>
                 account'.used - account.used =
                     CostOf(new, o \in unbilled') - CostOf(op[o], o \in unbilled)
<1> DEFINE o == call[c].of
           r == call[c].row
<1>1. /\ call[c].at \in {"written", "settled"} /\ OfOp(call[c]) /\ ~ At(c, "idle")
      /\ call[c].kind # "topup"
  BY DEF Took, OfOp, OnOp, At
<1>2. /\ call[c] \in OpCall /\ o \in Ops /\ r \in OpRow /\ op[o] \in OpRow
      /\ op \in [Ops -> OpRow] /\ account \in Account /\ call[c].mine \in Account
      /\ unbilled \subseteq Ops
  BY <1>1, CallShape DEF TypeOK, OpCall
<1>3. RowFits(call[c], op) /\ WalletFits(call[c], account) /\ RowsKept
  BY DEF RecordInv
<1>4. SaveOperation(c) /\ gaps' = gaps \cup call[c].lost
  BY DEF Save
<1>5. CASE call[c].kind = "complete"
  <2>1. /\ op' = [op EXCEPT ![o].status = r.status]
        /\ account' = account
        /\ unbilled' = IF op[o].status \in Confirmable THEN unbilled \cup {o} ELSE unbilled
    BY <1>4, <1>5 DEF SaveOperation, OnAccount
  <2>2. /\ op'[o].status = r.status /\ op'[o].cost = op[o].cost
        /\ \A p \in Ops \ {o} : op'[p] = op[p]
    BY <1>2, <2>1 DEF OpRow
  <2>3. r.status \in {"success", "failed"} /\ r.cost = op[o].cost /\ op[o].status # "none"
    BY <1>1, <1>3, <1>5 DEF RowFits, Took
  <2>4. CostOf(op'[o], o \in unbilled') = CostOf(op[o], o \in unbilled)
    <3>1. CASE op[o].status \in Confirmable
      BY <1>2, <2>1, <3>1 DEF CostOf, Charged, Confirmable
    <3>2. CASE op[o].status \notin Confirmable
      <4>1. op[o].status \in Charged
        BY <1>2, <2>3, <3>2 DEF OpRow, OpStatus, Charged, Confirmable
      <4>2. op'[o].status \in Charged /\ (o \in unbilled' <=> o \in unbilled)
        BY <2>1, <2>2, <2>3, <3>2 DEF Charged
      <4> QED BY <4>1, <4>2, <2>2 DEF CostOf
    <3> QED BY <3>1, <3>2
  <2>5. CostOf(op[o], o \in unbilled) \in Nat /\ account.used \in Nat
    BY <1>2 DEF CostOf, OpRow, Account
  <2>6. account'.used - account.used =
           CostOf(op'[o], o \in unbilled') - CostOf(op[o], o \in unbilled)
    BY <2>1, <2>4, <2>5
  <2>7. \A p \in Ops \ {o} : (p \in unbilled' <=> p \in unbilled)
    BY <2>1
  <2>8. o \in unbilled => o \in unbilled'
    BY <2>1
  <2> QED BY <1>2, <2>2, <2>3, <2>6, <2>7, <2>8
<1>6. CASE call[c].kind # "complete"
  <2>1. /\ op' = [op EXCEPT ![o] = r]
        /\ account' = IF OnAccount(c)
                      THEN [account EXCEPT !.left = call[c].mine.left,
                                           !.used = call[c].mine.used]
                      ELSE account
        /\ unbilled' = unbilled
    BY <1>4, <1>6 DEF SaveOperation
  <2>2. op'[o] = r /\ \A p \in Ops \ {o} : op'[p] = op[p]
    BY <1>2, <2>1
  <2>3. r.status # "none"
    BY <1>1, <1>3 DEF RowFits
  <2>4. account.used \in Nat /\ r.cost \in Nat
    BY <1>2 DEF Account, OpRow
  <2>5. CASE call[c].kind = "gated"
    <3>1. account' = account /\ op[o] = NoOp /\ r.status = "pending"
      BY <1>1, <1>3, <2>1, <2>5 DEF OnAccount, RowFits, Starts
    <3>2. CostOf(r, o \in unbilled) = 0 /\ CostOf(op[o], o \in unbilled) = 0
      BY <3>1 DEF CostOf, Charged, NoOp
    <3>3. o \notin unbilled
      BY <1>2, <1>3, <3>1 DEF RowsKept, NoOp
    <3>4. account'.used - account.used =
              CostOf(r, o \in unbilled) - CostOf(op[o], o \in unbilled)
      BY <2>4, <3>1, <3>2
    <3> QED BY <1>2, <2>1, <2>2, <2>3, <3>3, <3>4
  <2>6. CASE call[c].kind # "gated"
    <3>1. call[c].kind \in Charges /\ OnAccount(c)
      BY <1>1, <1>2, <1>6, <2>6 DEF OpCall, OpKinds, Starts, Charges, Chats, OnAccount
    <3>2. account'.used = call[c].mine.used
      BY <1>2, <2>1, <3>1 DEF Account
    <3>3. r.status \in Charged
      BY <1>1, <1>3, <3>1 DEF RowFits, Took
    <3>4. call[c].kind \in Starts \/ call[c].kind = "confirm"
      BY <3>1 DEF Charges, Starts, Chats
    <3>5. o \in unbilled => r.status \in {"success", "failed"}
      <4>1. CASE call[c].kind \in Starts
        <5>1. op[o] = NoOp
          BY <1>1, <1>3, <4>1 DEF RowFits
        <5> QED BY <1>2, <1>3, <5>1 DEF RowsKept, NoOp
      <4>2. CASE call[c].kind = "confirm"
        <5>1. r.status \in {"success", "failed"}
          BY <1>1, <1>3, <4>2 DEF RowFits, Took
        <5> QED BY <5>1
      <4> QED BY <3>4, <4>1, <4>2
    <3>6. ASSUME gaps' \cap {"stale", "twice"} = {}
          PROVE  account'.used - account.used =
                     CostOf(r, o \in unbilled) - CostOf(op[o], o \in unbilled)
      <4>1. "stale" \notin call[c].lost /\ "twice" \notin call[c].lost
        BY <1>4, <3>6
      <4>2. call[c].mine.used = account.used + r.cost
        BY <1>3, <3>1, <4>1 DEF WalletFits
      <4>3. o \notin unbilled /\ op[o].status \notin Charged
        <5>1. CASE call[c].kind \in Starts
          <6>1. op[o] = NoOp
            BY <1>1, <1>3, <5>1 DEF RowFits
          <6> QED BY <1>2, <1>3, <6>1 DEF RowsKept, NoOp, Charged
        <5>2. CASE call[c].kind = "confirm"
          <6>1. op[o].status \in Confirmable
            BY <1>1, <1>3, <4>1, <5>2 DEF RowFits
          <6> QED BY <1>2, <1>3, <6>1 DEF RowsKept, Confirmable, Charged
        <5> QED BY <3>4, <5>1, <5>2
      <4>4. CostOf(r, o \in unbilled) = r.cost /\ CostOf(op[o], o \in unbilled) = 0
        BY <3>3, <4>3 DEF CostOf
      <4> QED BY <2>4, <3>2, <4>2, <4>4
    <3> QED BY <1>2, <2>1, <2>2, <2>3, <3>5, <3>6
  <2> QED BY <2>5, <2>6
<1> QED BY <1>5, <1>6

\* A save leaves what the other calls have loaded true: none of them has the
\* rows locked, and none creates what is there now.
LEMMA OthersFit ==
    ASSUME TypeOK, RecordInv, LocksHold, NEW c \in Calls, Save(c), Took(call[c]),
           NEW d \in Calls \ {c}
    PROVE  RowFits(call[d], op') /\ WalletFits(call[d], account')
<1>1. RowFits(call[d], op) /\ WalletFits(call[d], account)
  BY DEF RecordInv
<1>2. RowFits(call[d], op')
  <2>1. CASE ~ OnOp(c)
    <3>1. op' = op
      BY <2>1 DEF Save, SaveTopUp
    <3> QED BY <1>1, <3>1
  <2>2. CASE OnOp(c) /\ OfOp(call[d]) /\ call[d].of = call[c].of
    <3>1. OfOp(call[c])
      BY <2>2 DEF OfOp, Took, OnOp
    <3>2. call[c].kind \notin Starts /\ call[d].kind \notin Starts /\ ~ Took(call[d])
      BY <2>2, <3>1 DEF RecordInv, Apart, NotInTheWay
    <3>3. call[c] \in OpCall
      BY <3>1, CallShape DEF OfOp, At, OnOp
    <3>4. call[c].kind \in {"confirm", "complete"}
      BY <3>2, <3>3 DEF OpCall, OpKinds
    <3>5. call[c].row.cost = op[call[c].of].cost
      BY <3>1, <3>4 DEF RecordInv, RowFits
    <3>6. /\ op'[call[c].of].status # "none"
          /\ op'[call[c].of].cost = op[call[c].of].cost
      BY <2>2, <3>5, SavedRow
    <3> QED BY <1>1, <2>2, <3>2, <3>6 DEF RowFits
  <2>3. CASE OnOp(c) /\ OfOp(call[d]) /\ call[d].of # call[c].of
    <3>1. call[d] \in OpCall
      BY <2>3, CallShape DEF OfOp, At, OnOp
    <3>2. op'[call[d].of] = op[call[d].of]
      BY <2>3, <3>1, SavedRow DEF OpCall
    <3> QED BY <1>1, <3>2 DEF RowFits
  <2>4. CASE ~ OfOp(call[d])
    BY <2>4 DEF RowFits
  <2> QED BY <2>1, <2>2, <2>3, <2>4
<1>3. WalletFits(call[d], account')
  <2>1. CASE OnAccount(c) /\ Took(call[d])
    <3>1. Locking(c) /\ ~ Locking(d)
      BY <2>1 DEF LocksHold, Locking, Took
    <3>2. ~ OnAccount(d)
      BY <2>1, <3>1 DEF Locking, Took
    <3>3. call[d].kind \notin Charges
      BY <3>2, KindsDiffer DEF OnAccount
    <3> QED BY <3>3 DEF WalletFits
  <2>2. CASE ~ OnAccount(c)
    <3>1. account' = account
      BY <2>2 DEF Save, SaveOperation, OnAccount, OnOp
    <3> QED BY <1>1, <3>1
  <2>3. CASE ~ Took(call[d])
    BY <2>3 DEF WalletFits
  <2> QED BY <2>1, <2>2, <2>3
<1> QED BY <1>2, <1>3

LEMMA SaveRecords ==
    ASSUME TypeOK, TypeOK', RecordInv, LocksHold, NEW c \in Calls, Save(c), Took(call[c])
    PROVE  RecordInv'
<1>1. Set(c, Idle) /\ ~ At(c, "idle")
  BY DEF Save, Took, At
<1>2. call'[c] = Idle /\ \A d \in Calls \ {c} : call'[d] = call[d]
  BY <1>1, SetCall
<1>3. ~ OfOp(Idle) /\ ~ Took(Idle)
  BY DEF OfOp, Took, Idle
<1>4. Apart'
  <2>1. ASSUME NEW a \in Calls, NEW b \in Calls, a # b
        PROVE  NotInTheWay(call'[a], call'[b])
    BY <1>2, <1>3, <2>1 DEF RecordInv, Apart, NotInTheWay
  <2> QED BY <2>1 DEF Apart, NotInTheWay, OfOp, Took
<1>5. \A d \in Calls : RowFits(call'[d], op') /\ WalletFits(call'[d], account')
  <2>1. RowFits(Idle, op') /\ WalletFits(Idle, account')
    BY <1>3 DEF RowFits, WalletFits
  <2> QED BY <1>2, <2>1, OthersFit
<1>6. \A d \in Calls : (RowFits(call[d], op) /\ WalletFits(call[d], account))'
  BY <1>5 DEF RowFits, WalletFits, OfOp, Took
<1>7. RowsKept' /\ ChargesAreRecorded'
  <2>1. CASE ~ OnOp(c)
    <3>1. /\ UNCHANGED <<op, unbilled>> /\ gaps \subseteq gaps'
          /\ account' = [account EXCEPT !.left = call[c].mine.left,
                                        !.total = call[c].mine.total]
      BY <2>1 DEF Save, SaveTopUp
    <3>2. account'.used = account.used
      BY <3>1 DEF TypeOK, Account
    <3> QED BY <3>1, <3>2 DEF RecordInv, RowsKept, ChargesAreRecorded, Billed
  <2>2. CASE OnOp(c)
    <3> DEFINE o == call[c].of
    <3>1. /\ o \in Ops /\ op'[o].status # "none"
          /\ \A p \in Ops \ {o} : op'[p] = op[p] /\ (p \in unbilled' <=> p \in unbilled)
          /\ o \in unbilled' => op'[o].status \in {"success", "failed"}
          /\ gaps' \cap {"stale", "twice"} = {} /\ gaps \cap {"stale", "twice"} = {} =>
                account'.used - account.used =
                    CostOf(op'[o], o \in unbilled') - CostOf(op[o], o \in unbilled)
      BY <2>2, SavedRow
    <3> HIDE DEF o
    <3>2. RowsKept'
      BY <3>1 DEF RecordInv, RowsKept
    <3>3. ASSUME gaps' \cap {"stale", "twice"} = {}
          PROVE  account'.used = Total(Costs)'
      <4>1. gaps \cap {"stale", "twice"} = {}
        BY <3>3 DEF Save
      <4>2. account.used = Total(Costs)
        BY <4>1, CostsType DEF RecordInv
      <4>3. Total(Costs)' = Total(Costs) - CostOf(op[o], o \in unbilled)
                                         + CostOf(op'[o], o \in unbilled')
        BY <3>1, CostsChange
      <4>4. account'.used - account.used =
               CostOf(op'[o], o \in unbilled') - CostOf(op[o], o \in unbilled)
        BY <3>1, <3>3, <4>1
      <4>5. /\ account.used \in Nat /\ account'.used \in Nat
            /\ CostOf(op[o], o \in unbilled) \in Nat
            /\ CostOf(op'[o], o \in unbilled') \in Nat
        BY <3>1 DEF TypeOK, Account, OpRow, CostOf
      <4> QED BY <4>2, <4>3, <4>4, <4>5
    <3>4. ChargesAreRecorded'
      <4>1. \A p \in Ops : (IF p \in Billed' THEN op'[p].cost ELSE 0) = CostOf(op'[p], p \in unbilled')
        BY DEF Billed, CostOf, Charged
      <4>2. [p \in Ops |-> IF p \in Billed' THEN op'[p].cost ELSE 0] = Costs'
        BY <4>1 DEF Costs, CostOf
      <4> QED BY <3>3, <4>2 DEF ChargesAreRecorded
    <3> QED BY <3>2, <3>4
  <2> QED BY <2>1, <2>2
<1> QED BY <1>4, <1>6, <1>7 DEF RecordInv

LEMMA InitRecords == Init => RecordInv
<1> SUFFICES ASSUME Init PROVE RecordInv
  OBVIOUS
<1>1. \A c \in Calls : call[c] = Idle
  BY DEF Init
<1>2. ~ OfOp(Idle) /\ ~ Took(Idle)
  BY DEF OfOp, Took, Idle
<1>3. Apart /\ \A c \in Calls : RowFits(call[c], op) /\ WalletFits(call[c], account)
  BY <1>1, <1>2 DEF Apart, NotInTheWay, RowFits, WalletFits
<1>4. RowsKept
  BY DEF Init, RowsKept
<1>5. ChargesAreRecorded
  <2>1. \A o \in Ops : Costs[o] = 0
    BY DEF Init, Costs, CostOf, NoOp, Charged
  <2>2. TypeOK
    BY InitType DEF TypeInv
  <2>3. Costs \in [Ops -> Nat]
    BY <2>2, CostsType
  <2> DEFINE f == Costs
  <2>4. Total(f) = 0
    <3> HIDE DEF f
    <3>1. f \in [Ops -> Nat] /\ \A o \in Ops : f[o] = 0
      BY <2>1, <2>3 DEF f
    <3> QED BY <3>1, TotalZero
  <2>5. account.used = 0
    BY DEF Init
  <2> QED BY <2>2, <2>4, <2>5, CostsType
<1> QED BY <1>3, <1>4, <1>5 DEF RecordInv

LEMMA NextRecords ==
    TypeInv /\ TypeInv' /\ ConservedInv /\ RecordInv /\ [Next]_vars => RecordInv'
<1> SUFFICES ASSUME TypeInv, TypeInv', ConservedInv, RecordInv, [Next]_vars PROVE RecordInv'
  OBVIOUS
<1>1. TypeOK /\ TypeOK' /\ LocksHold
  BY DEF TypeInv, ConservedInv
<1>2. CASE UNCHANGED vars
  BY <1>2 DEF vars, RecordInv, Apart, NotInTheWay, RowFits, WalletFits, OfOp, Took,
              RowsKept, ChargesAreRecorded, Billed
<1>3. ASSUME NEW c \in Calls,
             \/ \E kind \in Starts, o \in Ops : StartOperation(c, kind, o)
             \/ \E kind \in {"confirm", "complete"}, o \in Ops : GetOp(c, kind, o)
             \/ GrantCredits(c) \/ AssertCredits(c) \/ Abort(c)
      PROVE  RecordInv'
  BY <1>1, <1>3, StartRecords, GetOpRecords, GrantRecords, AssertRecords
<1>4. ASSUME NEW c \in Calls,
             \/ FlushCharge(c) \/ FlushPending(c) \/ FlushTopUp(c)
             \/ \E success \in BOOLEAN : CompleteOperation(c, success)
      PROVE  RecordInv'
  BY <1>1, <1>4, FlushChargeRecords, FlushTopUpRecords, UnchargedRecords
<1>5. ASSUME NEW c \in Calls,
             \/ \E actual \in 1 .. MaxPerChat : SettleChatUsage(c, actual)
             \/ RefundStream(c)
      PROVE  RecordInv'
  BY <1>5, SettleRecords
<1>6. ASSUME NEW c \in Calls, Commit(c) \/ CutShort(c)
      PROVE  RecordInv'
  BY <1>1, <1>6, SaveRecords DEF Commit, CutShort, At, Took
<1> QED BY <1>2, <1>3, <1>4, <1>5, <1>6 DEF Next

(***************************************************************************)
(* The credits used are what the operations that ran say they cost         *)
(* (credits.py), however chats are settled, refunded, cut short or         *)
(* aborted, operations are confirmed and completed, and requests           *)
(* interleave, as long as none of them wrote over another's wallet and     *)
(* none was confirmed twice at once.                                       *)
(***************************************************************************)
THEOREM EveryChargeIsRecorded == Spec => []ChargesAreRecorded
<1>1. RecordInv => ChargesAreRecorded
  BY DEF RecordInv
<1> QED BY <1>1, InitType, NextType, InitConserved, NextConserves,
           InitRecords, NextRecords, PTL DEF Spec
===============================================================================
