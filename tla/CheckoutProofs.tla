----------------------------- MODULE CheckoutProofs -----------------------------
(***************************************************************************)
(* What TLAPS proves of Checkout for any number of customers, orders,      *)
(* concurrent calls and addresses and any limits of the coupon.            *)
(*                                                                         *)
(* HostnameHeldOnce is not inductive.  An order keeps an address if it     *)
(* holds it or has its domain row (Keeps); what a call has allocated must  *)
(* not be kept by another customer for as long as the call has its lock    *)
(* (AllocatedIsFree), which no two calls that try the same address have    *)
(* at once (CallsOK).  Nothing but the end of such a call then lets an     *)
(* order keep what it did not keep before (Gains).                         *)
(***************************************************************************)
EXTENDS Checkout, FiniteSetTheorems, TLAPS

\* Calls as they go on, written out.
LEMMA NamedCall ==
    ASSUME NEW q \in Call, NEW h \in Hosts
    PROVE  [q EXCEPT !.at = "named", !.name = h] =
              [at |-> "named", kind |-> q.kind, o |-> q.o, wish |-> q.wish, name |-> h,
               drops |-> q.drops, count |-> q.count]
<1> DEFINE r == [q EXCEPT !.at = "named"]
<1>1. r = [at |-> "named", kind |-> q.kind, o |-> q.o, wish |-> q.wish, name |-> q.name,
           drops |-> q.drops, count |-> q.count]
  BY DEF Call
<1> HIDE DEF r
<1>2. [r EXCEPT !.name = h] =
              [at |-> "named", kind |-> q.kind, o |-> q.o, wish |-> q.wish, name |-> h,
               drops |-> q.drops, count |-> q.count]
  BY <1>1
<1> QED BY <1>2, Zenon DEF r

LEMMA PricedCall ==
    ASSUME NEW q \in Call, NEW n \in Nat
    PROVE  [q EXCEPT !.at = "priced", !.count = n] =
              [at |-> "priced", kind |-> q.kind, o |-> q.o, wish |-> q.wish, name |-> q.name,
               drops |-> q.drops, count |-> n]
<1> DEFINE r == [q EXCEPT !.at = "priced"]
<1>1. r = [at |-> "priced", kind |-> q.kind, o |-> q.o, wish |-> q.wish, name |-> q.name,
           drops |-> q.drops, count |-> q.count]
  BY DEF Call
<1> HIDE DEF r
<1>2. [r EXCEPT !.count = n] =
              [at |-> "priced", kind |-> q.kind, o |-> q.o, wish |-> q.wish, name |-> q.name,
               drops |-> q.drops, count |-> n]
  BY <1>1
<1> QED BY <1>2, Zenon DEF r

LEMMA WrittenCall ==
    ASSUME NEW q \in Call
    PROVE  [q EXCEPT !.at = "written"] =
              [at |-> "written", kind |-> q.kind, o |-> q.o, wish |-> q.wish, name |-> q.name,
               drops |-> q.drops, count |-> q.count]
BY DEF Call

USE CheckoutAssumption DEF CheckoutAssumption

Keeps(o, h) == (Holds(order[o]) /\ order[o].name = h) \/ served[h] = o

\* What a call in progress knows is so, and one order is one call's.
CallOK(c) ==
    /\ Asks[call[c].o] # {}
    /\ call[c].kind = "checkout" => ~ Exists(call[c].o)
    /\ call[c].kind = "rename" => Delivered(call[c].o)
    /\ call[c].at \in {"priced", "written"} => call[c].kind = "checkout"
    /\ \A p \in call[c].drops : Exists(p) /\ Owner[p] = Owner[call[c].o]
    /\ HasLock(c) => call[c].name \in Hosts /\ call[c].wish \in TriedAs(call[c].name)

CallsOK ==
    /\ \A c \in Busy : CallOK(c)
    /\ \A c, d \in Busy : c # d => call[c].o # call[d].o
    /\ \A c, d \in Calls : c # d /\ HasLock(c) /\ HasLock(d) =>
          LockOf[call[c].wish] # LockOf[call[d].wish]

RowsOK ==
    /\ \A o \in loose \cup redeemed : Exists(o)
    /\ \A h \in Hosts : served[h] # None => Exists(served[h])
    /\ \A o \in Orders : Exists(o) /\ Asks[o] # {} => order[o].name # None

\* A call that has checked the coupon and not finished.
Holding(c) == call[c].at \in {"priced", "written"} /\ Uses(c)

Counted == \A c \in Calls : Holding(c) => call[c].count < coupon.limit

KeptOnce ==
    \A o, p \in Orders \ loose, h \in Hosts :
        Owner[o] # Owner[p] /\ Keeps(o, h) /\ Keeps(p, h) => ~ OneLock(h)

AllocatedIsFree ==
    \A c \in Calls, p \in Orders \ loose :
        /\ HasLock(c) /\ OneLock(call[c].name)
        /\ Owner[p] # Owner[call[c].o]
        => ~ Keeps(p, call[c].name)

CouponOK ==
    /\ IsFiniteSet(redeemed)
    /\ together = {} =>
          /\ coupon.used = Cardinality(redeemed)
          /\ \A c \in Calls : Holding(c) =>
                /\ call[c].count = coupon.used
                /\ \A d \in Calls : Holding(d) => d = c
    /\ \A k \in Customers : <<k, k>> \notin together =>
          /\ Cardinality(UsedBy(k)) <= coupon.each
          /\ \A c \in Calls : Holding(c) /\ Owner[call[c].o] = k =>
                /\ Cardinality(UsedBy(k)) < coupon.each
                /\ \A d \in Calls : Holding(d) /\ Owner[call[d].o] = k => d = c

State == TypeOK /\ CallsOK /\ RowsOK /\ Counted
Inv == State /\ KeptOnce /\ AllocatedIsFree /\ CouponOK

-------------------------------------------------------------------------------
LEMMA CallShape ==
    ASSUME TypeOK, NEW c \in Calls, ~ At(c, "idle")
    PROVE  call[c] \in Call /\ c \in Busy
BY DEF TypeOK, At, Idle, Call, Busy

LEMMA IdleShape ==
    ASSUME TypeOK, NEW c \in Calls
    PROVE  /\ At(c, "idle") <=> c \notin Busy
           /\ c \notin Busy => ~ HasLock(c) /\ ~ Holding(c)
BY DEF At, Busy, HasLock, Holding

LEMMA RowShape ==
    ASSUME TypeOK, NEW o \in Orders
    PROVE  /\ Exists(o) => order[o] \in Row
           /\ order[o].pay # None => order[o] \in Row
           /\ Holds(order[o]) => Exists(o)
BY DEF TypeOK, Exists, Holds, Absent, Row, None

LEMMA SetCall ==
    ASSUME TypeOK, NEW c \in Calls, NEW value, Set(c, value)
    PROVE  /\ call'[c] = value
           /\ \A d \in Calls \ {c} : call'[d] = call[d]
           /\ value \in Call \cup {Idle} => call' \in [Calls -> Call \cup {Idle}]
BY DEF TypeOK, Set

LEMMA InitInv == Init => Inv
<1> SUFFICES ASSUME Init PROVE Inv
  OBVIOUS
<1>1. \A c \in Calls : c \notin Busy /\ ~ HasLock(c) /\ ~ Holding(c)
  BY DEF Init, Idle, Busy, At, HasLock, Holding
<1>2. \A o \in Orders, h \in Hosts : ~ Keeps(o, h)
  BY DEF Init, Keeps, Holds, Absent, None
<1>3. TypeOK
  BY DEF Init, TypeOK
<1>4. CallsOK /\ RowsOK /\ Counted
  BY <1>1 DEF Init, CallsOK, RowsOK, Counted, Busy, HasLock, Exists, Absent, None
<1>5. KeptOnce /\ AllocatedIsFree
  BY <1>1, <1>2 DEF KeptOnce, AllocatedIsFree
<1>6. CouponOK
  <2>1. \A k \in Customers : UsedBy(k) = {}
    BY DEF Init, UsedBy
  <2>2. coupon.used = 0 /\ coupon.each \in Nat
    BY DEF Init
  <2>3. \A k \in Customers : Cardinality(UsedBy(k)) <= coupon.each
    <3>1. \A k \in Customers : Cardinality(UsedBy(k)) = 0
      BY <2>1, FS_EmptySet, Zenon
    <3>2. coupon.each >= 0
      BY <2>2
    <3> QED BY <3>1, <3>2
  <2>4. IsFiniteSet(redeemed) /\ coupon.used = Cardinality(redeemed)
    BY <2>2, FS_EmptySet DEF Init
  <2> QED BY <1>1, <2>3, <2>4 DEF CouponOK
<1> QED BY <1>3, <1>4, <1>5, <1>6 DEF Inv, State

-------------------------------------------------------------------------------
(***************************************************************************)
(* Addresses: no order comes to keep one, but by the end of the call that  *)
(* has allocated it.                                                       *)
(***************************************************************************)
\* The calls that have a lock had it before.
LockedBefore(d) ==
    HasLock(d)' => /\ HasLock(d)
                   /\ call'[d].name = call[d].name /\ call'[d].o = call[d].o

LEMMA NoGain ==
    ASSUME Inv, loose \subseteq loose', \A d \in Calls : LockedBefore(d),
           \A p \in Orders \ loose', h \in Hosts : Keeps(p, h)' => Keeps(p, h)
    PROVE  KeptOnce' /\ AllocatedIsFree'
<1>1. KeptOnce'
  BY DEF Inv, KeptOnce
<1>2. AllocatedIsFree'
  <2> SUFFICES ASSUME NEW d \in Calls, NEW p \in Orders \ loose', HasLock(d)',
                      OneLock(call'[d].name), Owner[p] # Owner[call'[d].o]
               PROVE  ~ Keeps(p, call[d].name)'
    BY DEF AllocatedIsFree, OneLock, TriedAs
  <2>1. HasLock(d) /\ call'[d].name = call[d].name /\ call'[d].o = call[d].o
    BY DEF LockedBefore
  <2>2. d \in Busy /\ call[d].name \in Hosts
    BY <2>1, IdleShape DEF Inv, State, CallsOK, CallOK
  <2>3. ~ Keeps(p, call[d].name)
    BY <2>1, <2>2 DEF Inv, AllocatedIsFree
  <2> QED BY <2>1, <2>2, <2>3
<1> QED BY <1>1, <1>2

LEMMA OwnGain ==
    ASSUME Inv, loose' = loose, NEW c \in Calls, HasLock(c), Set(c, Idle),
           \A p \in Orders \ loose, h \in Hosts :
              Keeps(p, h)' => \/ Keeps(p, h)
                              \/ Owner[p] = Owner[call[c].o] /\ h = call[c].name
    PROVE  KeptOnce' /\ AllocatedIsFree'
<1> DEFINE Own(p, h) == Owner[p] = Owner[call[c].o] /\ h = call[c].name
<1>1. \A d \in Calls : HasLock(d)' => d # c /\ HasLock(d) /\ call'[d] = call[d]
  BY SetCall DEF Inv, State, HasLock, Idle
<1>2. \A d \in Calls : HasLock(d) => d \in Busy /\ call[d].name \in Hosts
                                     /\ call[d].wish \in TriedAs(call[d].name)
  BY IdleShape DEF Inv, State, CallsOK, CallOK
<1>3. KeptOnce'
  <2> SUFFICES ASSUME NEW o \in Orders \ loose, NEW p \in Orders \ loose, NEW h \in Hosts,
                      Owner[o] # Owner[p], Keeps(o, h)', Keeps(p, h)', OneLock(h)
               PROVE  FALSE
    BY DEF KeptOnce, OneLock, TriedAs
  <2>1. (Keeps(o, h) \/ Own(o, h)) /\ (Keeps(p, h) \/ Own(p, h))
    OBVIOUS
  <2>2. ~ (Keeps(o, h) /\ Keeps(p, h))
    BY DEF Inv, KeptOnce
  <2>3. ~ (Keeps(o, h) /\ Own(p, h)) /\ ~ (Own(o, h) /\ Keeps(p, h))
    BY DEF Inv, AllocatedIsFree
  <2> QED BY <2>1, <2>2, <2>3
<1>4. AllocatedIsFree'
  <2> SUFFICES ASSUME NEW d \in Calls, NEW p \in Orders \ loose, HasLock(d)',
                      OneLock(call'[d].name), Owner[p] # Owner[call'[d].o],
                      Keeps(p, call[d].name)'
               PROVE  FALSE
    BY DEF AllocatedIsFree, OneLock, TriedAs
  <2>1. d # c /\ HasLock(d) /\ call'[d] = call[d] /\ call[d].name \in Hosts
    BY <1>1, <1>2
  <2>2. ~ Keeps(p, call[d].name)
    BY <2>1 DEF Inv, AllocatedIsFree
  <2>3. call[d].name # call[c].name
    BY <1>2, <2>1 DEF Inv, State, CallsOK, OneLock
  <2> QED BY <2>1, <2>2, <2>3
<1> QED BY <1>3, <1>4

\* What allocate() returns.
LEMMA AllocateStep ==
    ASSUME TypeOK, NEW c \in Calls, Allocate(c)
    PROVE  \E h \in Hosts :
              /\ call' = [call EXCEPT ![c] = [call[c] EXCEPT !.at = "named", !.name = h]]
              /\ call[c] \in Call /\ ~ IsTaken(c, h) /\ call[c].wish \in TriedAs(h)
<1>1. call[c] \in Call
  BY CallShape DEF Allocate, At
<1> DEFINE w == call[c].wish
           tries == Tries[w]
<1>2. w \in Wishes /\ tries \in Seq(Hosts)
  BY <1>1 DEF Call
<1>3. PICK i \in 1 .. Len(tries) :
        ~ IsTaken(c, tries[i]) /\ Set(c, [call[c] EXCEPT !.at = "named", !.name = tries[i]])
  BY DEF Allocate
<1>4. tries[i] \in Hosts /\ w \in TriedAs(tries[i])
  BY <1>2, <1>3 DEF TriedAs
<1> QED BY <1>1, <1>3, <1>4 DEF Set

\* A call that has just allocated a name: nobody keeps it but its customer.
LEMMA AllocateKept ==
    ASSUME Inv, NEW c \in Calls, Allocate(c)
    PROVE  KeptOnce' /\ AllocatedIsFree'
<1>1. c \in Busy /\ CallOK(c)
  BY CallShape DEF Inv, State, CallsOK, Allocate, At
<1>2. PICK h \in Hosts :
        /\ call' = [call EXCEPT ![c] = [call[c] EXCEPT !.at = "named", !.name = h]]
        /\ call[c] \in Call /\ ~ IsTaken(c, h)
  BY AllocateStep DEF Inv, State
<1>3. /\ call'[c].name = h /\ call'[c].o = call[c].o
      /\ \A d \in Calls \ {c} : call'[d] = call[d]
  BY <1>2 DEF Inv, State, TypeOK, Call
<1>4. order' = order /\ served' = served /\ loose' = loose
  BY DEF Allocate, tables, history
<1>5. KeptOnce'
  BY <1>4 DEF Inv, KeptOnce, Keeps, Holds, OneLock, TriedAs
<1>6. \A p \in Orders : Owner[p] # Owner[call[c].o] => ~ Keeps(p, h)
  BY <1>1, <1>2 DEF IsTaken, Keeps, CallOK, None
<1>7. AllocatedIsFree'
  <2> SUFFICES ASSUME NEW d \in Calls, NEW p \in Orders \ loose, HasLock(d)',
                      OneLock(call'[d].name), Owner[p] # Owner[call'[d].o],
                      Keeps(p, call[d].name)'
               PROVE  FALSE
    BY <1>4 DEF AllocatedIsFree, OneLock, TriedAs
  <2>1. Keeps(p, call'[d].name)
    BY <1>4 DEF Keeps, Holds
  <2>2. CASE d = c
    BY <1>3, <1>6, <2>1, <2>2
  <2>3. CASE d # c
    <3>1. call'[d] = call[d] /\ HasLock(d)
      BY <1>3, <2>3 DEF HasLock
    <3> QED BY <2>1, <3>1 DEF Inv, AllocatedIsFree
  <2> QED BY <2>2, <2>3
<1> QED BY <1>5, <1>7

-------------------------------------------------------------------------------
(***************************************************************************)
(* The coupon.                                                             *)
(***************************************************************************)
HoldingBefore(d) ==
    Holding(d)' => /\ Holding(d)
                   /\ call'[d].o = call[d].o /\ call'[d].count = call[d].count

LEMMA CouponSame ==
    ASSUME CouponOK, Counted, UNCHANGED <<coupon, redeemed, together>>,
           \A d \in Calls : HoldingBefore(d)
    PROVE  CouponOK' /\ Counted'
<1>1. \A k \in Customers : UsedBy(k)' = UsedBy(k)
  BY DEF UsedBy
<1>2. Counted'
  BY DEF Counted, HoldingBefore
<1>3. CouponOK'
  BY <1>1 DEF CouponOK, HoldingBefore
<1> QED BY <1>2, <1>3

LEMMA ValidateCoupon ==
    ASSUME Inv, NEW c \in Calls, Validate(c)
    PROVE  CouponOK' /\ Counted'
<1> DEFINE customer == Owner[call[c].o]
<1>1. call[c] \in Call /\ customer \in Customers
  BY CallShape DEF Inv, State, Validate, At, Call
<1>2. /\ call' = [call EXCEPT ![c] = [call[c] EXCEPT !.at = "priced", !.count = coupon.used]]
      /\ coupon' = coupon /\ redeemed' = redeemed /\ coupon.used < coupon.limit
      /\ together' = together \cup ({customer} \X Checking(customer, c))
      /\ Cardinality(UsedBy(customer)) < coupon.each
  BY DEF Validate, Set, tables, HasUses
<1>3. /\ call'[c].count = coupon.used /\ call'[c].o = call[c].o
      /\ \A d \in Calls \ {c} : call'[d] = call[d]
  BY <1>1, <1>2 DEF Inv, State, TypeOK, Call
<1>4. \A d \in Calls \ {c} : Holding(d)' <=> Holding(d)
  BY <1>3 DEF Holding, Uses
<1>5. \A k \in Customers : UsedBy(k)' = UsedBy(k)
  BY <1>2 DEF UsedBy
<1>6. \A d \in Calls \ {c} : Holding(d) =>
         Owner[call[d].o] \in Customers /\ <<customer, Owner[call[d].o]>> \in together'
  <2> SUFFICES ASSUME NEW d \in Calls \ {c}, Holding(d)
               PROVE  Owner[call[d].o] \in Checking(customer, c) /\ Owner[call[d].o] \in Customers
    BY <1>2
  <2>1. call[d] \in Call /\ d \in Busy
    BY CallShape, IdleShape DEF Inv, State
  <2>2. Owner[call[d].o] \in Customers
    BY <2>1 DEF Call
  <2> QED BY <2>1, <2>2 DEF Checking, Holding
<1>7. Counted'
  BY <1>2, <1>3, <1>4 DEF Inv, State, Counted
<1>8. together' = {} => /\ coupon'.used = Cardinality(redeemed')
                        /\ \A d \in Calls : Holding(d)' => /\ call'[d].count = coupon'.used
                                                           /\ \A e \in Calls : Holding(e)' => e = d
  <2> SUFFICES ASSUME together' = {}
               PROVE  /\ coupon.used = Cardinality(redeemed)
                      /\ \A d \in Calls \ {c} : ~ Holding(d)
    BY <1>2, <1>3, <1>4
  <2>1. together = {}
    BY <1>2
  <2> QED BY <1>6, <2>1 DEF Inv, CouponOK
<1>9. ASSUME NEW k \in Customers, <<k, k>> \notin together'
      PROVE  /\ Cardinality(UsedBy(k)) <= coupon.each
             /\ \A d \in Calls : Holding(d)' /\ Owner[call'[d].o] = k =>
                   /\ Cardinality(UsedBy(k)) < coupon.each
                   /\ \A e \in Calls : Holding(e)' /\ Owner[call'[e].o] = k => e = d
  <2>1. <<k, k>> \notin together
    BY <1>2, <1>9
  <2>2. CASE k = customer
    <3>1. \A d \in Calls \ {c} : ~ (Holding(d)' /\ Owner[call'[d].o] = k)
      BY <1>3, <1>4, <1>6, <1>9, <2>2
    <3> QED BY <1>2, <2>1, <2>2, <3>1 DEF Inv, CouponOK
  <2>3. CASE k # customer
    <3>1. \A d \in Calls : Holding(d)' /\ Owner[call'[d].o] = k =>
             d # c /\ Holding(d) /\ Owner[call[d].o] = k
      BY <1>3, <1>4, <2>3
    <3> QED BY <2>1, <3>1 DEF Inv, CouponOK
  <2> QED BY <2>2, <2>3
<1>10. CouponOK'
  <2>1. IsFiniteSet(redeemed')
    BY <1>2 DEF Inv, CouponOK
  <2> QED BY <1>2, <1>5, <1>8, <1>9, <2>1 DEF CouponOK
<1> QED BY <1>7, <1>10

\* The commit of a call that has checked the coupon.
LEMMA RedeemCoupon ==
    ASSUME Inv, NEW c \in Calls, NEW free \in BOOLEAN, Holding(c), Redeem(c, free),
           Set(c, Idle), together' = together
    PROVE  CouponOK' /\ Counted' /\ coupon' \in [used : 0 .. coupon'.limit, limit : Nat, each : Nat]
<1> DEFINE customer == Owner[call[c].o]
           o == call[c].o
<1>1. call[c] \in Call /\ customer \in Customers /\ c \in Busy
  BY CallShape, IdleShape DEF Inv, State, Call
<1>2. o \notin redeemed /\ o \in Orders
  BY <1>1 DEF Inv, State, CallsOK, CallOK, RowsOK, Holding, Uses, Call
<1>3. /\ call[c].count \in Nat /\ call[c].count < coupon.limit
      /\ coupon \in [used : 0 .. coupon.limit, limit : Nat, each : Nat]
  BY <1>1 DEF Inv, State, TypeOK, Counted, Call
<1>4. /\ coupon'.used = call[c].count + 1 /\ coupon'.limit = coupon.limit
      /\ coupon'.each = coupon.each /\ redeemed' = redeemed \cup {o}
      /\ coupon' \in [used : 0 .. coupon'.limit, limit : Nat, each : Nat]
  BY <1>3 DEF Redeem
<1>5. \A d \in Calls : Holding(d)' => d # c /\ Holding(d) /\ call'[d] = call[d]
  BY SetCall DEF Inv, State, Holding, Uses, Idle
<1>6. Counted'
  BY <1>4, <1>5 DEF Inv, State, Counted
<1>7. IsFiniteSet(redeemed') /\ Cardinality(redeemed') = Cardinality(redeemed) + 1
  BY <1>2, <1>4, FS_AddElement DEF Inv, CouponOK
<1>8. together = {} => coupon'.used = Cardinality(redeemed') /\ \A d \in Calls : ~ Holding(d)'
  BY <1>4, <1>5, <1>7 DEF Inv, CouponOK
<1>9. ASSUME NEW k \in Customers, <<k, k>> \notin together
      PROVE  /\ Cardinality(UsedBy(k)') <= coupon.each
             /\ \A d \in Calls : Holding(d)' /\ Owner[call'[d].o] = k =>
                   /\ Cardinality(UsedBy(k)') < coupon.each
                   /\ \A e \in Calls : Holding(e)' /\ Owner[call'[e].o] = k => e = d
  <2>1. CASE k = customer
    <3>1. UsedBy(k)' = UsedBy(k) \cup {o} /\ o \notin UsedBy(k) /\ UsedBy(k) \subseteq redeemed
      BY <1>2, <1>4, <2>1 DEF UsedBy
    <3>2. IsFiniteSet(UsedBy(k))
      BY <3>1, FS_Subset DEF Inv, CouponOK
    <3>3. Cardinality(UsedBy(k)') = Cardinality(UsedBy(k)) + 1 /\ Cardinality(UsedBy(k)) \in Nat
      BY <3>1, <3>2, FS_AddElement, FS_CardinalityType
    <3>4. Cardinality(UsedBy(k)) < coupon.each
      BY <1>9, <2>1 DEF Inv, CouponOK
    <3>5. Cardinality(UsedBy(k)') <= coupon.each
      BY <1>3, <3>3, <3>4
    <3>6. \A d \in Calls : ~ (Holding(d)' /\ Owner[call'[d].o] = k)
      BY <1>5, <1>9, <2>1 DEF Inv, CouponOK
    <3> QED BY <3>5, <3>6
  <2>2. CASE k # customer
    <3>1. UsedBy(k)' = UsedBy(k)
      BY <1>4, <2>2 DEF UsedBy
    <3> QED BY <1>5, <1>9, <3>1 DEF Inv, CouponOK
  <2> QED BY <2>1, <2>2
<1>10. CouponOK'
  BY <1>4, <1>7, <1>8, <1>9 DEF CouponOK
<1> QED BY <1>4, <1>6, <1>10

-------------------------------------------------------------------------------
(***************************************************************************)
(* The calls: each step changes one of them.                               *)
(***************************************************************************)
\* An order row is never taken back, and stays the same order's.
RowsGrow == \A p \in Orders : Exists(p) => Exists(p)'

\* What the calls know, kept by a step that changes the call c only.
LEMMA CallsKept ==
    ASSUME State, TypeOK', NEW c \in Calls, \A d \in Calls \ {c} : call'[d] = call[d],
           \A d \in Busy \ {c} : call[d].kind = "checkout" => ~ Exists(call[d].o)',
           RowsGrow, \A p \in Orders : Delivered(p) => Delivered(p)',
           c \in Busy' => CallOK(c)',
           c \in Busy' => \A d \in Busy \ {c} : call[d].o # call'[c].o,
           HasLock(c)' => \A d \in Calls \ {c} : HasLock(d) =>
                             LockOf[call[d].wish] # LockOf[call'[c].wish]
    PROVE  CallsOK'
<1>1. \A d \in Calls \ {c} : (d \in Busy' <=> d \in Busy) /\ (HasLock(d)' <=> HasLock(d))
  BY DEF Busy, At, HasLock
<1>2. \A d \in Busy \ {c} : CallOK(d) /\ call[d] \in Call
  BY CallShape DEF State, CallsOK, Busy
<1>3. ASSUME NEW d \in Busy \ {c} PROVE CallOK(d)'
  <2>1. d \in Calls /\ call'[d] = call[d] /\ call[d].o \in Orders /\ call[d].drops \subseteq Orders
    BY <1>2 DEF Busy, Call
  <2> QED BY <1>2, <2>1 DEF CallOK, RowsGrow, HasLock, TriedAs
<1>4. \A d \in Busy' : CallOK(d)'
  BY <1>1, <1>3 DEF Busy
<1>5. \A d, e \in Busy' : d # e => call'[d].o # call'[e].o
  <2> SUFFICES ASSUME NEW d \in Busy', NEW e \in Busy', d # e PROVE call'[d].o # call'[e].o
    OBVIOUS
  <2>1. d \in Calls /\ e \in Calls
    BY DEF Busy
  <2>2. CASE d # c /\ e # c
    BY <1>1, <2>1, <2>2 DEF State, CallsOK
  <2>3. CASE d = c \/ e = c
    BY <1>1, <2>1, <2>3
  <2> QED BY <2>2, <2>3
<1>6. \A d, e \in Calls : d # e /\ HasLock(d)' /\ HasLock(e)' =>
         LockOf[call'[d].wish] # LockOf[call'[e].wish]
  <2> SUFFICES ASSUME NEW d \in Calls, NEW e \in Calls, d # e, HasLock(d)', HasLock(e)'
               PROVE  LockOf[call'[d].wish] # LockOf[call'[e].wish]
    OBVIOUS
  <2>1. CASE d # c /\ e # c
    BY <1>1, <2>1 DEF State, CallsOK
  <2>2. CASE d = c \/ e = c
    BY <1>1, <2>2
  <2> QED BY <2>1, <2>2
<1> QED BY <1>4, <1>5, <1>6 DEF CallsOK

\* A step that leaves the tables alone.
LEMMA TablesKept ==
    ASSUME State, UNCHANGED tables
    PROVE  RowsGrow /\ (\A p \in Orders : Exists(p)' = Exists(p) /\ Delivered(p)' = Delivered(p))
BY DEF tables, RowsGrow, Exists, Delivered

LEMMA BusyCall ==
    ASSUME State
    PROVE  \A d \in Busy : d \in Calls /\ CallOK(d) /\ call[d] \in Call
BY CallShape DEF State, CallsOK, Busy

LEMMA BeginInv ==
    ASSUME Inv, NEW c \in Calls, NEW o \in Orders, NEW w \in Asks[o],
           Begin(c, o, w) \/ BeginRename(c, o, w)
    PROVE  Inv'
<1> DEFINE q == call'[c]
<1>1. /\ q \in Call /\ q.o = o /\ q.at = "begun" /\ c \notin Busy
      /\ \A d \in Calls \ {c} : call'[d] = call[d]
      /\ call' \in [Calls -> Call \cup {Idle}]
      /\ q.kind = "checkout" => ~ Exists(o)
      /\ q.kind = "rename" => Delivered(o)
      /\ \A p \in q.drops : Exists(p) /\ Owner[p] = Owner[o]
      /\ \A d \in Busy : call[d].o # o
  <2>1. CASE Begin(c, o, w)
    <3>1. Unpaid(Owner[o]) \subseteq Orders
          /\ \A p \in Unpaid(Owner[o]) : Exists(p) /\ Owner[p] = Owner[o]
      BY DEF Unpaid, Exists, None
    <3>2. [at |-> "begun", kind |-> "checkout", o |-> o, wish |-> w, name |-> None,
           drops |-> Unpaid(Owner[o]), count |-> 0] \in Call
      BY <3>1 DEF Call
    <3> QED BY <2>1, <3>1, <3>2, SetCall, IdleShape DEF Inv, State, Begin
  <2>2. CASE BeginRename(c, o, w)
    <3>1. [at |-> "begun", kind |-> "rename", o |-> o, wish |-> w, name |-> None,
           drops |-> {}, count |-> 0] \in Call
      BY DEF Call
    <3> QED BY <2>2, <3>1, SetCall, IdleShape DEF Inv, State, BeginRename
  <2> QED BY <2>1, <2>2
<1>2. UNCHANGED <<order, served, coupon, redeemed, loose, together>>
  BY DEF Begin, BeginRename, tables, history
<1>3. TypeOK'
  BY <1>1, <1>2 DEF Inv, State, TypeOK, Row
<1>4. ~ HasLock(c)' /\ ~ Holding(c)'
  BY <1>1 DEF HasLock, Holding
<1>5. CallOK(c)'
  BY <1>1, <1>2, <1>4 DEF CallOK, Exists, Delivered
<1>6. CallsOK'
  <2>1. \A d \in Busy \ {c} : call[d].kind = "checkout" => ~ Exists(call[d].o)'
    BY <1>1, <1>2, BusyCall DEF Inv, CallOK, Exists
  <2>2. RowsGrow /\ \A p \in Orders : Delivered(p) => Delivered(p)'
    BY <1>2 DEF RowsGrow, Exists, Delivered
  <2> QED BY <1>1, <1>3, <1>4, <1>5, <2>1, <2>2, CallsKept DEF Inv
<1>7. RowsOK'
  BY <1>2 DEF Inv, State, RowsOK, Exists
<1>8. CouponOK' /\ Counted'
  <2>1. \A d \in Calls : HoldingBefore(d)
    BY <1>1, <1>4 DEF HoldingBefore, Holding, Uses
  <2> QED BY <1>2, <2>1, CouponSame DEF Inv, State
<1>9. KeptOnce' /\ AllocatedIsFree'
  <2>1. \A d \in Calls : LockedBefore(d)
    BY <1>1, <1>4 DEF LockedBefore, HasLock
  <2>2. \A p \in Orders \ loose', h \in Hosts : Keeps(p, h)' => Keeps(p, h)
    BY <1>2 DEF Keeps, Holds
  <2> QED BY <1>2, <2>1, <2>2, NoGain
<1> QED BY <1>3, <1>6, <1>7, <1>8, <1>9 DEF Inv, State

LEMMA AllocateInv ==
    ASSUME Inv, NEW c \in Calls, Allocate(c)
    PROVE  Inv'
<1>1. PICK h \in Hosts :
        /\ call' = [call EXCEPT ![c] = [call[c] EXCEPT !.at = "named", !.name = h]]
        /\ call[c] \in Call /\ ~ IsTaken(c, h) /\ call[c].wish \in TriedAs(h)
  BY AllocateStep DEF Inv, State
<1>2. c \in Busy /\ CallOK(c) /\ LockIsFree(c) /\ ~ HasLock(c)
  BY CallShape DEF Inv, State, CallsOK, Allocate, At, HasLock
<1>3. /\ call'[c] = [call[c] EXCEPT !.at = "named", !.name = h]
      /\ \A d \in Calls \ {c} : call'[d] = call[d]
  BY <1>1 DEF Inv, State, TypeOK
<1>4. /\ call'[c].at = "named" /\ call'[c].name = h /\ call'[c].o = call[c].o
      /\ call'[c].kind = call[c].kind /\ call'[c].wish = call[c].wish
      /\ call'[c].drops = call[c].drops /\ call'[c] \in Call
  <2>1. call'[c] = [at |-> "named", kind |-> call[c].kind, o |-> call[c].o,
                    wish |-> call[c].wish, name |-> h, drops |-> call[c].drops,
                    count |-> call[c].count]
    BY <1>1, <1>3, NamedCall
  <2> QED BY <1>1, <2>1 DEF Call
<1>5. call' \in [Calls -> Call \cup {Idle}]
  BY <1>1, <1>3, <1>4 DEF Inv, State, TypeOK
<1>6. UNCHANGED <<order, served, coupon, redeemed, loose, together>>
  BY DEF Allocate, tables, history
<1>7. TypeOK'
  BY <1>5, <1>6 DEF Inv, State, TypeOK, Row
<1>8. CallOK(c)'
  <2>1. call'[c].name \in Hosts /\ call'[c].wish \in TriedAs(call'[c].name)
    BY <1>1, <1>4
  <2>2. \A p : Exists(p)' <=> Exists(p)
    BY <1>6 DEF Exists
  <2>3. \A p : Delivered(p)' <=> Delivered(p)
    BY <1>6 DEF Delivered
  <2>4. call'[c].kind = "checkout" => ~ Exists(call[c].o)
    BY <1>2, <1>4 DEF CallOK
  <2>5. call'[c].kind = "rename" => Delivered(call[c].o)
    BY <1>2, <1>4 DEF CallOK
  <2>6. \A p \in call'[c].drops : Exists(p) /\ Owner[p] = Owner[call[c].o]
    BY <1>2, <1>4 DEF CallOK
  <2>7. TriedAs(call[c].name)' = TriedAs(call'[c].name)
    BY DEF TriedAs
  <2>8. Asks[call'[c].o] # {}
    BY <1>2, <1>4 DEF CallOK
  <2> QED BY <1>4, <1>6, <2>1, <2>4, <2>5, <2>6, <2>7, <2>8 DEF CallOK, Exists, Delivered
<1>9. CallsOK'
  <2>1. \A d \in Busy \ {c} : call[d].kind = "checkout" => ~ Exists(call[d].o)'
    BY <1>3, <1>6, BusyCall DEF Inv, CallOK, Exists
  <2>2. RowsGrow /\ \A p \in Orders : Delivered(p) => Delivered(p)'
    BY <1>6 DEF RowsGrow, Exists, Delivered
  <2>3. \A d \in Busy \ {c} : call[d].o # call'[c].o
    BY <1>2, <1>4 DEF Inv, State, CallsOK
  <2>4. \A d \in Calls \ {c} : HasLock(d) => LockOf[call[d].wish] # LockOf[call'[c].wish]
    BY <1>2, <1>4 DEF LockIsFree
  <2> QED BY <1>3, <1>7, <1>8, <2>1, <2>2, <2>3, <2>4, CallsKept DEF Inv
<1>10. RowsOK'
  BY <1>6 DEF Inv, State, RowsOK, Exists
<1>11. CouponOK' /\ Counted'
  <2>1. \A d \in Calls : HoldingBefore(d)
    BY <1>3, <1>4 DEF HoldingBefore, Holding, Uses
  <2> QED BY <1>6, <2>1, CouponSame DEF Inv, State
<1> QED BY <1>7, <1>9, <1>10, <1>11, AllocateKept DEF Inv, State

\* A call that has its lock goes on under it, or a call ends without a trace.
Advances(c, q) ==
    /\ HasLock(c) /\ q \in Call /\ q.kind = "checkout"
    /\ q.kind = call[c].kind /\ q.o = call[c].o /\ q.wish = call[c].wish
    /\ q.name = call[c].name /\ q.drops = call[c].drops

LEMMA AdvanceInv ==
    ASSUME Inv, NEW c \in Calls, NEW q, Set(c, q), q = Idle \/ Advances(c, q),
           UNCHANGED <<order, served, redeemed, loose>>,
           coupon' = coupon, together' \in SUBSET (Customers \X Customers),
           CouponOK' /\ Counted'
    PROVE  Inv'
<1>1. /\ call'[c] = q /\ \A d \in Calls \ {c} : call'[d] = call[d]
      /\ call' \in [Calls -> Call \cup {Idle}]
  BY SetCall DEF Inv, State, Advances
<1>2. TypeOK'
  BY <1>1 DEF Inv, State, TypeOK, Row
<1>3. c \in Busy' => Advances(c, q) /\ c \in Busy /\ CallOK(c)
  <2> SUFFICES ASSUME c \in Busy' PROVE Advances(c, q) /\ c \in Busy /\ CallOK(c)
    OBVIOUS
  <2>1. Advances(c, q)
    BY <1>1 DEF Busy, At, Idle
  <2>2. c \in Busy
    BY <2>1, IdleShape DEF Inv, State, Advances
  <2> QED BY <2>1, <2>2 DEF Inv, State, CallsOK
<1>4. HasLock(c)' => c \in Busy' /\ HasLock(c)
  BY <1>1, <1>3 DEF HasLock, Busy, At, Idle, Advances
<1>5. (\A p : Exists(p)' <=> Exists(p)) /\ (\A p : Delivered(p)' <=> Delivered(p))
  BY DEF Exists, Delivered
<1>6. c \in Busy' => CallOK(c)'
  <2> SUFFICES ASSUME c \in Busy' PROVE CallOK(c)'
    OBVIOUS
  <2>1. Advances(c, q) /\ CallOK(c)
    BY <1>3
  <2>2. call'[c].name \in Hosts /\ call'[c].wish \in TriedAs(call'[c].name)
    BY <1>1, <2>1 DEF Advances, CallOK
  <2>3. TriedAs(call[c].name)' = TriedAs(call'[c].name)
    BY DEF TriedAs
  <2>4. /\ ~ Exists(call[c].o) /\ call'[c].o = call[c].o /\ call'[c].kind = "checkout"
        /\ \A p \in call'[c].drops : Exists(p) /\ Owner[p] = Owner[call[c].o]
        /\ Asks[call'[c].o] # {}
    BY <1>1, <2>1 DEF Advances, CallOK
  <2> QED BY <2>2, <2>3, <2>4 DEF CallOK, Exists
<1>7. CallsOK'
  <2>1. \A d \in Busy \ {c} : call[d].kind = "checkout" => ~ Exists(call[d].o)'
    BY <1>1, BusyCall DEF Inv, CallOK, Exists
  <2>2. RowsGrow /\ \A p \in Orders : Delivered(p) => Delivered(p)'
    BY <1>5 DEF RowsGrow
  <2>3. c \in Busy' => \A d \in Busy \ {c} : call[d].o # call'[c].o
    BY <1>1, <1>3 DEF Inv, State, CallsOK, Advances
  <2>4. HasLock(c)' => \A d \in Calls \ {c} : HasLock(d) =>
                          LockOf[call[d].wish] # LockOf[call'[c].wish]
    BY <1>1, <1>3, <1>4 DEF Inv, State, CallsOK, Advances
  <2> QED BY <1>1, <1>2, <1>6, <2>1, <2>2, <2>3, <2>4, CallsKept DEF Inv
<1>8. RowsOK'
  BY DEF Inv, State, RowsOK, Exists
<1>9. KeptOnce' /\ AllocatedIsFree'
  <2>1. \A d \in Calls : LockedBefore(d)
    BY <1>1, <1>3, <1>4 DEF LockedBefore, HasLock, Advances
  <2>2. \A p \in Orders \ loose', h \in Hosts : Keeps(p, h)' => Keeps(p, h)
    BY DEF Keeps, Holds
  <2> QED BY <2>1, <2>2, NoGain
<1> QED BY <1>2, <1>7, <1>8, <1>9 DEF Inv, State

LEMMA ValidateInv ==
    ASSUME Inv, NEW c \in Calls, Validate(c)
    PROVE  Inv'
<1> DEFINE q == [call[c] EXCEPT !.at = "priced", !.count = coupon.used]
<1>1. /\ call[c] \in Call /\ Owner[call[c].o] \in Customers /\ coupon.used \in Nat
      /\ HasLock(c) /\ call[c].kind = "checkout"
  BY CallShape DEF Inv, State, TypeOK, Validate, At, Call, HasLock, Uses
<1>2. q = [at |-> "priced", kind |-> call[c].kind, o |-> call[c].o, wish |-> call[c].wish,
           name |-> call[c].name, drops |-> call[c].drops, count |-> coupon.used]
  BY <1>1, PricedCall
<1> HIDE DEF q
<1>3. Advances(c, q)
  BY <1>1, <1>2 DEF Advances, Call
<1>4. Set(c, q) /\ UNCHANGED <<order, served, redeemed, loose, coupon>>
  BY DEF Validate, tables, q
<1>5. together' \in SUBSET (Customers \X Customers)
  BY <1>1 DEF Validate, Checking, Inv, State, TypeOK
<1> QED BY <1>3, <1>4, <1>5, ValidateCoupon, AdvanceInv

LEMMA InsertInv ==
    ASSUME Inv, NEW c \in Calls, Insert(c)
    PROVE  Inv'
<1> DEFINE q == [call[c] EXCEPT !.at = "written"]
<1>1. call[c] \in Call /\ HasLock(c) /\ call[c].kind = "checkout"
  BY CallShape DEF Inv, State, At, HasLock, Insert
<1>2. q = [at |-> "written", kind |-> call[c].kind, o |-> call[c].o, wish |-> call[c].wish,
           name |-> call[c].name, drops |-> call[c].drops, count |-> call[c].count]
  BY <1>1, WrittenCall
<1> HIDE DEF q
<1>3. Advances(c, q)
  BY <1>1, <1>2 DEF Advances, Call
<1>4. Set(c, q) /\ UNCHANGED <<order, served, redeemed, loose, coupon, together>>
  BY DEF Insert, tables, history, q
<1>5. \A d \in Calls : HoldingBefore(d)
  <2>1. call'[c] = q /\ \A d \in Calls \ {c} : call'[d] = call[d]
    BY <1>4, SetCall DEF Inv, State
  <2>2. Uses(c) => At(c, "priced")
    BY DEF Insert
  <2> QED BY <1>2, <2>1, <2>2 DEF HoldingBefore, Holding, Uses, At
<1>6. CouponOK' /\ Counted'
  BY <1>4, <1>5, CouponSame DEF Inv, State
<1>7. together' \in SUBSET (Customers \X Customers)
  BY <1>4 DEF Inv, State, TypeOK
<1> QED BY <1>3, <1>4, <1>6, <1>7, AdvanceInv

LEMMA AbortInv ==
    ASSUME Inv, NEW c \in Calls, Abort(c)
    PROVE  Inv'
<1>1. Set(c, Idle) /\ UNCHANGED <<order, served, redeemed, loose, coupon, together>>
  BY DEF Abort, tables, history
<1>2. \A d \in Calls : HoldingBefore(d)
  BY <1>1, SetCall DEF HoldingBefore, Holding, Uses, Idle, Inv, State
<1>3. CouponOK' /\ Counted'
  BY <1>1, <1>2, CouponSame DEF Inv, State
<1>4. together' \in SUBSET (Customers \X Customers)
  BY <1>1 DEF Inv, State, TypeOK
<1> QED BY <1>1, <1>3, <1>4, AdvanceInv

-------------------------------------------------------------------------------
(***************************************************************************)
(* What happens to orders between the checkouts.                           *)
(***************************************************************************)
\* A step of another call: nobody but loose orders comes to keep an address.
LEMMA TablesInv ==
    ASSUME Inv, UNCHANGED <<coupon, redeemed, call, together>>,
           order' \in [Orders -> Row \cup {Absent}], served' \in [Hosts -> Orders \cup {None}],
           RowsGrow, \A p \in Orders : Exists(p)' => Exists(p) \/ Asks[p] = {},
           \A p \in Orders : Exists(p)' /\ Asks[p] # {} => order'[p].name # None,
           \A h \in Hosts : served'[h] # None => Exists(served[h])',
           \A p \in Orders : Delivered(p) => Delivered(p)',
           loose \subseteq loose', \A p \in loose' : p \in Orders /\ Exists(p)',
           \A p \in Orders \ loose', h \in Hosts : Keeps(p, h)' => Keeps(p, h)
    PROVE  Inv'
<1>1. TypeOK'
  BY DEF Inv, State, TypeOK
<1>2. CallsOK'
  <2>1. \A d \in Busy : CallOK(d)'
    <3> SUFFICES ASSUME NEW d \in Busy PROVE CallOK(d)'
      OBVIOUS
    <3>1. CallOK(d) /\ call[d].o \in Orders /\ call[d].drops \subseteq Orders
      BY BusyCall DEF Inv, Call
    <3> QED BY <3>1 DEF CallOK, HasLock, TriedAs, RowsGrow
  <2> QED BY <2>1 DEF Inv, State, CallsOK, Busy, At, HasLock
<1>3. RowsOK'
  <2>1. \A p \in redeemed : p \in Orders /\ Exists(p)'
    BY DEF Inv, State, RowsOK, TypeOK, RowsGrow
  <2> QED BY <2>1 DEF RowsOK
<1>4. KeptOnce' /\ AllocatedIsFree'
  <2>1. \A d \in Calls : LockedBefore(d)
    BY DEF LockedBefore, HasLock
  <2> QED BY <2>1, NoGain
<1>5. CouponOK' /\ Counted'
  <2>1. \A d \in Calls : HoldingBefore(d)
    BY DEF HoldingBefore, Holding, Uses
  <2> QED BY <2>1, CouponSame DEF Inv, State
<1> QED BY <1>1, <1>2, <1>3, <1>4, <1>5 DEF Inv, State

Serves(o, row) ==
    \/ UNCHANGED served
    \/ /\ Holds(row) /\ row.name # None /\ served[row.name] = None
       /\ served' = [served EXCEPT ![row.name] = o]

LEMMA PutInv ==
    ASSUME Inv, NEW o \in Orders, NEW row \in Row, Asks[o] # {} => row.name # None,
           Put(o, row), Serves(o, row)
    PROVE  Inv'
<1>1. /\ order' = [order EXCEPT ![o] = row] /\ Exists(o) /\ loose \subseteq loose'
      /\ loose' \subseteq loose \cup {o}
      /\ UNCHANGED <<coupon, redeemed, call, together>>
  BY DEF Put
<1>2. order'[o] = row /\ \A p \in Orders \ {o} : order'[p] = order[p]
  BY <1>1 DEF Inv, State, TypeOK
<1>3. row.pay # None /\ row.name \in Hosts \cup {None}
  BY DEF Row, None
<1>4. \A p \in Orders : Exists(p)' <=> Exists(p)
  BY <1>1, <1>2, <1>3 DEF Exists
<1>5. \A h \in Hosts : \/ served'[h] = served[h]
                       \/ /\ h = row.name /\ served[h] = None /\ served'[h] = o
                          /\ Holds(row)
  BY <1>3 DEF Serves, Inv, State, TypeOK
<1>6. order' \in [Orders -> Row \cup {Absent}] /\ served' \in [Hosts -> Orders \cup {None}]
  <2>1. order' \in [Orders -> Row \cup {Absent}]
    BY <1>1 DEF Inv, State, TypeOK
  <2>2. served' \in [Hosts -> Orders \cup {None}]
    BY <1>3 DEF Serves, Inv, State, TypeOK
  <2> QED BY <2>1, <2>2
<1>7. \A p \in Orders : Delivered(p) => Delivered(p)'
  BY <1>5 DEF Delivered, None
<1>8. \A h \in Hosts : served'[h] # None => Exists(served[h])'
  <2> SUFFICES ASSUME NEW h \in Hosts, served'[h] # None PROVE Exists(served[h])'
    OBVIOUS
  <2>1. CASE served'[h] = served[h]
    BY <1>4, <2>1 DEF Inv, State, RowsOK, TypeOK
  <2>2. CASE served'[h] = o
    BY <1>1, <1>4, <2>2 DEF Exists
  <2> QED BY <1>5, <2>1, <2>2
<1>9. \A p \in loose' : p \in Orders /\ Exists(p)'
  BY <1>1, <1>4 DEF Inv, State, RowsOK, TypeOK
<1>10. ASSUME NEW p \in Orders \ loose', NEW h \in Hosts, Keeps(p, h)' PROVE Keeps(p, h)
  <2>1. CASE p # o
    BY <1>2, <1>5, <1>10, <2>1 DEF Keeps, Holds, None
  <2>2. CASE p = o
    <3>1. Holds(row) /\ row.name # None =>
            (Holds(order[o]) /\ row.name = order[o].name) \/ served[row.name] = o
      BY <1>10, <2>2 DEF Put
    <3>2. h # None
      BY DEF None
    <3> QED BY <1>2, <1>5, <1>10, <2>2, <3>1, <3>2 DEF Keeps, Holds
  <2> QED BY <2>1, <2>2
<1>11. \A p \in Orders : Exists(p)' /\ Asks[p] # {} => order'[p].name # None
  BY <1>2, <1>4 DEF Inv, State, RowsOK
<1> QED BY <1>1, <1>4, <1>6, <1>7, <1>8, <1>9, <1>10, <1>11, TablesInv DEF RowsGrow

LEMMA PutSameInv ==
    ASSUME Inv, NEW o \in Orders, NEW row \in Row, row.name = order[o].name,
           Put(o, row), Serves(o, row)
    PROVE  Inv'
<1>1. Asks[o] # {} => row.name # None
  BY DEF Put, Inv, State, RowsOK
<1> QED BY <1>1, PutInv

LEMMA OrderInv ==
    ASSUME Inv, NEW o \in Orders,
           \/ Expire(o) \/ Claim(o) \/ Reject(o) \/ Fail(o)
           \/ \E h \in Entered[o] \cup {order[o].name} : Confirm(o, h) \/ Activate(o, h)
           \/ \E pay \in {"open", "closed", "paid"} : SetStatus(o, pay)
    PROVE  Inv'
<1>1. Exists(o) => order[o] \in Row
  BY RowShape DEF Inv, State
<1>2. CASE Expire(o)
  <2> DEFINE row == [order[o] EXCEPT !.late = TRUE]
  <2>1. Put(o, row) /\ UNCHANGED served
    BY <1>2 DEF Expire
  <2>2. row \in Row /\ row.name = order[o].name
    BY <1>1, <2>1 DEF Put, Row
  <2> QED BY <2>1, <2>2, PutSameInv DEF Serves
<1>3. CASE Claim(o)
  <2> DEFINE row == [order[o] EXCEPT !.pay = "open"]
  <2>1. Put(o, row) /\ UNCHANGED served
    BY <1>3 DEF Claim
  <2>2. row \in Row /\ row.name = order[o].name
    BY <1>1, <2>1 DEF Put, Row
  <2> QED BY <2>1, <2>2, PutSameInv DEF Serves
<1>4. CASE Reject(o)
  <2> DEFINE row == [order[o] EXCEPT !.pay = "closed"]
  <2>1. Put(o, row) /\ UNCHANGED served
    BY <1>4 DEF Reject
  <2>2. row \in Row /\ row.name = order[o].name
    BY <1>1, <2>1 DEF Put, Row
  <2> QED BY <2>1, <2>2, PutSameInv DEF Serves
<1>5. Exists(o) => Paid(order[o]) \in Row /\ Paid(order[o]).name = order[o].name
  <2> SUFFICES ASSUME NEW q \in Row PROVE Paid(q) \in Row /\ Paid(q).name = q.name
    BY <1>1
  <2> DEFINE r == [q EXCEPT !.pay = "paid"]
  <2>1. r \in Row /\ r.name = q.name
    BY DEF Row
  <2> HIDE DEF r
  <2>2. [r EXCEPT !.late = FALSE] \in Row /\ [r EXCEPT !.late = FALSE].name = q.name
    BY <2>1 DEF Row
  <2> QED BY <2>2, Zenon DEF r, Paid
<1>6. \A h \in Entered[o] \cup {order[o].name} : Exists(o) =>
        h \in Hosts \cup {None} /\ (Asks[o] # {} => h # None)
  BY <1>1 DEF Inv, State, RowsOK, Row, None
<1>7. ASSUME NEW h \in Entered[o] \cup {order[o].name}, Confirm(o, h) \/ Activate(o, h)
      PROVE  Inv'
  <2> DEFINE Named(q) == [q EXCEPT !.dropped = FALSE, !.name = h]
  <2>1. Exists(o)
    BY <1>7 DEF Confirm, Activate, Put
  <2>2. \A q \in Row : /\ Named(q) \in Row /\ Named(q).name = h
                       /\ Named(q).pay = q.pay /\ ~ Named(q).dropped
    <3> SUFFICES ASSUME NEW q \in Row
                 PROVE  /\ Named(q) \in Row /\ Named(q).name = h
                        /\ Named(q).pay = q.pay /\ ~ Named(q).dropped
      OBVIOUS
    <3> DEFINE r == [q EXCEPT !.dropped = FALSE]
    <3>1. r \in Row /\ r.pay = q.pay /\ r.dropped = FALSE
      BY DEF Row
    <3>2. h \in Hosts \cup {None}
      BY <1>6, <2>1
    <3> HIDE DEF r
    <3>3. /\ [r EXCEPT !.name = h] \in Row /\ [r EXCEPT !.name = h].name = h
          /\ [r EXCEPT !.name = h].pay = q.pay /\ ~ [r EXCEPT !.name = h].dropped
      BY <3>1, <3>2 DEF Row
    <3>4. Named(q) = [r EXCEPT !.name = h]
      BY DEF r
    <3> QED BY <3>3, <3>4
  <2> HIDE DEF Named
  <2>3. CASE Confirm(o, h)
    <3>1. Put(o, Named(Paid(order[o]))) /\ UNCHANGED served
      BY <2>3 DEF Confirm, Named
    <3> QED BY <1>5, <1>6, <2>1, <2>2, <3>1, PutInv DEF Serves
  <2>4. CASE Activate(o, h)
    <3>1. Put(o, Named(order[o])) /\ order[o].pay = "paid" /\ Asks[o] # {}
      BY <2>4 DEF Activate, Named
    <3>2. Named(order[o]) \in Row /\ Holds(Named(order[o])) /\ Named(order[o]).name = h
      BY <1>1, <2>1, <2>2, <3>1 DEF Holds
    <3>3. Serves(o, Named(order[o]))
      BY <1>6, <2>1, <2>4, <3>1, <3>2 DEF Activate, Serves
    <3> QED BY <1>6, <2>1, <3>1, <3>2, <3>3, PutInv
  <2> QED BY <1>7, <2>3, <2>4
<1>8. CASE Fail(o)
  <2> DEFINE row == [order[o] EXCEPT !.dropped = TRUE]
  <2>1. Put(o, row) /\ UNCHANGED served
    BY <1>8 DEF Fail
  <2>2. row \in Row /\ row.name = order[o].name
    BY <1>1, <2>1 DEF Put, Row
  <2> QED BY <2>1, <2>2, PutSameInv DEF Serves
<1>9. ASSUME NEW pay \in {"open", "closed", "paid"}, SetStatus(o, pay) PROVE Inv'
  <2>1. CASE pay = "paid"
    <3>1. Put(o, Paid(order[o])) /\ UNCHANGED served
      BY <1>9, <2>1 DEF SetStatus
    <3>2. Exists(o)
      BY <3>1 DEF Put
    <3> QED BY <1>5, <3>1, <3>2, PutSameInv DEF Serves
  <2>2. CASE pay # "paid"
    <3> DEFINE row == [order[o] EXCEPT !.pay = pay]
    <3>1. Put(o, row) /\ UNCHANGED served
      BY <1>9, <2>2 DEF SetStatus
    <3>2. row \in Row /\ row.name = order[o].name
      BY <1>1, <3>1 DEF Put, Row
    <3> QED BY <3>1, <3>2, PutSameInv DEF Serves
  <2> QED BY <2>1, <2>2
<1> QED BY <1>2, <1>3, <1>4, <1>7, <1>8, <1>9

-------------------------------------------------------------------------------
(***************************************************************************)
(* The ends of a checkout and of a renaming.                               *)
(***************************************************************************)
\* What is left to show of a call that ends and has changed rows.
LEMMA EndCalls ==
    ASSUME Inv, TypeOK', NEW c \in Busy, Set(c, Idle),
           \A p \in Orders \ {call[c].o} : Exists(p)' <=> Exists(p), RowsGrow,
           \A p \in Orders : Delivered(p) => Delivered(p)'
    PROVE  CallsOK'
<1>1. c \in Calls /\ call'[c] = Idle /\ \A d \in Calls \ {c} : call'[d] = call[d]
  BY SetCall DEF Inv, State, Busy
<1>2. \A d \in Busy \ {c} : /\ CallOK(d) /\ call[d].o \in Orders
                            /\ call[d].o # call[c].o /\ call'[d] = call[d]
  BY <1>1, BusyCall DEF Inv, State, CallsOK, Call, Busy
<1>3. \A d \in Busy \ {c} : call[d].kind = "checkout" => ~ Exists(call[d].o)'
  BY <1>2 DEF CallOK, Exists
<1>4. c \notin Busy' /\ ~ HasLock(c)'
  BY <1>1 DEF Busy, At, Idle, HasLock
<1> QED BY <1>1, <1>3, <1>4, CallsKept DEF Inv

LEMMA CommitInv ==
    ASSUME Inv, NEW c \in Calls, NEW free \in BOOLEAN, Commit(c, free)
    PROVE  Inv'
<1>1. PICK o \in Orders, h \in Hosts :
        /\ o = call[c].o /\ h = call[c].name
        /\ HasLock(c) /\ c \in Busy /\ call[c] \in Call /\ CallOK(c)
        /\ call[c].kind = "checkout" /\ ~ Exists(o) /\ o \notin call[c].drops
  <2>1. HasLock(c) /\ c \in Busy /\ call[c].at = "written"
    BY DEF Commit, At, HasLock, Busy
  <2>2. call[c] \in Call /\ CallOK(c)
    BY <2>1, BusyCall DEF Inv
  <2> QED BY <2>1, <2>2 DEF CallOK, Call
<1>2. /\ order'[o] \in Row /\ order'[o].name = h /\ order'[o].pay # None
      /\ order' \in [Orders -> Row \cup {Absent}]
      /\ \A p \in Orders \ {o} : \/ order'[p] = order[p]
                                 \/ p \in call[c].drops /\ order'[p] = Cancelled(order[p])
  <2> DEFINE new == [pay |-> IF free THEN "paid" ELSE "open", dropped |-> FALSE,
                     late |-> FALSE, name |-> h]
  <2>1. new \in Row /\ new.name = h /\ new.pay # None
    BY <1>1 DEF Row, None
  <2> HIDE DEF new
  <2>2. order' = [p \in Orders |-> IF p = o THEN new
                     ELSE IF p \in call[c].drops THEN Cancelled(order[p]) ELSE order[p]]
    BY <1>1 DEF Commit, new
  <2>3. \A p \in call[c].drops : p \in Orders /\ order[p] \in Row
    BY <1>1, RowShape DEF Inv, State, CallOK, Call
  <2>4. \A q \in Row : Cancelled(q) \in Row
    <3> SUFFICES ASSUME NEW q \in Row PROVE Cancelled(q) \in Row
      OBVIOUS
    <3> DEFINE r == [q EXCEPT !.pay = "closed"]
    <3>1. r \in Row
      BY DEF Row
    <3> HIDE DEF r
    <3>2. [r EXCEPT !.dropped = TRUE] \in Row
      BY <3>1 DEF Row
    <3> QED BY <3>2, Zenon DEF r, Cancelled
  <2>5. \A p \in Orders : order'[p] \in Row \cup {Absent}
    BY <2>1, <2>2, <2>3, <2>4 DEF Inv, State, TypeOK
  <2> QED BY <1>1, <2>1, <2>2, <2>5
<1>3. \A p \in call[c].drops :
        /\ p \in Orders /\ order[p] \in Row /\ Exists(p)
        /\ Cancelled(order[p]).pay = "closed" /\ Cancelled(order[p]).name = order[p].name
  <2>1. \A p \in call[c].drops : p \in Orders /\ order[p] \in Row /\ Exists(p)
    BY <1>1, RowShape DEF Inv, State, CallOK, Call
  <2>2. ASSUME NEW q \in Row PROVE Cancelled(q).pay = "closed" /\ Cancelled(q).name = q.name
    <3> DEFINE r == [q EXCEPT !.pay = "closed"]
    <3>1. r \in Row /\ r.pay = "closed" /\ r.name = q.name
      BY DEF Row
    <3> HIDE DEF r
    <3>2. [r EXCEPT !.dropped = TRUE].pay = "closed" /\ [r EXCEPT !.dropped = TRUE].name = q.name
      BY <3>1 DEF Row
    <3> QED BY <3>2, Zenon DEF r, Cancelled
  <2> QED BY <2>1, <2>2
<1>4. /\ \A p \in Orders \ {o} : Exists(p)' <=> Exists(p)
      /\ \A p \in Orders \ {o} : order'[p].name = order[p].name
      /\ \A p \in Orders \ {o} : Holds(order'[p]) => Holds(order[p])
      /\ Exists(o)'
  BY <1>2, <1>3 DEF Exists, Holds, None
<1>5. /\ \A g \in Hosts : \/ served'[g] = served[g]
                          \/ g = h /\ served[g] = None /\ served'[g] = o
      /\ served' \in [Hosts -> Orders \cup {None}]
  BY <1>1 DEF Commit, Inv, State, TypeOK
<1>6. Set(c, Idle) /\ loose' = loose /\ together' = together
  BY DEF Commit, history
<1>7. Holding(c) \/ ~ Uses(c)
  BY DEF Commit, At, Holding
<1>8. /\ CouponOK' /\ Counted' /\ redeemed' \subseteq redeemed \cup {o}
      /\ coupon' \in [used : 0 .. coupon'.limit, limit : Nat, each : Nat]
  <2>1. CASE Uses(c)
    <3>1. Redeem(c, free)
      BY <2>1 DEF Commit
    <3>2. redeemed' = redeemed \cup {o}
      BY <1>1, <3>1 DEF Redeem
    <3> QED BY <1>6, <1>7, <2>1, <3>1, <3>2, RedeemCoupon
  <2>2. CASE ~ Uses(c)
    <3>1. UNCHANGED <<coupon, redeemed>>
      BY <2>2 DEF Commit
    <3>2. \A d \in Calls : HoldingBefore(d)
      BY <1>6, SetCall DEF HoldingBefore, Holding, Uses, Idle, Inv, State
    <3>3. coupon \in [used : 0 .. coupon.limit, limit : Nat, each : Nat]
      BY DEF Inv, State, TypeOK
    <3> QED BY <1>6, <3>1, <3>2, <3>3, CouponSame DEF Inv, State
  <2> QED BY <2>1, <2>2
<1>9. TypeOK'
  <2>1. call' \in [Calls -> Call \cup {Idle}]
    BY <1>6, SetCall DEF Inv, State
  <2>2. redeemed' \in SUBSET Orders
    BY <1>1, <1>8 DEF Inv, State, TypeOK
  <2> QED BY <1>2, <1>5, <1>6, <1>8, <2>1, <2>2 DEF Inv, State, TypeOK
<1>10. CallsOK'
  <2>1. RowsGrow
    BY <1>4 DEF RowsGrow
  <2>2. \A p \in Orders : Delivered(p) => Delivered(p)'
    BY <1>5 DEF Delivered, None
  <2> QED BY <1>1, <1>4, <1>6, <1>9, <2>1, <2>2, EndCalls
<1>11. RowsOK'
  <2>1. \A p \in loose' \cup redeemed' : Exists(p)'
    BY <1>4, <1>6, <1>8 DEF Inv, State, RowsOK, TypeOK
  <2>3. \A p \in Orders : Exists(p)' /\ Asks[p] # {} => order'[p].name # None
    BY <1>2, <1>4 DEF Inv, State, RowsOK, None
  <2>2. ASSUME NEW g \in Hosts, served'[g] # None
        PROVE  Exists(served[g])'
    <3>1. CASE served'[g] = served[g]
      <4>1. served[g] \in Orders /\ Exists(served[g])
        BY <2>2, <3>1 DEF Inv, State, RowsOK, TypeOK
      <4>2. served[g] # o
        BY <1>1, <4>1
      <4> QED BY <1>4, <3>1, <4>1, <4>2 DEF Exists
    <3>2. CASE g = h /\ served'[g] = o
      BY <1>2, <1>4, <3>2 DEF Exists
    <3> QED BY <1>5, <3>1, <3>2
  <2> QED BY <2>1, <2>2, <2>3 DEF RowsOK
<1>12. KeptOnce' /\ AllocatedIsFree'
  <2>1. ASSUME NEW p \in Orders \ loose, NEW g \in Hosts, Keeps(p, g)'
        PROVE  Keeps(p, g) \/ (Owner[p] = Owner[o] /\ g = h)
    <3>1. CASE p = o
      <4>1. ~ (served'[g] = o /\ served[g] = o)
        BY <1>1, <1>4 DEF Inv, State, RowsOK, None, TypeOK
      <4> QED BY <1>2, <1>5, <2>1, <3>1, <4>1 DEF Keeps
    <3>2. CASE p # o
      BY <1>4, <1>5, <2>1, <3>2 DEF Keeps
    <3> QED BY <3>1, <3>2
  <2> QED BY <1>1, <1>6, <2>1, OwnGain
<1> QED BY <1>8, <1>9, <1>10, <1>11, <1>12 DEF Inv, State

\* The domain row of a customer gets another name.
LEMMA MovesIs ==
    ASSUME Inv, NEW k \in Customers, NEW old \in Hosts, NEW h \in Hosts, Moves(k, old, h)
    PROVE  /\ served[old] \in Orders /\ served'[h] = served[old] /\ Exists(served[old])
           /\ h # old => served'[old] = None
           /\ \A g \in Hosts \ {h, old} : served'[g] = served[g]
           /\ served' \in [Hosts -> Orders \cup {None}]
           /\ \A g \in Hosts : served'[g] # None => served'[g] \in Orders /\ Exists(served'[g])
           /\ \A p \in Orders : Delivered(p) => Delivered(p)'
<1>1. served[old] \in Orders /\ Exists(served[old])
  BY DEF Moves, Domains, Inv, State, RowsOK, TypeOK
<1>2. /\ served'[h] = served[old] /\ (h # old => served'[old] = None)
      /\ \A g \in Hosts \ {h, old} : served'[g] = served[g]
      /\ served' \in [Hosts -> Orders \cup {None}]
  BY <1>1 DEF Moves, Inv, State, TypeOK
<1>3. \A g \in Hosts : served'[g] # None => served'[g] \in Orders /\ Exists(served'[g])
  BY <1>1, <1>2 DEF Inv, State, RowsOK, TypeOK
<1>4. ASSUME NEW p \in Orders, Delivered(p) PROVE Delivered(p)'
  <2>1. PICK g \in Hosts : served[g] = p
    BY <1>4 DEF Delivered
  <2>2. g = h => h = old
    BY <2>1 DEF Moves, None
  <2> QED BY <1>2, <2>1, <2>2 DEF Delivered
<1> QED BY <1>1, <1>2, <1>3, <1>4

\* The rows of the orders that follow.
LEMMA FollowIs ==
    ASSUME Inv, NEW o \in Orders, NEW old \in Hosts, NEW h \in Hosts, Follow(o, old, h)
    PROVE  /\ Moves(Owner[o], old, h) /\ served[old] = o /\ Exists(o)
           /\ order' \in [Orders -> Row \cup {Absent}]
           /\ \A p \in Followers(Owner[o], old) :
                /\ p \in Orders /\ Owner[p] = Owner[o] /\ Exists(p)
                /\ order'[p].name = h /\ order'[p].pay = order[p].pay
           /\ \A p \in Orders \ Followers(Owner[o], old) : order'[p] = order[p]
           /\ \A p \in Orders : Exists(p)' <=> Exists(p)
           /\ \A p \in Orders : Exists(p)' /\ Asks[p] # {} => order'[p].name # None
<1> DEFINE named == Followers(Owner[o], old)
<1>1. Moves(Owner[o], old, h) /\ served[old] = o /\ Exists(o)
  BY MovesIs DEF Follow
<1>2. \A p \in named : p \in Orders /\ Owner[p] = Owner[o] /\ Exists(p) /\ order[p] \in Row
  BY RowShape DEF Followers, Inv, State
<1>3. order' = [p \in Orders |-> IF p \in named THEN [order[p] EXCEPT !.name = h] ELSE order[p]]
  BY DEF Follow
<1> HIDE DEF named
<1>4. \A p \in named : /\ order'[p] \in Row /\ order'[p].name = h
                       /\ order'[p].pay = order[p].pay
  BY <1>2, <1>3 DEF Row
<1>5. \A p \in Orders \ named : order'[p] = order[p]
  BY <1>3
<1>6. order' \in [Orders -> Row \cup {Absent}]
  BY <1>3, <1>4, <1>5 DEF Inv, State, TypeOK
<1>7. \A p \in Orders : Exists(p)' <=> Exists(p)
  BY <1>4, <1>5 DEF Exists
<1>8. \A p \in Orders : Exists(p)' /\ Asks[p] # {} => order'[p].name # None
  BY <1>4, <1>5, <1>7 DEF Inv, State, RowsOK, None
<1> QED BY <1>1, <1>2, <1>4, <1>5, <1>6, <1>7, <1>8 DEF named

LEMMA RenameInv ==
    ASSUME Inv, NEW c \in Calls, Rename(c)
    PROVE  Inv'
<1>1. PICK o \in Orders, h \in Hosts, old \in Hosts :
        /\ o = call[c].o /\ h = call[c].name /\ Follow(o, old, h)
        /\ HasLock(c) /\ c \in Busy /\ call[c] \in Call /\ CallOK(c)
  <2>1. HasLock(c) /\ c \in Busy
    BY DEF Rename, At, HasLock, Busy
  <2>2. call[c] \in Call /\ CallOK(c)
    BY <2>1, BusyCall DEF Inv
  <2> QED BY <2>1, <2>2 DEF CallOK, Call, Rename
<1>2. Set(c, Idle) /\ UNCHANGED <<coupon, redeemed, loose, together>>
  BY DEF Rename, history
<1>3. /\ Owner[o] \in Customers /\ Moves(Owner[o], old, h) /\ served[old] = o
      /\ order' \in [Orders -> Row \cup {Absent}]
      /\ \A p \in Orders : Exists(p)' <=> Exists(p)
      /\ \A p \in Orders : Exists(p)' /\ Asks[p] # {} => order'[p].name # None
  BY <1>1, FollowIs
<1>4. PICK named : /\ named \subseteq Orders
                   /\ \A p \in named : Owner[p] = Owner[o] /\ order'[p].name = h
                   /\ \A p \in Orders \ named : order'[p] = order[p]
  <2> DEFINE followers == Followers(Owner[o], old)
  <2>1. followers \subseteq Orders
    BY DEF Followers
  <2>2. \A p \in followers : Owner[p] = Owner[o] /\ order'[p].name = h
    BY <1>1, FollowIs
  <2>3. \A p \in Orders \ followers : order'[p] = order[p]
    BY <1>1, FollowIs
  <2> HIDE DEF followers
  <2> QED BY <2>1, <2>2, <2>3
<1>5. TypeOK'
  <2>1. call' \in [Calls -> Call \cup {Idle}]
    BY <1>2, SetCall DEF Inv, State
  <2> QED BY <1>2, <1>3, <2>1, MovesIs DEF Inv, State, TypeOK
<1>6. CallsOK'
  <2>1. RowsGrow
    BY <1>3 DEF RowsGrow
  <2> QED BY <1>1, <1>2, <1>3, <1>5, <2>1, MovesIs, EndCalls
<1>7. RowsOK'
  <2>1. \A p \in loose' \cup redeemed' : Exists(p)'
    BY <1>2, <1>3 DEF Inv, State, RowsOK, TypeOK
  <2>2. \A g \in Hosts : served'[g] # None => Exists(served[g])'
    <3>1. \A g \in Hosts : served'[g] # None => served'[g] \in Orders /\ Exists(served'[g])
      BY <1>3, MovesIs
    <3> QED BY <1>3, <3>1 DEF Exists
  <2> QED BY <1>3, <2>1, <2>2 DEF RowsOK
<1>8. KeptOnce' /\ AllocatedIsFree'
  <2>1. ASSUME NEW p \in Orders \ loose, NEW g \in Hosts, Keeps(p, g)'
        PROVE  Keeps(p, g) \/ (Owner[p] = Owner[o] /\ g = h)
    <3>1. CASE served'[g] = p
      <4>1. g = h \/ served'[g] = served[g] \/ served'[g] = None
        BY <1>3, MovesIs
      <4>2. g = h => served'[g] = o
        BY <1>3, MovesIs
      <4> QED BY <3>1, <4>1, <4>2 DEF Keeps, None
    <3>2. CASE Holds(order'[p]) /\ order'[p].name = g
      BY <1>4, <3>2 DEF Keeps
    <3> QED BY <2>1, <3>1, <3>2 DEF Keeps
  <2> QED BY <1>1, <1>2, <2>1, OwnGain
<1>9. CouponOK' /\ Counted'
  <2>1. \A d \in Calls : HoldingBefore(d)
    BY <1>2, SetCall DEF HoldingBefore, Holding, Uses, Idle, Inv, State
  <2> QED BY <1>2, <2>1, CouponSame DEF Inv, State
<1> QED BY <1>5, <1>6, <1>7, <1>8, <1>9 DEF Inv, State

LEMMA RenameByStaffInv ==
    ASSUME Inv, NEW o \in Orders, NEW h \in Hosts, RenameByStaff(o, h)
    PROVE  Inv'
<1>1. PICK old \in Hosts :
        Follow(o, old, h) /\ loose' = loose \cup {o} \cup Followers(Owner[o], old)
  BY DEF RenameByStaff
<1>2. UNCHANGED <<coupon, redeemed, call, together>>
  BY DEF RenameByStaff
<1>3. /\ Owner[o] \in Customers /\ Moves(Owner[o], old, h) /\ served[old] = o
      /\ order' \in [Orders -> Row \cup {Absent}] /\ Exists(o)
      /\ \A p \in Orders : Exists(p)' <=> Exists(p)
      /\ \A p \in Orders : Exists(p)' /\ Asks[p] # {} => order'[p].name # None
      /\ \A p \in Followers(Owner[o], old) : p \in Orders /\ Exists(p)
      /\ \A p \in Orders \ Followers(Owner[o], old) : order'[p] = order[p]
  BY <1>1, FollowIs
<1>4. \A g \in Hosts : served'[g] # None => Exists(served[g])'
  <2>1. \A g \in Hosts : served'[g] # None => served'[g] \in Orders /\ Exists(served'[g])
    BY <1>3, MovesIs
  <2> QED BY <1>3, <2>1 DEF Exists
<1>5. \A p \in loose' : p \in Orders /\ Exists(p)'
  BY <1>1, <1>3 DEF Inv, State, RowsOK, TypeOK
<1>6. ASSUME NEW p \in Orders \ loose', NEW g \in Hosts, Keeps(p, g)' PROVE Keeps(p, g)
  <2>1. order'[p] = order[p] /\ p # o
    BY <1>1, <1>3
  <2>2. served'[g] = p => served[g] = p
    BY <1>3, <2>1, MovesIs DEF None
  <2> QED BY <1>6, <2>1, <2>2 DEF Keeps
<1>7. RowsGrow /\ loose \subseteq loose'
  BY <1>1, <1>3 DEF RowsGrow
<1>8. /\ served' \in [Hosts -> Orders \cup {None}]
      /\ \A p \in Orders : Delivered(p) => Delivered(p)'
  BY <1>3, MovesIs
<1> QED BY <1>2, <1>3, <1>4, <1>5, <1>6, <1>7, <1>8, TablesInv

LEMMA EnterNameInv ==
    ASSUME Inv, NEW o \in Orders, NEW h \in Hosts, EnterName(o, h)
    PROVE  Inv'
<1>1. /\ Exists(o) /\ order' = [order EXCEPT ![o].name = h]
      /\ loose' = loose \cup {o} \cup {served[g] : g \in Domains(Owner[o])}
      /\ UNCHANGED <<coupon, redeemed, call, together>>
  BY DEF EnterName
<1>2. order[o] \in Row /\ Owner[o] \in Customers
  BY <1>1, RowShape DEF Inv, State
<1>3. /\ order'[o] \in Row /\ order'[o].name = h /\ order'[o].pay = order[o].pay
      /\ \A p \in Orders \ {o} : order'[p] = order[p]
      /\ order' \in [Orders -> Row \cup {Absent}]
  <2>1. order'[o] = [order[o] EXCEPT !.name = h] /\ \A p \in Orders \ {o} : order'[p] = order[p]
    BY <1>1 DEF Inv, State, TypeOK
  <2>2. order'[o] \in Row /\ order'[o].name = h /\ order'[o].pay = order[o].pay
    BY <1>2, <2>1 DEF Row
  <2> QED BY <1>1, <2>1, <2>2 DEF Inv, State, TypeOK
<1>4. \A p \in Orders : Exists(p)' <=> Exists(p)
  BY <1>3 DEF Exists
<1>5. /\ served' \in [Hosts -> Orders \cup {None}]
      /\ \A g \in Hosts : served'[g] # None => served'[g] \in Orders /\ Exists(served'[g])
      /\ \A p \in Orders : Delivered(p) => Delivered(p)'
      /\ \A g \in Hosts, p \in Orders \ loose' : served'[g] = p => served[g] = p
  <2>1. CASE UNCHANGED served
    BY <2>1 DEF Inv, State, RowsOK, TypeOK, Delivered
  <2>2. ASSUME NEW old \in Hosts, Moves(Owner[o], old, h)
        PROVE  /\ served' \in [Hosts -> Orders \cup {None}]
               /\ \A g \in Hosts : served'[g] # None => served'[g] \in Orders /\ Exists(served'[g])
               /\ \A p \in Orders : Delivered(p) => Delivered(p)'
               /\ \A g \in Hosts, p \in Orders \ loose' : served'[g] = p => served[g] = p
    <3>1. served[old] \in loose'
      BY <1>1, <2>2 DEF Moves
    <3> QED BY <1>2, <2>2, <3>1, MovesIs DEF None
  <2> QED BY <2>1, <2>2 DEF EnterName
<1>6. \A g \in Hosts : served'[g] # None => Exists(served[g])'
  BY <1>4, <1>5 DEF Exists
<1>7. \A p \in loose' : p \in Orders /\ Exists(p)'
  <2>1. \A g \in Domains(Owner[o]) : served[g] \in Orders /\ Exists(served[g])
    BY DEF Domains, Inv, State, RowsOK, TypeOK
  <2> QED BY <1>1, <1>4, <2>1 DEF Inv, State, RowsOK, TypeOK
<1>8. ASSUME NEW p \in Orders \ loose', NEW g \in Hosts, Keeps(p, g)' PROVE Keeps(p, g)
  <2>1. order'[p] = order[p]
    BY <1>1, <1>3
  <2> QED BY <1>5, <1>8, <2>1 DEF Keeps
<1>9. \A p \in Orders : Exists(p)' /\ Asks[p] # {} => order'[p].name # None
  BY <1>3, <1>4 DEF Inv, State, RowsOK, None
<1>10. RowsGrow /\ loose \subseteq loose'
  BY <1>1, <1>4 DEF RowsGrow
<1> QED BY <1>1, <1>3, <1>4, <1>5, <1>6, <1>7, <1>8, <1>9, <1>10, TablesInv

LEMMA PlaceInv ==
    ASSUME Inv, NEW o \in Orders, Place(o)
    PROVE  Inv'
<1> DEFINE row == [pay |-> "open", dropped |-> FALSE, late |-> FALSE, name |-> None]
<1>1. /\ ~ Exists(o) /\ Asks[o] = {} /\ order' = [order EXCEPT ![o] = row]
      /\ UNCHANGED <<served, coupon, redeemed, call, loose, together>>
  BY DEF Place, history
<1>2. row \in Row /\ row.pay # None /\ row.name = None
  BY DEF Row, None
<1> HIDE DEF row
<1>3. /\ order'[o] = row /\ \A p \in Orders \ {o} : order'[p] = order[p]
      /\ order' \in [Orders -> Row \cup {Absent}]
  BY <1>1, <1>2 DEF Inv, State, TypeOK
<1>4. /\ \A p \in Orders : Exists(p) => Exists(p)'
      /\ \A p \in Orders : Exists(p)' => Exists(p) \/ Asks[p] = {}
      /\ \A p \in Orders : Exists(p)' /\ Asks[p] # {} => order'[p].name # None
  BY <1>1, <1>2, <1>3 DEF Exists, Inv, State, RowsOK
<1>5. \A h \in Hosts : served'[h] # None => Exists(served[h])'
  BY <1>1, <1>4 DEF Inv, State, RowsOK, TypeOK
<1>6. served' \in [Hosts -> Orders \cup {None}] /\ \A p \in loose' : p \in Orders /\ Exists(p)'
  BY <1>1, <1>4 DEF Inv, State, RowsOK, TypeOK
<1>7. \A p \in Orders : Delivered(p) => Delivered(p)'
  BY <1>1 DEF Delivered
<1>8. \A p \in Orders \ loose', h \in Hosts : Keeps(p, h)' => Keeps(p, h)
  BY <1>1, <1>2, <1>3 DEF Keeps, None
<1> QED BY <1>1, <1>3, <1>4, <1>5, <1>6, <1>7, <1>8, TablesInv DEF RowsGrow

-------------------------------------------------------------------------------
LEMMA NextInv == Inv /\ [Next]_vars => Inv'
<1> SUFFICES ASSUME Inv, [Next]_vars PROVE Inv'
  OBVIOUS
<1>1. ASSUME NEW c \in Calls, NEW o \in Orders, NEW w \in Asks[o],
             Begin(c, o, w) \/ BeginRename(c, o, w)
      PROVE  Inv'
  BY <1>1, BeginInv
<1>2. ASSUME NEW c \in Calls,
             \/ Allocate(c) \/ Validate(c) \/ Insert(c) \/ Rename(c) \/ Abort(c)
             \/ \E free \in BOOLEAN : Commit(c, free)
      PROVE  Inv'
  BY <1>2, AllocateInv, ValidateInv, InsertInv, RenameInv, AbortInv, CommitInv
<1>3. ASSUME NEW o \in Orders,
             \/ Place(o) \/ Expire(o) \/ Claim(o) \/ Reject(o) \/ Fail(o)
             \/ \E h \in Entered[o] \cup {order[o].name} : Confirm(o, h) \/ Activate(o, h)
             \/ \E h \in Entered[o] : EnterName(o, h) \/ RenameByStaff(o, h)
             \/ \E pay \in {"open", "closed", "paid"} : SetStatus(o, pay)
      PROVE  Inv'
  BY <1>3, OrderInv, PlaceInv, EnterNameInv, RenameByStaffInv
<1>4. CASE UNCHANGED vars
  <2>1. UNCHANGED <<order, served, coupon, redeemed, call, loose, together>>
    BY <1>4 DEF vars
  <2>2. TypeOK' /\ CallsOK' /\ RowsOK'
    BY <2>1 DEF Inv, State, TypeOK, CallsOK, RowsOK, CallOK, Busy, At, HasLock, Exists,
                Delivered, TriedAs, Row
  <2>3. KeptOnce' /\ AllocatedIsFree'
    BY <2>1, NoGain DEF LockedBefore, HasLock, Keeps, Holds
  <2>4. CouponOK' /\ Counted'
    BY <2>1, CouponSame DEF HoldingBefore, Holding, Uses, Inv, State
  <2> QED BY <2>2, <2>3, <2>4 DEF Inv, State
<1> QED BY <1>1, <1>2, <1>3, <1>4 DEF Next

THEOREM Invariance == Spec => []Inv
BY InitInv, NextInv, PTL DEF Spec

(***************************************************************************)
(* Rows, calls in progress and the coupon keep their types: usage_count    *)
(* stays within the limit even where it has fallen behind the redemptions. *)
(***************************************************************************)
THEOREM TypeCorrect == Spec => []TypeOK
<1>1. Inv => TypeOK
  BY DEF Inv, State
<1> QED BY <1>1, Invariance, PTL

(***************************************************************************)
(* Two customers never hold one student address that is locked in one way, *)
(* whatever checkouts, renamings and payments interleave, unless one came  *)
(* to hold it without allocating it.                                       *)
(***************************************************************************)
THEOREM HostnamesHeldOnce == Spec => []HostnameHeldOnce
<1>1. Inv => HostnameHeldOnce
  <2> SUFFICES ASSUME Inv, NEW o \in Orders \ loose, NEW p \in Orders \ loose,
                      Owner[o] # Owner[p], Holds(order[o]), Holds(order[p]),
                      order[o].name = order[p].name, order[o].name # None
               PROVE  ~ OneLock(order[o].name)
    BY DEF HostnameHeldOnce
  <2>1. order[o].name \in Hosts
    BY RowShape DEF Inv, State, Row
  <2> QED BY <2>1 DEF Inv, KeptOnce, Keeps
<1> QED BY <1>1, Invariance, PTL

(***************************************************************************)
(* The coupon's count is the number of its redemptions and within the      *)
(* limit, unless two checkouts have checked it at once.                    *)
(***************************************************************************)
THEOREM CouponsWithinLimit == Spec => []CouponWithinLimit
<1>1. Inv => CouponWithinLimit
  BY DEF Inv, State, TypeOK, CouponOK, CouponWithinLimit
<1> QED BY <1>1, Invariance, PTL

(***************************************************************************)
(* No customer uses the coupon more often than allowed, unless two of the  *)
(* customer's own checkouts have checked it at once.                       *)
(***************************************************************************)
THEOREM CustomersWithinLimit == Spec => []CustomerWithinLimit
<1>1. Inv => CustomerWithinLimit
  BY DEF Inv, CouponOK, CustomerWithinLimit
<1> QED BY <1>1, Invariance, PTL
===============================================================================
