\* Two hosting orders, a renewal and an upgrade, two names, two concurrent calls.
SPECIFICATION Spec
CONSTANTS
    o1 = o1
    o2 = o2
    r1 = r1
    u1 = u1
    n1 = n1
    n2 = n2
    c1 = c1
    c2 = c2
    Orders <- Mixed
    KindOf <- KindOfMixed
    Names = {n1, n2}
    Txns = {m1}
    Requests = {c1, c2}
    MaxCalls = 4
INVARIANTS
    TypeOK
    TxnUsedOnce
    UnpaidInvoiceReplaced
    NameServedOnce
    DeliveredOnce
    DeliveredIsPaid
SYMMETRY OrderSymmetry
CHECK_DEADLOCK FALSE
