\* Checkouts of two customers, two at a time, with a coupon, and a renewal.
SPECIFICATION Spec
CONSTANTS
    k1 = k1
    k2 = k2
    o1 = o1
    o2 = o2
    o3 = o3
    o4 = o4
    h1 = h1
    h2 = h2
    Customers = {k1, k2}
    Orders = {o1, o2, o3, o4}
    Owner <- MCOwner
    Calls = {c1, c2}
    Hosts = {h1, h2}
    Wishes = {"mensah", "mensah2"}
    Asks <- MCAsks
    Entered <- MCEntered
    Renames = {o2}
    Brings = {o1, o2, o3}
    Tries <- MCTries
    LockOf <- MCLockOf
    Coupons <- MCCoupons
INVARIANTS
    TypeOK
    HostnameHeldOnce
    CouponWithinLimit
    CustomerWithinLimit
CONSTRAINT OneMore
SYMMETRY CallSymmetry
CHECK_DEADLOCK FALSE
