CONSTANTS
    a = a
    b = b
    t1 = t1
    t2 = t2
    v1 = v1
    b1 = b1
    b2 = b2
    tip = tip
    x1 = x1
    x2 = x2
    x3 = x3
    y1 = y1
    None = None
    Accounts = {a, b}
    Txs = {t1, t2, v1}
    Votes = {v1}
    Threads = {1, 2}
    Access <- MCAccess
    Bundle <- MCBundle
    Slots <- MCSlots
    Window = 2
SPECIFICATION FairSpec
INVARIANTS LocksAreHeld ReplayAgrees
PROPERTIES OnlyDrains LocksAreObtained
CHECK_DEADLOCK FALSE
