SPECIFICATION Spec
CONSTANTS
    Me = "me"
    KeyIds = {"k1", "k2", "k3"}
    Presented <- MCPresented
    Entries = {"named", "wild"}
    Fp <- MCFp
    Limit <- MCLimit
    Outgoing = {"out"}
    DbOnly = {"out"}
    Conns = {c1, c2, c3}
    ANY = "any"
    NULL = NULL
INVARIANT NoDuplicatePeer
CHECK_DEADLOCK FALSE
