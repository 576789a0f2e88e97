SPECIFICATION Spec
CONSTANTS
    Me = "me"
    KeyIds = {"k1", "k2", "k3"}
    Presented <- MCPresented
    Entries = {"named", "wild"}
    Fp <- MCFp
    Limit <- MCLimit
    Outgoing = {"out", "out2"}
    DbOnly = {"out"}
    Conns = {c1, c2, c3}
    ANY = "any"
    NULL = NULL
INVARIANTS LecsMatchConns LimitKept NoStaleEntry PeersMatchConns
CHECK_DEADLOCK FALSE
