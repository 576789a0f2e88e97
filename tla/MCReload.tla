------------------------------ MODULE MCReload ------------------------------
(* Every file with at most two peers, made of two ways to connect, four to *)
(* listen at one address and one at another that overlaps it; and for each *)
(* check of conf.c a file that fails it.                                   *)
EXTENDS Reload

Peer(c, l, f, t, k, n) ==
    [connect |-> c, listen |-> l, fp |-> f, type |-> t, itf |-> NULL,
     cost |-> k, limit |-> n]
Host(h, p) == [host |-> h, port |-> p]
At(a, p) == [addr |-> a, port |-> p]

MCEmbeddedFp == [h \in {"plain", "withfp"} |-> IF h = "withfp" THEN "x" ELSE NULL]
MCOverlap(a, b) == a[2] = b[2] /\ a # b /\ 0 \in {a[1], b[1]}

MCSections ==
    {Peer(Host("withfp", NULL), NULL, NULL, NULL, NULL, NULL),
     Peer(Host("plain", 7), NULL, CNAME, NULL, 32767, NULL),
     Peer(NULL, At(1, 7), "x", NULL, NULL, NULL),
     Peer(NULL, At(1, 7), "x", NULL, NULL, 2),
     Peer(NULL, At(1, 7), "y", "EPEER", 1, NULL),
     Peer(NULL, At(1, 7), ANY, NULL, NULL, NULL),
     Peer(NULL, At(0, NULL), ANY, NULL, NULL, NULL)}

MCBadSections ==
    {Peer(Host("plain", NULL), At(1, 7), ANY, NULL, NULL, NULL),
     Peer(NULL, NULL, ANY, NULL, NULL, NULL),
     Peer(Host("plain", NULL), NULL, NULL, NULL, NULL, NULL),
     Peer(Host("withfp", NULL), NULL, "y", NULL, NULL, NULL),
     Peer(Host("plain", BAD), NULL, CNAME, NULL, NULL, NULL),
     Peer(NULL, At(1, 7), CNAME, NULL, NULL, NULL),
     Peer(NULL, At(BAD, NULL), "x", NULL, NULL, NULL),
     Peer(NULL, At(1, 7), BAD, NULL, NULL, NULL),
     Peer(NULL, At(1, 7), "x", BAD, NULL, NULL),
     Peer(NULL, At(1, 7), "x", NULL, 0, NULL),
     Peer(NULL, At(1, 7), "x", NULL, NULL, 0)}

File(p) == [ok |-> TRUE, default_port |-> 7, peers |-> p]

MCFiles ==
    {File(p) : p \in UNION {[N -> MCSections] : N \in SUBSET {1, 2}}}
        \cup {File([n \in {1} |-> s]) : s \in MCBadSections}
=============================================================================
