---------------------------- MODULE MCDirectPeers ----------------------------
(* A fingerprint entry that takes one connection and a wildcard entry that *)
(* takes two; two outgoing connections, one to a dbonly peer.              *)
EXTENDS DirectPeers

MCPresented == {<<"k1">>, <<"k2">>, <<"k3">>, <<"k2", "k1">>}
MCFp == [e \in {"named", "wild"} |-> IF e = "named" THEN "k1" ELSE ANY]
MCLimit == [e \in {"named", "wild"} |-> IF e = "named" THEN 1 ELSE 2]
=============================================================================
