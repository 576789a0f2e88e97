------------------------------- MODULE MCRib -------------------------------
(* Node 1 with sessions to 2 and 3, which are also linked to each other,   *)
(* and one readonly listener.                                              *)
EXTENDS Rib

L(i, v, p, g, b) == [id |-> i, ver |-> v, path |-> p, genuine |-> g, bytes |-> b]

MCPaths == {<<>>, <<2>>, <<3>>, <<2, 3>>, <<2, 1>>}

MCWire == {L(2, 1, <<2>>, TRUE, 2), L(2, 2, <<2>>, TRUE, 3),
           L(3, 1, <<3>>, TRUE, 2), L(3, 1, <<2, 3>>, TRUE, 2),
           L(3, 1, <<3>>, FALSE, 2),   \* differs from its twin in what is signed
           L(2, 1, <<3>>, TRUE, 2),    \* its path does not end at its node
           L(1, 2, <<2, 1>>, TRUE, 2)}

MCWireSmall == {L(2, 1, <<2>>, TRUE, 2), L(2, 2, <<2>>, TRUE, 4), L(3, 1, <<2, 3>>, TRUE, 2),
                L(3, 1, <<3>>, TRUE, 2), L(3, 2, <<2, 3>>, TRUE, 2)}

MCMine == {L(1, 1, <<>>, TRUE, 2), L(1, 2, <<>>, TRUE, 2)}

P(m, f) == [metric |-> m, flags |-> f]
Both == {"TRANSIT", "CUSTOMER"}

MCLinks ==
    [i \in 1..3 |->
        CASE i = 1 -> [v \in 1..2 |->
                 IF v = 1 THEN [j \in {2, 3} |-> P(1, {})]
                 ELSE [j \in {2, 3} |-> P(1, {"TRANSIT"})]]
          [] i = 2 -> [v \in 1..2 |->
                 IF v = 1 THEN [j \in {1, 3} |-> P(1, {"CUSTOMER"})]
                 ELSE [j \in {1} |-> P(2, {"CUSTOMER"})]]
          [] i = 3 -> [v \in 1..2 |->
                 [j \in {1, 2} |-> P(j, Both)]]]
=============================================================================
