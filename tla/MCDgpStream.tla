---------------------------- MODULE MCDgpStream ----------------------------
(* Ids of one byte, and nine values to a byte of an integer, so that       *)
(* lengths take two bytes and flags one.                                   *)
EXTENDS DgpStream, LsaWire

MCMe == <<1>>
MCOthers == {<<2>>}
MCPeers == {<<2>>}
MCNodeName == <<7>>
MCPubKey == <<9>>
MCMetric == [p \in MCPeers |-> <<0, 1>>]
MCPeerFlags == [p \in MCPeers |-> <<2>>]
MCPaths == UNION {{p \in [1..n -> 1..2] : IsInjective(p)} : n \in 0..2}

(* Bound: sessions are made in the first second, and the later ones have   *)
(* the own LSA and the starts of the daemon only.                          *)
NoSession == /\ wr = "closed" /\ rd = "closed" /\ off = NULL
             /\ net = <<>> /\ buf = <<>> /\ sent = <<>> /\ rcvd = <<>>
MCNext == Next /\ (now' = 0 \/ NoSession')

MCSpec == Init /\ [][MCNext]_vars /\ Fairness
=============================================================================
