--------------------------- MODULE MCTconnConnect ---------------------------
(* Two key ids; the remote end proves either, or one with the other as a   *)
(* role.                                                                   *)
EXTENDS TconnConnect

MCPresented == {<<"k1">>, <<"k2">>, <<"k2", "k1">>}
=============================================================================
