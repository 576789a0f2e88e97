----------------------------- MODULE MsgChannel -----------------------------
(***************************************************************************)
(* What a DGP session promises the two RIBs on its ends: the LSAs written  *)
(* arrive one by one in the order they were written, whole and unchanged,  *)
(* and an orderly end comes after the last of them.                        *)
(***************************************************************************)
EXTENDS Sequences, SequencesExt

VARIABLES
    wr,         \* the writer's end: "open", "closed"
    rd,         \* the reader's end: "open", "closed", "failed"
    sent,       \* the LSAs written in this session
    rcvd        \* the LSAs handed to the RIB

vars == <<wr, rd, sent, rcvd>>

Init == wr = "closed" /\ rd = "closed" /\ sent = <<>> /\ rcvd = <<>>

(* A new session; one that was still open is lost with what was under way. *)
Open ==
    /\ wr' = "open" /\ rd' = "open"
    /\ sent' = <<>> /\ rcvd' = <<>>

Reset ==
    /\ wr' = "closed" /\ rd' = "closed"
    /\ sent' = <<>> /\ rcvd' = <<>>

Write ==
    /\ wr = "open"
    /\ Len(sent') = Len(sent) + 1 /\ IsPrefix(sent, sent')
    /\ UNCHANGED <<wr, rd, rcvd>>

Deliver ==
    /\ rd = "open"
    /\ IsPrefix(rcvd, rcvd') /\ IsPrefix(rcvd', sent)
    /\ UNCHANGED <<wr, rd, sent>>

CloseWriter ==
    /\ wr = "open" /\ wr' = "closed"
    /\ UNCHANGED <<rd, sent, rcvd>>

(* The reader ends the session by itself only when it has everything. *)
CloseReader ==
    /\ rd = "open" /\ wr = "closed" /\ rcvd = sent
    /\ rd' = "closed"
    /\ UNCHANGED <<wr, sent, rcvd>>

(* Reading fails, with LSAs perhaps still under way. *)
Fail ==
    /\ rd = "open" /\ rd' = "failed"
    /\ UNCHANGED <<wr, sent, rcvd>>

Next == Open \/ Reset \/ Write \/ Deliver \/ CloseWriter \/ CloseReader \/ Fail

Spec == Init /\ [][Next]_vars
=============================================================================
