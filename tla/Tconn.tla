------------------------------- MODULE Tconn -------------------------------
(***************************************************************************)
(* tconn.c: a TLS connection over a nonblocking socket.  gnutls reads and  *)
(* writes through two buffers; poll handlers move bytes between buffers    *)
(* and socket, two tasks call gnutls again when it can make progress.      *)
(* The code checks with verify_state(), at the beginning and the end of    *)
(* its handlers, that each handler and task is registered exactly when it  *)
(* is needed, and aborts the daemon when not.                              *)
(*                                                                         *)
(* A handler is one action.  Buffers are byte counts.  gnutls is external: *)
(* a call pulls what it likes of the bytes received, and returns GNUTLS_E_ *)
(* AGAIN exactly when a pull or a push was answered with EAGAIN.  It keeps *)
(* no decrypted data between calls (gnutls_record_check_pending() is 0): a *)
(* TLS record fits in the 32768 bytes do_record_recv() offers.             *)
(* connection_lost() ends in tconn_destroy() in both users of this file.   *)
(***************************************************************************)
EXTENDS Integers, FiniteSetsExt

CONSTANTS
    TX_BUF,     \* sizeof(tc->tx_buf)
    RX_BUF,     \* sizeof(tc->rx_buf)
    MaxMsg      \* the most gnutls writes in one call; a record fits in tx_buf

ASSUME BufferAssumption ==
    /\ TX_BUF \in Nat \ {0} /\ RX_BUF \in Nat \ {0}
    /\ MaxMsg \in 1..TX_BUF

VARIABLES
    state,      \* tc->state; GONE before tconn_start() and after tconn_destroy()
    io_error,   \* tc->io_error is set
    rx,         \* tc->rx_end - tc->rx_start
    rx_eof,     \* tc->rx_eof
    tx,         \* tc->tx_bytes
    hin, hout,  \* tc->fd->handler_in, handler_out are set
    rx_task,    \* how often tc->rx_task is registered
    tx_task,    \* how often tc->tx_task is registered
    dir,        \* gnutls_record_get_direction(tc->sess)
    owed        \* bytes gnutls has encrypted and not been able to push

vars == <<state, io_error, rx, rx_eof, tx, hin, hout, rx_task, tx_task, dir, owed>>

---------------------------------------------------------------------------
(* verify_state() *)

Readable == io_error \/ rx > 0 \/ rx_eof
Writable == io_error \/ tx < TX_BUF

NeedPollin == ~ io_error /\ rx = 0 /\ ~ rx_eof
NeedPollout == ~ io_error /\ tx > 0
NeedRxTask ==
    \/ state = "HANDSHAKE" /\ dir = 0 /\ Readable
    \/ state \in {"RUNNING", "TX_CONGESTION"} /\ Readable
NeedTxTask ==
    \/ state = "HANDSHAKE" /\ dir = 1 /\ Writable
    \/ state = "TX_CONGESTION" /\ Writable

Live == state # "GONE"
Count(b) == IF b THEN 1 ELSE 0

VerifyPollin == Live => (hin <=> NeedPollin)
VerifyPollout == Live => (hout => NeedPollout)
VerifyRxTask == Live => rx_task = Count(NeedRxTask)

(* tx_task is registered, once, exactly when gnutls can go on writing:     *)
(* verify_state() aborts with a message when it is not.                    *)
VerifyTxTask == Live => tx_task = Count(NeedTxTask)

(* verify_state() has aborted the daemon. *)
Aborted == ~ (VerifyPollin /\ VerifyPollout /\ VerifyRxTask /\ VerifyTxTask)

---------------------------------------------------------------------------
(* The transmit side: tx_bytes, handler_out, io_error, and what is left of *)
(* the bytes gnutls wants to push.                                         *)

Tx == [tx |-> tx, hout |-> hout, err |-> io_error, left |-> 0]

(* Mutant: a push is copied whole, whatever room there is. *)
CopyAll(t, n) == [t EXCEPT !.tx = @ + n, !.left = 0]

Copy(t, n) ==
    LET c == Min({n, TX_BUF - t.tx})
    IN  [t EXCEPT !.tx = @ + c, !.left = n - c]

(* tconn_gtls_push_func(), called until all n bytes are taken or it fails. *)
(* It sends when the buffer is full and nobody waits for POLLOUT yet;      *)
(* send() takes k bytes, 0 standing for EAGAIN, or fails.                  *)
Push(t, n) ==
    IF t.err THEN {[t EXCEPT !.left = n]}
    ELSE IF t.hout \/ t.tx + n < TX_BUF THEN {Copy(t, n)}
    ELSE LET rest == n - (TX_BUF - t.tx) IN
         {[t EXCEPT !.tx = TX_BUF, !.err = TRUE, !.left = rest]}
           \cup {Copy([t EXCEPT !.tx = TX_BUF - k, !.hout = (k < TX_BUF)], rest)
                  : k \in 0..TX_BUF}

(* Mutant: the handler for output is never set. *)
FlushNeverWaits(t) ==
    IF t.err \/ t.hout \/ t.tx = 0 THEN {t}
    ELSE {[t EXCEPT !.err = TRUE]}
           \cup {[t EXCEPT !.tx = @ - k] : k \in 0..t.tx}

(* tconn_tx_flush() *)
Flush(t) ==
    IF t.err \/ t.hout \/ t.tx = 0 THEN {t}
    ELSE {[t EXCEPT !.err = TRUE]}
           \cup {[t EXCEPT !.tx = @ - k, !.hout = (k < t.tx)] : k \in 0..t.tx}

Sent(t, n) == UNION {Flush(u) : u \in Push(t, n)}

(* Mutant: handler_out is not handed to ivykis. *)
SetTxSilently(t) == tx' = t.tx /\ hout' = hout

SetTx(t) == tx' = t.tx /\ hout' = t.hout

---------------------------------------------------------------------------
(* connection_abort() and the tconn_destroy() that follows it.             *)
(* tconn_start() gives the buffers their initial values again.             *)
Gone ==
    /\ state' = "GONE"
    /\ io_error' = FALSE /\ rx' = 0 /\ rx_eof' = FALSE /\ tx' = 0
    /\ hin' = FALSE /\ hout' = FALSE
    /\ rx_task' = 0 /\ tx_task' = 0
    /\ dir' = 0 /\ owed' = 0

(* Mutant: rx_start is not advanced. *)
PulledAgain(r) == UNCHANGED <<rx, hin>>

(* tconn_gtls_pull_func() polls for input again when the buffer is empty. *)
Pulled(r) == rx' = r /\ hin' = (hin \/ (rx > 0 /\ r = 0))

(* do_handshake() from a task; rxt and txt are the tasks registered after  *)
(* ivykis has unregistered the running one.  A failed flush makes the      *)
(* second call of gnutls_handshake() fail.  gnutls goes on where it was    *)
(* blocked, and has something new to write only after it has read.         *)
DoHandshake(rxt, txt) ==
    \/ Gone
    \/ \E n \in owed..MaxMsg, r \in 0..rx : \E t \in Sent(Tx, n) :
        /\ r = rx => dir = 1 /\ n = owed
        /\ ~ t.err
        /\ SetTx(t) /\ Pulled(r)
        /\ owed' = t.left
        /\ \/ /\ t.left > 0                       \* GNUTLS_E_AGAIN, writing
              /\ dir' = 1
              /\ rx_task' = rxt
              /\ UNCHANGED state
           \/ /\ t.left = 0 /\ r = 0 /\ ~ rx_eof   \* GNUTLS_E_AGAIN, reading
              /\ dir' = 0
              /\ rx_task' = rxt
              /\ UNCHANGED state
           \/ /\ t.left = 0                       \* done
              /\ state' = "RUNNING"
              /\ rx_task' = rxt + Count(r > 0 \/ rx_eof)
              /\ UNCHANGED dir
        /\ tx_task' = txt
        /\ UNCHANGED <<io_error, rx_eof>>

(* Mutants: the rest of the buffer is left for the next input; end of file *)
(* is taken for a record of no bytes.                                      *)
DoRecordRecvOnce(rxt, txt) ==
    \/ Gone
    \/ /\ ~ io_error /\ rx > 0
       /\ \E r \in 0..(rx - 1) : Pulled(r) /\ rx_task' = rxt
       /\ tx_task' = txt
       /\ UNCHANGED <<state, io_error, rx_eof, tx, hout, dir, owed>>

DoRecordRecvPastEof(rxt, txt) ==
    \/ ~ rx_eof /\ Gone
    \/ /\ ~ io_error /\ (rx > 0 \/ rx_eof)
       /\ \E r \in 0..rx : Pulled(r) /\ rx_task' = rxt + Count(r > 0 \/ rx_eof)
       /\ tx_task' = txt
       /\ UNCHANGED <<state, io_error, rx_eof, tx, hout, dir, owed>>

(* do_record_recv(): a record, part of a record, or the end. *)
DoRecordRecv(rxt, txt) ==
    \/ Gone
    \/ /\ ~ io_error /\ rx > 0
       /\ \E r \in 0..(rx - 1) : Pulled(r) /\ rx_task' = rxt + Count(r > 0)
       /\ tx_task' = txt
       /\ UNCHANGED <<state, io_error, rx_eof, tx, hout, dir, owed>>

(* do_record_send(): the rest of the record that met a full buffer. *)
DoRecordSend(rxt, txt) ==
    \/ Gone
    \/ \E t \in Sent(Tx, owed) :
        /\ ~ t.err
        /\ SetTx(t)
        /\ owed' = t.left
        /\ state' = IF t.left > 0 THEN "TX_CONGESTION" ELSE "RUNNING"
        /\ rx_task' = rxt /\ tx_task' = txt
        /\ UNCHANGED <<io_error, rx, rx_eof, hin, dir>>

---------------------------------------------------------------------------
(* The actions. *)

(* tconn_start(); gnutls has nothing to read yet. *)
Start ==
    /\ ~ Live
    /\ \E n \in 0..MaxMsg : \E t \in Sent([tx |-> 0, hout |-> FALSE, err |-> FALSE, left |-> 0], n) :
        /\ ~ t.err
        /\ SetTx(t)
        /\ owed' = t.left
        /\ dir' = Count(t.left > 0)
    /\ state' = "HANDSHAKE"
    /\ hin' = TRUE
    /\ UNCHANGED <<io_error, rx, rx_eof, rx_task, tx_task>>

(* tconn_destroy(), when the upper layer gives the connection up. *)
Destroy == ~ Aborted /\ Live /\ Gone

(* got_io_error(), which is also called at end of file. *)
GotIoError ==
    /\ hin' = FALSE /\ hout' = FALSE
    /\ rx_task' = IF \/ state = "HANDSHAKE" /\ dir = 0
                     \/ state \in {"RUNNING", "TX_CONGESTION"}
                  THEN 1 ELSE rx_task
    /\ tx_task' = IF \/ state = "HANDSHAKE" /\ dir = 1
                     \/ state = "TX_CONGESTION"
                  THEN 1 ELSE tx_task
    /\ UNCHANGED <<state, rx, tx, dir, owed>>

(* tconn_fd_handler_in(), when recv() does not return EAGAIN. *)
HandlerIn ==
    /\ ~ Aborted /\ hin
    /\ \/ /\ rx' \in 1..RX_BUF
          /\ hin' = FALSE
          /\ rx_task' = rx_task + Count(\/ state = "HANDSHAKE" /\ dir = 0
                                        \/ state \in {"RUNNING", "TX_CONGESTION"})
          /\ UNCHANGED <<state, io_error, rx_eof, tx, hout, tx_task, dir, owed>>
       \/ rx_eof' = TRUE /\ UNCHANGED io_error /\ GotIoError
       \/ io_error' = TRUE /\ UNCHANGED rx_eof /\ GotIoError

(* tconn_fd_handler_out(), when send() does not return EAGAIN. *)
HandlerOut ==
    /\ ~ Aborted /\ hout
    /\ \/ io_error' = TRUE /\ UNCHANGED rx_eof /\ GotIoError
       \/ \E k \in 1..tx :
            /\ tx' = tx - k
            /\ hout' = (k < tx)
            /\ tx_task' = tx_task + Count(/\ tx = TX_BUF
                                          /\ \/ state = "HANDSHAKE" /\ dir = 1
                                             \/ state = "TX_CONGESTION")
            /\ UNCHANGED <<state, io_error, rx, rx_eof, hin, rx_task, dir, owed>>

RxTask ==
    /\ ~ Aborted /\ rx_task > 0
    /\ IF state = "HANDSHAKE" THEN DoHandshake(rx_task - 1, tx_task)
                              ELSE DoRecordRecv(rx_task - 1, tx_task)

TxTask ==
    /\ ~ Aborted /\ tx_task > 0
    /\ IF state = "HANDSHAKE" THEN DoHandshake(rx_task, tx_task - 1)
                              ELSE DoRecordSend(rx_task, tx_task - 1)

(* tconn_record_send() of n bytes.  In TX_CONGESTION the record is dropped *)
(* and nothing changes.  When it fails the caller destroys the connection. *)
RecordSend(n) ==
    /\ ~ Aborted /\ state = "RUNNING"
    /\ \/ Gone
       \/ \E t \in Sent(Tx, n) :
            /\ ~ t.err
            /\ SetTx(t)
            /\ owed' = t.left
            /\ state' = IF t.left > 0 THEN "TX_CONGESTION" ELSE "RUNNING"
            /\ UNCHANGED <<io_error, rx, rx_eof, hin, rx_task, tx_task, dir>>

Init ==
    /\ state = "GONE"
    /\ io_error = FALSE /\ rx = 0 /\ rx_eof = FALSE /\ tx = 0
    /\ hin = FALSE /\ hout = FALSE
    /\ rx_task = 0 /\ tx_task = 0
    /\ dir = 0 /\ owed = 0

Next ==
    \/ Start \/ Destroy
    \/ HandlerIn \/ HandlerOut
    \/ RxTask \/ TxTask
    \/ \E n \in 1..MaxMsg : RecordSend(n)

(* ivykis runs registered tasks; the remote end reads what it is sent. *)
Fairness == WF_vars(RxTask) /\ WF_vars(TxTask) /\ WF_vars(HandlerOut)

Spec == Init /\ [][Next]_vars /\ Fairness

---------------------------------------------------------------------------
(* Types; the buffers keep to their sizes. *)
TypeOK ==
    /\ state \in {"GONE", "HANDSHAKE", "RUNNING", "TX_CONGESTION"}
    /\ rx \in 0..RX_BUF /\ tx \in 0..TX_BUF
    /\ io_error \in BOOLEAN /\ rx_eof \in BOOLEAN
    /\ hin \in BOOLEAN /\ hout \in BOOLEAN
    /\ rx_task \in Nat /\ tx_task \in Nat
    /\ dir \in {0, 1} /\ owed \in 0..MaxMsg

(* The other three checks of verify_state() always pass.  handler_in is    *)
(* set exactly when there is room and reason to read, and rx_task is       *)
(* registered, once, exactly when gnutls can go on reading: the connection *)
(* neither stalls, nor reads into a full buffer, nor is woken for nothing. *)
(* The check of tx_task fails in one situation only: got_io_error() was    *)
(* called for end of file and found the transmit buffer full.              *)
VerifyState ==
    /\ VerifyPollin /\ VerifyPollout /\ VerifyRxTask
    /\ VerifyTxTask \/ (rx_eof /\ tx = TX_BUF)

(* Bytes in tx_buf are waited for by handler_out: what the comment in      *)
(* verify_state_pollout() excuses is over by the end of every handler.     *)
(* Only end of file, after which the connection ends, leaves some behind.  *)
NothingUnsent == Live /\ NeedPollout /\ ~ rx_eof => hout

(* A congested connection does not stay so: tx_task is woken when the      *)
(* buffer drains, until the whole record is out.                           *)
CongestionEnds == state = "TX_CONGESTION" ~> state # "TX_CONGESTION" \/ Aborted

(* What was received reaches gnutls, also when the bytes came while the    *)
(* handshake was blocked on writing.                                       *)
ReceivedIsRead == rx > 0 ~> rx = 0 \/ Aborted

(* After an I/O error or end of file the connection is reported lost. *)
ErrorEndsConnection == io_error \/ rx_eof ~> ~ Live \/ Aborted
=============================================================================
