---------------------------- MODULE TconnProofs ----------------------------
(***************************************************************************)
(* Proofs about module Tconn, for every size of the buffers.               *)
(***************************************************************************)
EXTENDS Tconn, TLAPS

---------------------------------------------------------------------------
(* The transmit side.                                                      *)

TxSide == [tx : 0..TX_BUF, hout : BOOLEAN, err : BOOLEAN, left : Nat]

(* Nobody waits to write nothing. *)
Sound(t) == t \in TxSide /\ (t.hout => t.tx > 0)

(* Fields of a transmit side, one by one. *)
LEMMA SideFields ==
    ASSUME NEW t \in TxSide
    PROVE  /\ t.tx \in 0..TX_BUF /\ t.hout \in BOOLEAN /\ t.err \in BOOLEAN
           /\ t.left \in Nat
BY DEF TxSide

(* The smaller of two numbers. *)
LEMMA MinOfTwo ==
    ASSUME NEW a \in Int, NEW b \in Int
    PROVE  /\ Min({a, b}) \in {a, b}
           /\ Min({a, b}) <= a /\ Min({a, b}) <= b
<1>1. CASE a <= b
  <2>1. a \in {a, b} /\ \A y \in {a, b} : a <= y
    BY <1>1
  <2> QED BY <2>1 DEF Min
<1>2. CASE ~ (a <= b)
  <2>1. b \in {a, b} /\ \A y \in {a, b} : b <= y
    BY <1>2
  <2> QED BY <2>1 DEF Min
<1> QED BY <1>1, <1>2

(* What is copied into tx_buf fits, and what does not leaves it full. *)
LEMMA CopyProps ==
    ASSUME NEW t \in TxSide, NEW n \in Nat, NEW u, u = Copy(t, n)
    PROVE  /\ u \in TxSide
           /\ u.hout <=> t.hout
           /\ u.err <=> t.err
           /\ u.tx >= t.tx
           /\ u.left <= n
           /\ u.left > 0 => u.tx = TX_BUF
           /\ n <= TX_BUF - t.tx => u.left = 0
<1> DEFINE c == Min({n, TX_BUF - t.tx})
<1>1. t.tx \in 0..TX_BUF
  BY SideFields
<1>2. n \in Int /\ TX_BUF - t.tx \in Int /\ TX_BUF - t.tx \in Nat
  BY <1>1, BufferAssumption
<1>3. c \in {n, TX_BUF - t.tx} /\ c <= n /\ c <= TX_BUF - t.tx
  BY <1>2, MinOfTwo
<1>4. u = [t EXCEPT !.tx = @ + c, !.left = n - c]
  BY DEF Copy
<1> HIDE DEF c
<1>5. t.tx + c \in 0..TX_BUF /\ t.tx + c >= t.tx /\ n - c \in Nat
  BY <1>1, <1>2, <1>3, BufferAssumption
<1>6. u \in TxSide
  BY <1>4, <1>5 DEF TxSide
<1>7. u.tx = t.tx + c /\ (u.hout <=> t.hout) /\ (u.err <=> t.err) /\ u.left = n - c
  BY <1>4 DEF TxSide
<1> QED BY <1>1, <1>2, <1>3, <1>5, <1>6, <1>7, BufferAssumption

(* tconn_gtls_push_func(): what is left over met a full buffer that is     *)
(* waited for, or an error.                                                *)
LEMMA PushProps ==
    ASSUME NEW t, Sound(t), NEW n \in 0..MaxMsg, NEW u \in Push(t, n)
    PROVE  /\ Sound(u)
           /\ u.left <= n
           /\ t.err => u.err
           /\ u.left > 0 /\ ~ u.err => u.tx = TX_BUF /\ u.hout
<1>1. t \in TxSide /\ (t.hout => t.tx > 0)
  BY DEF Sound
<1>2. t.tx \in 0..TX_BUF /\ t.hout \in BOOLEAN /\ t.err \in BOOLEAN /\ t.left \in Nat
  BY <1>1, SideFields
<1>3. n \in Nat /\ n <= TX_BUF /\ TX_BUF \in Nat /\ TX_BUF > 0 /\ TX_BUF \in 0..TX_BUF
  BY BufferAssumption
<1>4. CASE t.err
  <2>1. u = [t EXCEPT !.left = n]
    BY <1>4 DEF Push
  <2>2. u \in TxSide
    BY <1>1, <1>3, <2>1 DEF TxSide
  <2>3. u.tx = t.tx /\ (u.hout <=> t.hout) /\ (u.err <=> t.err) /\ u.left = n
    BY <1>1, <2>1 DEF TxSide
  <2> QED BY <1>1, <1>3, <1>4, <2>2, <2>3 DEF Sound
<1>5. CASE ~ t.err /\ (t.hout \/ t.tx + n < TX_BUF)
  <2>1. u = Copy(t, n)
    BY <1>5 DEF Push
  <2>2. /\ u \in TxSide /\ (u.hout <=> t.hout) /\ (u.err <=> t.err) /\ u.tx >= t.tx
        /\ u.left <= n /\ (u.left > 0 => u.tx = TX_BUF)
        /\ (n <= TX_BUF - t.tx => u.left = 0)
    BY <1>1, <1>3, <2>1, CopyProps
  <2>3. u.tx \in 0..TX_BUF
    BY <2>2, SideFields
  <2> QED BY <1>1, <1>2, <1>3, <1>5, <2>2, <2>3 DEF Sound
<1>6. CASE ~ t.err /\ ~ (t.hout \/ t.tx + n < TX_BUF)
  <2> DEFINE rest == n - (TX_BUF - t.tx)
             F(k) == [t EXCEPT !.tx = TX_BUF - k, !.hout = (k < TX_BUF)]
  <2>1. rest \in Nat /\ rest <= n
    BY <1>2, <1>3, <1>6
  <2>2. \/ u = [t EXCEPT !.tx = TX_BUF, !.err = TRUE, !.left = rest]
        \/ \E k \in 0..TX_BUF : u = Copy(F(k), rest)
    BY <1>6 DEF Push
  <2> HIDE DEF rest
  <2>3. CASE u = [t EXCEPT !.tx = TX_BUF, !.err = TRUE, !.left = rest]
    <3>1. u \in TxSide
      BY <1>1, <1>3, <2>1, <2>3 DEF TxSide
    <3>2. u.tx = TX_BUF /\ u.err /\ u.left = rest
      BY <1>1, <2>3 DEF TxSide
    <3> QED BY <1>3, <2>1, <3>1, <3>2 DEF Sound
  <2>4. ASSUME NEW k \in 0..TX_BUF, u = Copy(F(k), rest)
        PROVE  /\ Sound(u) /\ u.left <= n
               /\ u.left > 0 => u.tx = TX_BUF /\ u.hout
    <3>1. TX_BUF - k \in 0..TX_BUF
      BY <1>3
    <3>2. F(k) \in TxSide
      <4>1. PICK b : b = (k < TX_BUF)
        OBVIOUS
      <4>2. b \in BOOLEAN
        BY <4>1
      <4>3. F(k) = [t EXCEPT !.tx = TX_BUF - k, !.hout = b]
        BY <4>1
      <4> HIDE DEF F
      <4> QED BY <1>1, <3>1, <4>2, <4>3 DEF TxSide
    <3>3. F(k).tx = TX_BUF - k /\ (F(k).hout <=> k < TX_BUF)
      BY <1>1 DEF TxSide
    <3> HIDE DEF F
    <3>4. /\ u \in TxSide /\ (u.hout <=> F(k).hout) /\ u.tx >= F(k).tx /\ u.left <= rest
          /\ u.left > 0 => u.tx = TX_BUF
          /\ rest <= TX_BUF - F(k).tx => u.left = 0
      BY <2>1, <2>4, <3>2, CopyProps
    <3>5. u.tx \in 0..TX_BUF /\ u.left \in Nat
      BY <3>4, SideFields
    <3>6. k = TX_BUF => u.left = 0
      BY <1>3, <2>1, <3>3, <3>4
    <3> QED BY <1>3, <2>1, <3>1, <3>3, <3>4, <3>5, <3>6 DEF Sound
  <2> QED BY <1>6, <2>2, <2>3, <2>4
<1> QED BY <1>2, <1>4, <1>5, <1>6

(* tconn_tx_flush(): bytes that stay behind are waited for. *)
LEMMA FlushProps ==
    ASSUME NEW t, Sound(t), NEW u \in Flush(t)
    PROVE  /\ Sound(u)
           /\ u.left = t.left
           /\ u.err \/ u.hout \/ u.tx = 0
           /\ t.err => u.err
           /\ t.hout => u = t
<1>1. t \in TxSide /\ (t.hout => t.tx > 0)
  BY DEF Sound
<1>2. t.tx \in 0..TX_BUF /\ t.hout \in BOOLEAN /\ t.err \in BOOLEAN /\ t.left \in Nat
      /\ TX_BUF \in Nat
  BY <1>1, SideFields, BufferAssumption
<1>3. CASE t.err \/ t.hout \/ t.tx = 0
  <2>1. u = t
    BY <1>3 DEF Flush
  <2> QED BY <1>3, <2>1
<1>4. CASE ~ (t.err \/ t.hout \/ t.tx = 0)
  <2>1. \/ u = [t EXCEPT !.err = TRUE]
        \/ \E k \in 0..t.tx : u = [t EXCEPT !.tx = @ - k, !.hout = (k < t.tx)]
    BY <1>4 DEF Flush
  <2>2. CASE u = [t EXCEPT !.err = TRUE]
    <3>1. u \in TxSide
      BY <1>1, <2>2 DEF TxSide
    <3>2. (u.hout <=> t.hout) /\ u.err /\ u.left = t.left
      BY <1>1, <2>2 DEF TxSide
    <3> QED BY <1>4, <3>1, <3>2 DEF Sound
  <2>3. ASSUME NEW k \in 0..t.tx, u = [t EXCEPT !.tx = @ - k, !.hout = (k < t.tx)]
        PROVE  Sound(u) /\ u.left = t.left /\ (u.hout \/ u.tx = 0)
    <3>1. t.tx - k \in 0..TX_BUF
      BY <1>2
    <3>2. u \in TxSide
      <4>1. PICK b : b = (k < t.tx)
        OBVIOUS
      <4>2. b \in BOOLEAN
        BY <4>1
      <4>3. u = [t EXCEPT !.tx = t.tx - k, !.hout = b]
        BY <2>3, <4>1
      <4> QED BY <1>1, <3>1, <4>2, <4>3 DEF TxSide
    <3>3. u.tx = t.tx - k /\ (u.hout <=> k < t.tx) /\ u.left = t.left
      BY <1>1, <2>3 DEF TxSide
    <3> QED BY <1>2, <3>2, <3>3 DEF Sound
  <2> QED BY <1>4, <2>1, <2>2, <2>3
<1> QED BY <1>3, <1>4

(* A push and the flush that follows it. *)
LEMMA SentProps ==
    ASSUME NEW t, Sound(t), NEW n \in 0..MaxMsg, NEW u \in Sent(t, n)
    PROVE  /\ u.tx \in 0..TX_BUF /\ u.hout \in BOOLEAN /\ u.err \in BOOLEAN
           /\ u.left \in 0..n
           /\ u.hout => u.tx > 0
           /\ u.err \/ u.hout \/ u.tx = 0
           /\ t.err => u.err
           /\ u.left > 0 /\ ~ u.err => u.tx = TX_BUF
<1>1. PICK v \in Push(t, n) : u \in Flush(v)
  BY DEF Sent
<1>2. /\ Sound(v) /\ v.left <= n /\ (t.err => v.err)
      /\ v.left > 0 /\ ~ v.err => v.tx = TX_BUF /\ v.hout
  BY PushProps
<1>3. /\ Sound(u) /\ u.left = v.left /\ (u.err \/ u.hout \/ u.tx = 0)
      /\ v.err => u.err
      /\ v.hout => u = v
  BY <1>1, <1>2, FlushProps
<1> QED BY <1>2, <1>3 DEF Sound, TxSide

---------------------------------------------------------------------------
(* The inductive invariant.  The checks of verify_state() need two facts   *)
(* no check mentions: a connection that is gone has left nothing behind    *)
(* for the next tconn_start(), and once end of file was seen the receive   *)
(* buffer stays empty, or tconn_gtls_pull_func() would poll for input      *)
(* again.                                                                  *)
GoneIsReset ==
    ~ Live => /\ ~ io_error /\ rx = 0 /\ ~ rx_eof
              /\ ~ hin /\ ~ hout /\ rx_task = 0 /\ tx_task = 0

EofEmpty == rx_eof => rx = 0

IInv == TypeOK /\ VerifyState /\ NothingUnsent /\ GoneIsReset /\ EofEmpty

(* verify_state() opened up, to be used where a handler begins. *)
Verified ==
    /\ hin <=> NeedPollin
    /\ hout => NeedPollout
    /\ rx_task = Count(NeedRxTask)
    /\ tx_task = Count(NeedTxTask)

LEMMA VerifiedAtEntry == ASSUME Live, ~ Aborted PROVE Verified
BY DEF Aborted, VerifyPollin, VerifyPollout, VerifyRxTask, VerifyTxTask, Verified

(* The transmit side a handler begins with. *)
LEMMA TxSound ==
    ASSUME TypeOK, Verified
    PROVE  Sound(Tx) /\ (Tx.err <=> io_error)
<1>1. tx \in 0..TX_BUF /\ hout \in BOOLEAN /\ io_error \in BOOLEAN
  BY DEF TypeOK
<1>2. Tx \in TxSide
  BY <1>1 DEF Tx, TxSide
<1>3. hout => tx > 0
  BY DEF Verified, NeedPollout
<1> QED BY <1>2, <1>3 DEF Sound, Tx

LEMMA InitIInv == Init => IInv
<1> SUFFICES ASSUME Init PROVE IInv
  OBVIOUS
<1>1. TypeOK
  <2>1. /\ io_error \in BOOLEAN /\ rx_eof \in BOOLEAN
        /\ hin \in BOOLEAN /\ hout \in BOOLEAN
    BY DEF Init
  <2>2. /\ rx \in 0..RX_BUF /\ tx \in 0..TX_BUF /\ rx_task \in Nat
        /\ tx_task \in Nat /\ dir \in {0, 1} /\ owed \in 0..MaxMsg
    BY BufferAssumption DEF Init
  <2> QED BY <2>1, <2>2 DEF Init, TypeOK
<1>2. ~ Live /\ GoneIsReset /\ EofEmpty
  BY DEF Init, Live, GoneIsReset, EofEmpty
<1> QED BY <1>1, <1>2
        DEF IInv, VerifyState, VerifyPollin, VerifyPollout, VerifyRxTask, VerifyTxTask,
            NothingUnsent

(* tconn_destroy() *)
LEMMA GoneIInv == Gone => IInv'
<1> SUFFICES ASSUME Gone PROVE IInv'
  OBVIOUS
<1>1. TypeOK'
  <2>1. /\ io_error' \in BOOLEAN /\ rx_eof' \in BOOLEAN
        /\ hin' \in BOOLEAN /\ hout' \in BOOLEAN
    BY DEF Gone
  <2>2. /\ rx' \in 0..RX_BUF /\ tx' \in 0..TX_BUF /\ rx_task' \in Nat
        /\ tx_task' \in Nat /\ dir' \in {0, 1} /\ owed' \in 0..MaxMsg
    BY BufferAssumption DEF Gone
  <2> QED BY <2>1, <2>2 DEF Gone, TypeOK
<1>2. ~ Live' /\ GoneIsReset' /\ EofEmpty'
  BY DEF Gone, Live, GoneIsReset, EofEmpty
<1> QED BY <1>1, <1>2
        DEF IInv, VerifyState, VerifyPollin, VerifyPollout, VerifyRxTask, VerifyTxTask,
            NothingUnsent

(* tconn_start() *)
LEMMA StartIInv == ASSUME IInv, Start PROVE IInv'
<1> DEFINE t0 == [tx |-> 0, hout |-> FALSE, err |-> FALSE, left |-> 0]
<1>1. Sound(t0)
  BY BufferAssumption DEF Sound, TxSide
<1>2. PICK n \in 0..MaxMsg : \E t \in Sent(t0, n) :
        ~ t.err /\ SetTx(t) /\ owed' = t.left /\ dir' = Count(t.left > 0)
  BY DEF Start
<1> HIDE DEF t0
<1>3. PICK t \in Sent(t0, n) :
        ~ t.err /\ SetTx(t) /\ owed' = t.left /\ dir' = Count(t.left > 0)
  BY <1>2
<1>4. /\ t.tx \in 0..TX_BUF /\ t.hout \in BOOLEAN /\ t.left \in 0..n
      /\ t.hout => t.tx > 0
      /\ t.hout \/ t.tx = 0
      /\ t.left > 0 => t.tx = TX_BUF
  BY <1>1, <1>3, SentProps
<1>5. /\ ~ Live /\ ~ io_error /\ rx = 0 /\ ~ rx_eof /\ rx_task = 0 /\ tx_task = 0
      /\ io_error \in BOOLEAN /\ rx_eof \in BOOLEAN
  BY DEF Start, IInv, GoneIsReset, TypeOK
<1>6. /\ state' = "HANDSHAKE" /\ hin' = TRUE /\ tx' = t.tx /\ hout' = t.hout
      /\ owed' = t.left /\ dir' = Count(t.left > 0)
      /\ UNCHANGED <<io_error, rx, rx_eof, rx_task, tx_task>>
  BY <1>3 DEF Start, SetTx
<1>7. dir' \in {0, 1} /\ (dir' = 1 <=> t.left > 0)
  BY <1>4, <1>6 DEF Count
<1>8. TypeOK'
  BY <1>4, <1>5, <1>6, <1>7, BufferAssumption DEF TypeOK
<1>9. VerifyState'
  <2>1. ~ NeedRxTask' /\ ~ NeedTxTask' /\ NeedPollin' /\ (hout' => NeedPollout')
    BY <1>4, <1>5, <1>6, <1>7, BufferAssumption
    DEF NeedRxTask, NeedTxTask, NeedPollin, NeedPollout, Readable, Writable
  <2> QED BY <1>5, <1>6, <2>1
          DEF VerifyState, VerifyPollin, VerifyPollout, VerifyRxTask, VerifyTxTask, Count
<1> QED BY <1>4, <1>5, <1>6, <1>8, <1>9
        DEF IInv, NothingUnsent, GoneIsReset, EofEmpty, NeedPollout, Live

(* tconn_gtls_pull_func(): input is polled for again exactly when there is *)
(* room and no end of file.                                                *)
LEMMA PulledProps ==
    ASSUME TypeOK, Verified, EofEmpty, ~ io_error, UNCHANGED <<io_error, rx_eof>>,
           NEW r \in 0..rx, Pulled(r)
    PROVE  /\ rx' = r /\ rx' \in 0..RX_BUF /\ hin' \in BOOLEAN
           /\ hin' <=> NeedPollin'
           /\ EofEmpty'
<1>1. rx \in 0..RX_BUF /\ hin \in BOOLEAN /\ RX_BUF \in Nat
  BY BufferAssumption DEF TypeOK
<1>2. rx' = r /\ (hin' <=> hin \/ (rx > 0 /\ r = 0))
  BY DEF Pulled
<1>3. hin' \in BOOLEAN
  BY DEF Pulled
<1> QED BY <1>1, <1>2, <1>3 DEF EofEmpty, Verified, NeedPollin

(* do_handshake(), from either task.  The caller has unregistered the task *)
(* it runs in, so that none is registered when gnutls is called.           *)
LEMMA DoHandshakeIInv ==
    ASSUME IInv, Verified, state = "HANDSHAKE", DoHandshake(0, 0)
    PROVE  IInv'
<1>1. CASE Gone
  BY <1>1, GoneIInv
<1>2. CASE ~ Gone
  <2> DEFINE A(n, r, t) ==
        /\ r = rx => dir = 1 /\ n = owed
        /\ ~ t.err
        /\ SetTx(t) /\ Pulled(r)
        /\ owed' = t.left
        /\ \/ /\ t.left > 0
              /\ dir' = 1
              /\ rx_task' = 0
              /\ UNCHANGED state
           \/ /\ t.left = 0 /\ r = 0 /\ ~ rx_eof
              /\ dir' = 0
              /\ rx_task' = 0
              /\ UNCHANGED state
           \/ /\ t.left = 0
              /\ state' = "RUNNING"
              /\ rx_task' = 0 + Count(r > 0 \/ rx_eof)
              /\ UNCHANGED dir
        /\ tx_task' = 0
        /\ UNCHANGED <<io_error, rx_eof>>
  <2>1. PICK n \in owed..MaxMsg, r \in 0..rx : \E t \in Sent(Tx, n) : A(n, r, t)
    BY <1>2 DEF DoHandshake
  <2>2. PICK t \in Sent(Tx, n) : A(n, r, t)
    BY <2>1
  <2>3. TypeOK /\ EofEmpty /\ Sound(Tx) /\ (Tx.err <=> io_error)
    BY TxSound DEF IInv
  <2>4. n \in 0..MaxMsg
    BY <2>3, BufferAssumption DEF TypeOK
  <2>5. /\ t.tx \in 0..TX_BUF /\ t.hout \in BOOLEAN /\ t.left \in 0..n
        /\ t.hout => t.tx > 0
        /\ t.hout \/ t.tx = 0
        /\ t.left > 0 => t.tx = TX_BUF
        /\ ~ io_error
    BY <2>2, <2>3, <2>4, SentProps
  <2>6. tx' = t.tx /\ hout' = t.hout /\ tx_task' = 0 /\ owed' = t.left
        /\ io_error' = io_error /\ rx_eof' = rx_eof
    BY <2>2 DEF SetTx
  <2>7. rx' = r /\ rx' \in 0..RX_BUF /\ hin' \in BOOLEAN /\ (hin' <=> NeedPollin') /\ EofEmpty'
    BY <2>2, <2>3, <2>5, PulledProps
  <2>8. /\ state' \in {"HANDSHAKE", "RUNNING"}
        /\ state' = "HANDSHAKE" => rx_task' = 0 /\ dir' \in {0, 1}
        /\ state' = "HANDSHAKE" /\ dir' = 1 => t.left > 0
        /\ state' = "HANDSHAKE" /\ dir' = 0 => r = 0 /\ ~ rx_eof
        /\ state' = "RUNNING" => rx_task' = Count(r > 0 \/ rx_eof) /\ dir' = dir
    BY <2>2 DEF Count
  <2>9. rx_task' = Count(NeedRxTask')
    BY <2>5, <2>6, <2>7, <2>8 DEF NeedRxTask, Readable, Count
  <2>10. tx_task' = Count(NeedTxTask')
    BY <2>5, <2>6, <2>8, BufferAssumption DEF NeedTxTask, Writable, Count
  <2>11. TypeOK'
    <3>1. rx_task' \in Nat /\ tx_task' \in Nat
      BY <2>9, <2>10 DEF Count
    <3>2. dir' \in {0, 1} /\ owed' \in 0..MaxMsg
      BY <2>3, <2>4, <2>5, <2>6, <2>8, BufferAssumption DEF TypeOK
    <3> QED BY <2>3, <2>5, <2>6, <2>7, <2>8, <3>1, <3>2 DEF TypeOK
  <2>12. (hout' => NeedPollout') /\ (NeedPollout' => hout')
    BY <2>5, <2>6 DEF NeedPollout
  <2> QED BY <2>7, <2>8, <2>9, <2>10, <2>11, <2>12
          DEF IInv, VerifyState, VerifyPollin, VerifyPollout, VerifyRxTask, VerifyTxTask,
              NothingUnsent, GoneIsReset, Live
<1> QED BY <1>1, <1>2

(* do_record_recv() *)
LEMMA DoRecordRecvIInv ==
    ASSUME IInv, Verified, state \in {"RUNNING", "TX_CONGESTION"},
           DoRecordRecv(0, tx_task)
    PROVE  IInv'
<1>1. CASE Gone
  BY <1>1, GoneIInv
<1>2. CASE ~ Gone
  <2>1. /\ ~ io_error /\ rx > 0 /\ tx_task' = tx_task
        /\ UNCHANGED <<state, io_error, rx_eof, tx, hout, dir, owed>>
    BY <1>2 DEF DoRecordRecv
  <2>2. PICK r \in 0..(rx - 1) : Pulled(r) /\ rx_task' = 0 + Count(r > 0)
    BY <1>2 DEF DoRecordRecv
  <2>3. TypeOK /\ EofEmpty /\ rx \in 0..RX_BUF /\ r \in 0..rx
    BY BufferAssumption DEF IInv, TypeOK
  <2>4. rx' = r /\ rx' \in 0..RX_BUF /\ hin' \in BOOLEAN /\ (hin' <=> NeedPollin') /\ EofEmpty'
    BY <2>1, <2>2, <2>3, PulledProps
  <2>5. ~ rx_eof
    BY <2>1, <2>3 DEF EofEmpty
  <2>6. rx_task' = Count(NeedRxTask')
    BY <2>1, <2>2, <2>4, <2>5 DEF NeedRxTask, Readable, Count
  <2>7. tx_task' = Count(NeedTxTask')
    BY <2>1 DEF Verified, NeedTxTask, Writable
  <2>8. TypeOK'
    <3>1. rx_task' \in Nat /\ tx_task' \in Nat
      BY <2>6, <2>7 DEF Count
    <3> QED BY <2>1, <2>3, <2>4, <3>1 DEF TypeOK
  <2>9. NothingUnsent' /\ (hout' => NeedPollout')
    BY <2>1 DEF IInv, NothingUnsent, Verified, NeedPollout, Live
  <2> QED BY <2>1, <2>4, <2>6, <2>7, <2>8, <2>9
          DEF IInv, VerifyState, VerifyPollin, VerifyPollout, VerifyRxTask, VerifyTxTask,
              GoneIsReset, Live
<1> QED BY <1>1, <1>2

(* The end of do_record_send() and of tconn_record_send(): a record that   *)
(* is not out meets a full buffer.                                         *)
LEMMA SendIInv ==
    ASSUME IInv, Verified, state \in {"RUNNING", "TX_CONGESTION"},
           NEW n \in 0..MaxMsg, NEW t \in Sent(Tx, n), ~ t.err, SetTx(t), owed' = t.left,
           state' = IF t.left > 0 THEN "TX_CONGESTION" ELSE "RUNNING",
           rx_task' = rx_task, tx_task' = 0,
           UNCHANGED <<io_error, rx, rx_eof, hin, dir>>
    PROVE  IInv'
<1>1. TypeOK /\ EofEmpty /\ Sound(Tx) /\ (Tx.err <=> io_error)
  BY TxSound DEF IInv
<1>2. /\ t.tx \in 0..TX_BUF /\ t.hout \in BOOLEAN /\ t.left \in 0..n
      /\ t.hout => t.tx > 0
      /\ t.hout \/ t.tx = 0
      /\ t.left > 0 => t.tx = TX_BUF
      /\ ~ io_error
  BY <1>1, SentProps
<1>3. tx' = t.tx /\ hout' = t.hout
  BY DEF SetTx
<1>4. /\ state' \in {"RUNNING", "TX_CONGESTION"}
      /\ state' = "TX_CONGESTION" => t.left > 0
  OBVIOUS
<1>5. rx_task' = Count(NeedRxTask')
  BY <1>4 DEF Verified, NeedRxTask, Readable
<1>6. tx_task' = Count(NeedTxTask')
  BY <1>2, <1>3, <1>4, BufferAssumption DEF NeedTxTask, Writable, Count
<1>7. TypeOK'
  <2>1. owed' \in 0..MaxMsg
    BY <1>2, BufferAssumption
  <2> QED BY <1>1, <1>2, <1>3, <1>4, <2>1 DEF TypeOK
<1>8. /\ hin' <=> NeedPollin'
      /\ hout' <=> NeedPollout'
  BY <1>2, <1>3 DEF Verified, NeedPollin, NeedPollout
<1> QED BY <1>1, <1>4, <1>5, <1>6, <1>7, <1>8
        DEF IInv, VerifyState, VerifyPollin, VerifyPollout, VerifyRxTask, VerifyTxTask,
            NothingUnsent, GoneIsReset, EofEmpty, Live

(* The task that reads. *)
LEMMA RxTaskIInv == ASSUME IInv, RxTask PROVE IInv'
<1>1. Live
  BY DEF IInv, RxTask, GoneIsReset
<1>2. Verified /\ rx_task > 0
  BY <1>1, VerifiedAtEntry DEF RxTask
<1>3. rx_task = 1 /\ NeedRxTask
  BY <1>2 DEF Verified, Count
<1>4. CASE state = "HANDSHAKE"
  <2>1. tx_task = 0
    BY <1>2, <1>3, <1>4 DEF Verified, NeedRxTask, NeedTxTask, Count
  <2>2. DoHandshake(rx_task - 1, tx_task)
    BY <1>4 DEF RxTask
  <2>3. rx_task - 1 = 0
    BY <1>3
  <2>4. DoHandshake(0, 0)
    BY <2>1, <2>2, <2>3
  <2> QED BY <1>2, <1>4, <2>4, DoHandshakeIInv
<1>5. CASE state # "HANDSHAKE"
  <2>1. DoRecordRecv(rx_task - 1, tx_task)
    BY <1>5 DEF RxTask
  <2>2. rx_task - 1 = 0
    BY <1>3
  <2>3. DoRecordRecv(0, tx_task)
    BY <2>1, <2>2
  <2>4. state \in {"RUNNING", "TX_CONGESTION"}
    BY <1>1, <1>5 DEF IInv, TypeOK, Live
  <2> QED BY <1>2, <2>3, <2>4, DoRecordRecvIInv
<1> QED BY <1>4, <1>5

(* The task that writes. *)
LEMMA TxTaskIInv == ASSUME IInv, TxTask PROVE IInv'
<1>1. Live
  BY DEF IInv, TxTask, GoneIsReset
<1>2. Verified /\ tx_task > 0
  BY <1>1, VerifiedAtEntry DEF TxTask
<1>3. tx_task = 1 /\ NeedTxTask
  BY <1>2 DEF Verified, Count
<1>4. tx_task - 1 = 0
  BY <1>3
<1>5. CASE state = "HANDSHAKE"
  <2>1. rx_task = 0
    BY <1>2, <1>3, <1>5 DEF Verified, NeedRxTask, NeedTxTask, Count
  <2>2. DoHandshake(rx_task, tx_task - 1)
    BY <1>5 DEF TxTask
  <2>3. DoHandshake(0, 0)
    BY <1>4, <2>1, <2>2
  <2> QED BY <1>2, <1>5, <2>3, DoHandshakeIInv
<1>6. CASE state # "HANDSHAKE"
  <2>1. state = "TX_CONGESTION"
    BY <1>3, <1>6 DEF NeedTxTask
  <2>2. CASE Gone
    BY <2>2, GoneIInv
  <2>3. CASE ~ Gone
    <3>1. PICK t \in Sent(Tx, owed) :
            /\ ~ t.err
            /\ SetTx(t)
            /\ owed' = t.left
            /\ state' = IF t.left > 0 THEN "TX_CONGESTION" ELSE "RUNNING"
            /\ rx_task' = rx_task /\ tx_task' = tx_task - 1
            /\ UNCHANGED <<io_error, rx, rx_eof, hin, dir>>
      BY <1>6, <2>3 DEF TxTask, DoRecordSend
    <3>2. owed \in 0..MaxMsg
      BY DEF IInv, TypeOK
    <3> QED BY <1>2, <1>4, <2>1, <3>1, <3>2, SendIInv
  <2> QED BY <2>2, <2>3
<1> QED BY <1>5, <1>6

(* tconn_record_send() *)
LEMMA RecordSendIInv ==
    ASSUME IInv, NEW n \in 1..MaxMsg, RecordSend(n)
    PROVE  IInv'
<1>1. state = "RUNNING" /\ Verified
  <2>1. state = "RUNNING" /\ ~ Aborted
    BY DEF RecordSend
  <2> QED BY <2>1, VerifiedAtEntry DEF Live
<1>2. CASE Gone
  BY <1>2, GoneIInv
<1>3. CASE ~ Gone
  <2>1. PICK t \in Sent(Tx, n) :
          /\ ~ t.err
          /\ SetTx(t)
          /\ owed' = t.left
          /\ state' = IF t.left > 0 THEN "TX_CONGESTION" ELSE "RUNNING"
          /\ UNCHANGED <<io_error, rx, rx_eof, hin, rx_task, tx_task, dir>>
    BY <1>3 DEF RecordSend
  <2>2. n \in 0..MaxMsg
    BY BufferAssumption
  <2>3. tx_task = 0
    BY <1>1 DEF Verified, NeedTxTask, Count
  <2> QED BY <1>1, <2>1, <2>2, <2>3, SendIInv
<1> QED BY <1>2, <1>3

(* got_io_error() for an error: every task that may be waiting is woken.   *)
LEMMA ErrorIInv ==
    ASSUME IInv, Verified, Live, io_error' = TRUE, rx_eof' = rx_eof, GotIoError
    PROVE  IInv'
<1>1. TypeOK /\ EofEmpty
  BY DEF IInv
<1>2. /\ state \in {"HANDSHAKE", "RUNNING", "TX_CONGESTION"} /\ dir \in {0, 1}
      /\ state' = state /\ dir' = dir /\ rx' = rx
  BY <1>1 DEF TypeOK, Live, GotIoError
<1>3. rx_task' = Count(NeedRxTask')
  <2>1. rx_task' = IF \/ state = "HANDSHAKE" /\ dir = 0
                      \/ state \in {"RUNNING", "TX_CONGESTION"} THEN 1 ELSE rx_task
    BY DEF GotIoError
  <2>2. Readable'
    BY DEF Readable
  <2> QED BY <1>2, <2>1, <2>2 DEF Verified, NeedRxTask, Count
<1>4. tx_task' = Count(NeedTxTask')
  <2>1. tx_task' = IF \/ state = "HANDSHAKE" /\ dir = 1
                      \/ state = "TX_CONGESTION" THEN 1 ELSE tx_task
    BY DEF GotIoError
  <2>2. Writable'
    BY DEF Writable
  <2> QED BY <1>2, <2>1, <2>2 DEF Verified, NeedTxTask, Count
<1>5. TypeOK'
  <2>1. rx_task' \in Nat /\ tx_task' \in Nat
    BY <1>3, <1>4 DEF Count
  <2>2. hin' \in BOOLEAN /\ hout' \in BOOLEAN /\ io_error' \in BOOLEAN
    BY DEF GotIoError
  <2> QED BY <1>1, <2>1, <2>2 DEF TypeOK, GotIoError
<1>6. ~ NeedPollin' /\ ~ NeedPollout' /\ ~ hin' /\ ~ hout'
  BY DEF NeedPollin, NeedPollout, GotIoError
<1> QED BY <1>1, <1>2, <1>3, <1>4, <1>5, <1>6
        DEF IInv, VerifyState, VerifyPollin, VerifyPollout, VerifyRxTask, VerifyTxTask,
            NothingUnsent, GoneIsReset, EofEmpty, Live

(* tconn_fd_handler_in(): bytes, end of file, or an error.  End of file    *)
(* with a full transmit buffer is where the check of tx_task fails.        *)
LEMMA HandlerInIInv == ASSUME IInv, HandlerIn PROVE IInv'
<1>1. Live
  BY DEF IInv, HandlerIn, GoneIsReset
<1>2. Verified /\ hin /\ TypeOK
  BY <1>1, VerifiedAtEntry DEF HandlerIn, IInv
<1>3. ~ io_error /\ rx = 0 /\ ~ rx_eof /\ rx_task = 0
  BY <1>2 DEF Verified, NeedPollin, NeedRxTask, Readable, Count
<1>4. state \in {"HANDSHAKE", "RUNNING", "TX_CONGESTION"} /\ dir \in {0, 1}
  BY <1>1, <1>2 DEF TypeOK, Live
<1>5. CASE /\ rx' \in 1..RX_BUF
           /\ hin' = FALSE
           /\ rx_task' = rx_task + Count(\/ state = "HANDSHAKE" /\ dir = 0
                                         \/ state \in {"RUNNING", "TX_CONGESTION"})
           /\ UNCHANGED <<state, io_error, rx_eof, tx, hout, tx_task, dir, owed>>
  <2>1. rx_task' = Count(NeedRxTask')
    BY <1>3, <1>4, <1>5, BufferAssumption DEF NeedRxTask, Readable, Count
  <2>2. tx_task' = Count(NeedTxTask')
    BY <1>2, <1>5 DEF Verified, NeedTxTask, Writable
  <2>3. TypeOK'
    <3>1. rx_task' \in Nat /\ rx' \in 0..RX_BUF
      BY <1>5, <2>1, BufferAssumption DEF Count
    <3>2. hin' \in BOOLEAN
      BY <1>5
    <3> QED BY <1>2, <1>5, <3>1, <3>2 DEF TypeOK
  <2>4. ~ hin' /\ ~ NeedPollin' /\ (hout' => NeedPollout')
    BY <1>2, <1>5, BufferAssumption DEF Verified, NeedPollin, NeedPollout
  <2>5. NothingUnsent' /\ GoneIsReset' /\ EofEmpty'
    BY <1>1, <1>3, <1>5 DEF IInv, NothingUnsent, GoneIsReset, EofEmpty, NeedPollout, Live
  <2> QED BY <2>1, <2>2, <2>3, <2>4, <2>5
          DEF IInv, VerifyState, VerifyPollin, VerifyPollout, VerifyRxTask, VerifyTxTask
<1>6. CASE rx_eof' = TRUE /\ UNCHANGED io_error /\ GotIoError
  <2>1. state' = state /\ dir' = dir /\ rx' = rx /\ tx' = tx /\ owed' = owed
        /\ ~ hin' /\ ~ hout' /\ ~ io_error'
    BY <1>3, <1>6 DEF GotIoError
  <2>2. rx_task' = Count(NeedRxTask')
    <3>1. rx_task' = IF \/ state = "HANDSHAKE" /\ dir = 0
                        \/ state \in {"RUNNING", "TX_CONGESTION"} THEN 1 ELSE rx_task
      BY <1>6 DEF GotIoError
    <3>2. Readable'
      BY <1>6 DEF Readable
    <3> QED BY <1>3, <1>4, <2>1, <3>1, <3>2 DEF NeedRxTask, Count
  <2>3. tx_task' \in {0, 1} /\ (tx' < TX_BUF => tx_task' = Count(NeedTxTask'))
    <3>1. tx_task' = IF \/ state = "HANDSHAKE" /\ dir = 1
                        \/ state = "TX_CONGESTION" THEN 1 ELSE tx_task
      BY <1>6 DEF GotIoError
    <3> QED BY <1>2, <1>4, <2>1, <3>1 DEF Verified, NeedTxTask, Writable, Count
  <2>4. TypeOK'
    <3>1. rx_task' \in Nat /\ tx_task' \in Nat
      BY <2>2, <2>3 DEF Count
    <3>2. hin' \in BOOLEAN /\ hout' \in BOOLEAN /\ rx_eof' \in BOOLEAN
      BY <1>6 DEF GotIoError
    <3> QED BY <1>2, <1>6, <2>1, <3>1, <3>2 DEF TypeOK
  <2>5. tx' < TX_BUF \/ tx' = TX_BUF
    BY <2>4, BufferAssumption DEF TypeOK
  <2>6. ~ NeedPollin' /\ rx_eof'
    BY <1>6 DEF NeedPollin
  <2> QED BY <1>1, <1>3, <2>1, <2>2, <2>3, <2>4, <2>5, <2>6
          DEF IInv, VerifyState, VerifyPollin, VerifyPollout, VerifyRxTask, VerifyTxTask,
              NothingUnsent, GoneIsReset, EofEmpty, Live
<1>7. CASE io_error' = TRUE /\ UNCHANGED rx_eof /\ GotIoError
  BY <1>1, <1>2, <1>7, ErrorIInv
<1> QED BY <1>5, <1>6, <1>7 DEF HandlerIn

(* tconn_fd_handler_out() *)
LEMMA HandlerOutIInv == ASSUME IInv, HandlerOut PROVE IInv'
<1>1. Live
  BY DEF IInv, HandlerOut, GoneIsReset
<1>2. Verified /\ hout /\ TypeOK /\ EofEmpty
  BY <1>1, VerifiedAtEntry DEF HandlerOut, IInv
<1>3. CASE io_error' = TRUE /\ UNCHANGED rx_eof /\ GotIoError
  BY <1>1, <1>2, <1>3, ErrorIInv
<1>4. ASSUME NEW k \in 1..tx,
             tx' = tx - k,
             hout' = (k < tx),
             tx_task' = tx_task + Count(/\ tx = TX_BUF
                                        /\ \/ state = "HANDSHAKE" /\ dir = 1
                                           \/ state = "TX_CONGESTION"),
             UNCHANGED <<state, io_error, rx, rx_eof, hin, rx_task, dir, owed>>
      PROVE  IInv'
  <2>1. tx \in 0..TX_BUF /\ TX_BUF \in Nat /\ tx' \in 0..TX_BUF /\ tx' < TX_BUF
        /\ ~ io_error
    BY <1>2, <1>4, BufferAssumption DEF TypeOK, Verified, NeedPollout
  <2>2. rx_task' = Count(NeedRxTask') /\ (hin' <=> NeedPollin')
    BY <1>2, <1>4 DEF Verified, NeedRxTask, Readable, NeedPollin
  <2>3. tx_task' = Count(NeedTxTask')
    <3>1. CASE tx = TX_BUF
      <4>1. tx_task = 0
        BY <1>2, <2>1, <3>1 DEF Verified, NeedTxTask, Writable, Count
      <4>2. Writable'
        BY <2>1 DEF Writable
      <4>3. NeedTxTask' <=> \/ state = "HANDSHAKE" /\ dir = 1
                            \/ state = "TX_CONGESTION"
        BY <1>4, <4>2 DEF NeedTxTask
      <4>4. tx_task' = 0 + Count(/\ tx = TX_BUF
                                 /\ \/ state = "HANDSHAKE" /\ dir = 1
                                    \/ state = "TX_CONGESTION")
        BY <1>4, <4>1
      <4>5. tx_task' = IF NeedTxTask' THEN 1 ELSE 0
        BY <3>1, <4>3, <4>4 DEF Count
      <4> QED BY <4>5 DEF Count
    <3>2. CASE tx # TX_BUF
      <4>1. tx_task' = tx_task
        <5>1. tx_task' = tx_task + 0
          BY <1>4, <3>2 DEF Count
        <5> QED BY <1>2, <5>1 DEF TypeOK
      <4>2. NeedTxTask' <=> NeedTxTask
        BY <1>4, <2>1, <3>2 DEF NeedTxTask, Writable
      <4> QED BY <1>2, <4>1, <4>2 DEF Verified, Count
    <3> QED BY <3>1, <3>2
  <2>4. TypeOK'
    <3>1. rx_task' \in Nat /\ tx_task' \in Nat
      BY <2>2, <2>3 DEF Count
    <3>2. hout' \in BOOLEAN
      BY <1>4
    <3> QED BY <1>2, <1>4, <2>1, <3>1, <3>2 DEF TypeOK
  <2>5. hout' <=> NeedPollout'
    <3>1. hout' <=> k < tx
      BY <1>4
    <3>2. tx - k > 0 <=> k < tx
      BY <2>1
    <3> QED BY <1>4, <2>1, <3>1, <3>2 DEF NeedPollout
  <2> QED BY <1>1, <1>2, <1>4, <2>2, <2>3, <2>4, <2>5
          DEF IInv, VerifyState, VerifyPollin, VerifyPollout, VerifyRxTask, VerifyTxTask,
              NothingUnsent, GoneIsReset, EofEmpty, Live
<1> QED BY <1>3, <1>4 DEF HandlerOut

---------------------------------------------------------------------------
LEMMA Inductive == IInv /\ [Next]_vars => IInv'
<1> SUFFICES ASSUME IInv, [Next]_vars PROVE IInv'
  OBVIOUS
<1>1. CASE Start
  BY <1>1, StartIInv
<1>2. CASE Destroy
  BY <1>2, GoneIInv DEF Destroy
<1>3. CASE HandlerIn
  BY <1>3, HandlerInIInv
<1>4. CASE HandlerOut
  BY <1>4, HandlerOutIInv
<1>5. CASE RxTask
  BY <1>5, RxTaskIInv
<1>6. CASE TxTask
  BY <1>6, TxTaskIInv
<1>7. ASSUME NEW n \in 1..MaxMsg, RecordSend(n) PROVE IInv'
  BY <1>7, RecordSendIInv
<1>8. CASE UNCHANGED vars
  BY <1>8 DEF vars, IInv, TypeOK, VerifyState, VerifyPollin, VerifyPollout, VerifyRxTask,
     VerifyTxTask, NothingUnsent, GoneIsReset, EofEmpty, Live, NeedPollin, NeedPollout,
     NeedRxTask, NeedTxTask, Readable, Writable
<1> QED BY <1>1, <1>2, <1>3, <1>4, <1>5, <1>6, <1>7, <1>8 DEF Next

LEMMA Invariance == Spec => []IInv
<1>1. Init => IInv
  BY InitIInv
<1>2. IInv /\ [Next]_vars => IInv'
  BY Inductive
<1> QED BY <1>1, <1>2, PTL DEF Spec

(* The buffers of tconn.c keep to their sizes, whatever gnutls and the     *)
(* socket do.                                                              *)
THEOREM TypeCorrect == Spec => []TypeOK
<1>1. IInv => TypeOK
  BY DEF IInv
<1> QED BY <1>1, Invariance, PTL

(* verify_state() fails only at end of file with a full transmit buffer.   *)
THEOREM Verification == Spec => []VerifyState
<1>1. IInv => VerifyState
  BY DEF IInv
<1> QED BY <1>1, Invariance, PTL

(* Bytes in tx_buf are waited for at the end of every handler. *)
THEOREM Waiting == Spec => []NothingUnsent
<1>1. IInv => NothingUnsent
  BY DEF IInv
<1> QED BY <1>1, Invariance, PTL
=============================================================================
