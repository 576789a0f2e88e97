----------------------------- MODULE DgpSession -----------------------------
(***************************************************************************)
(* A DGP session between two nodes: dgp_connect.c on the one, dgp_listen.c *)
(* on the other, and the registration of the dgp_reader and dgp_writer at  *)
(* both ends.  dvpn.c makes two kinds of listening socket: one with a      *)
(* single entry for every incoming peer, and one without entries that      *)
(* permits readonly connections, which the monitors use.  What the session *)
(* carries is the business of module Rib, which relies on what is checked  *)
(* here: a peer has at most one session, and one that ends takes its       *)
(* adj_rib_in and its listener with it.                                    *)
(*                                                                         *)
(* TCP is external: a connection that was made waits in the listener's     *)
(* backlog; an end notices that the other is gone by end of file, an       *)
(* error, a write that fails or the keepalive timeout of the reader, all   *)
(* of which may also happen while the other end is still there.            *)
(***************************************************************************)
EXTENDS Integers, Sequences

CONSTANT Conns      \* TCP connections at one time; bounds the backlog

NoConn == 0

ASSUME ConnAssumption == Conns \subseteq Nat \ {NoConn}

(* The objects of one end of a session: its socket; the dgp_writer's       *)
(* loc_rib listener and keepalive_timer; the dgp_reader's adj_rib_in and   *)
(* keepalive_timeout; and dgp_connect's own timeout.                       *)
Writer == {"listener", "keepalive_timer"}
Reader == {"adj_rib_in", "keepalive_timeout"}
Resources == {"fd", "timeout"} \cup Writer \cup Reader

VARIABLES
    permit_readonly,    \* dls->permit_readonly: no entry, but readonly_conns
    cs,         \* dgp_connect.state; STOPPED before start and after stop
    cc,         \* the connection of dc->fd
    held,       \* how often each object of the connecting end is registered
    listening,  \* dls, and dle if there is one, are registered
    backlog,    \* connections the listening socket has yet to accept
    current,    \* dle->current
    readonly,   \* dls->readonly_conns
    sheld       \* sheld[n]: the same as held, for the conn of connection n

cvars == <<cs, cc, held>>
svars == <<permit_readonly, listening, current, readonly, sheld>>
vars == <<cvars, svars, backlog>>

Nothing == [r \in Resources |-> 0]
Release(h, R) == [r \in Resources |-> IF r \in R THEN h[r] - 1 ELSE h[r]]
Acquire(h, R) == [r \in Resources |-> IF r \in R THEN h[r] + 1 ELSE h[r]]

(* What dgp_reader_register() registers; a reader without a remoteid has   *)
(* no adj_rib_in.                                                          *)
Reading(remoteid) == IF remoteid THEN Reader ELSE Reader \ {"adj_rib_in"}

(* dgp_reader_unregister(), whose timer may have just expired. *)
ReaderUnregister(h, remoteid) ==
    Release(h, Reading(remoteid) \ IF h["keepalive_timeout"] > 0
                                   THEN {} ELSE {"keepalive_timeout"})

WriterUnregister(h) == Release(h, Writer)

(* Mutant: the writer goes on listening. *)
TearDownReaderOnly(h, remoteid) == ReaderUnregister(Release(h, {"fd"}), remoteid)

(* What io_error() and conn_kill() do to the objects of a session. *)
TearDown(h, remoteid) ==
    ReaderUnregister(WriterUnregister(Release(h, {"fd"})), remoteid)

(* A session may fail for a reason of its own, or because the reader's     *)
(* keepalive_timeout has expired.                                          *)
Failing(h) == {h, Release(h, {"keepalive_timeout"})}

---------------------------------------------------------------------------
(* dgp_connect.c *)

(* ivykis aborts when a timer is unregistered that is not registered. *)
Intact == held["timeout"] >= 0

(* Mutant: no timer is registered. *)
WaitRetryUntimed(h) ==
    /\ cs' = "WAITING_RETRY"
    /\ cc' = NoConn
    /\ held' = h

WaitRetry(h) ==
    /\ cs' = "WAITING_RETRY"
    /\ cc' = NoConn
    /\ held' = Acquire(h, {"timeout"})

(* connect_success() on connection n; the dump of the RIB may fail, which  *)
(* ends in io_error().                                                     *)
ConnectSuccess(h, n) ==
    LET up == Acquire(Release(h, {"timeout"}), Reading(TRUE) \cup Writer) IN
    /\ backlog' = Append(backlog, n)
    /\ \/ cs' = "ESTABLISHED" /\ cc' = n /\ held' = up
       \/ WaitRetry(TearDown(up, TRUE))

(* The connections of the listening end. *)
Accepted == readonly \cup ({current} \ {NoConn})

Queued == {backlog[k] : k \in 1..Len(backlog)}
Unused == Conns \ (Queued \cup Accepted)

(* try_connect(): a failure, a connect in progress, or one that succeeds   *)
(* at once, where connect_success() begins by unregistering a timer that   *)
(* nobody has registered.                                                  *)
TryConnect(h) ==
    \/ WaitRetry(h) /\ UNCHANGED backlog
    \/ \E n \in Unused :
        \/ /\ cs' = "CONNECTING"
           /\ cc' = n
           /\ held' = Acquire(h, {"fd", "timeout"})
           /\ UNCHANGED backlog
        \/ /\ listening
           /\ cs' = "ESTABLISHED"
           /\ cc' = n
           /\ held' = Release(Acquire(h, {"fd"}), {"timeout"})
           /\ backlog' = Append(backlog, n)

Start ==
    /\ Intact /\ cs = "STOPPED"
    /\ TryConnect(held)
    /\ UNCHANGED svars

(* connect_pollout(), once the connect is over. *)
ConnectPollout ==
    /\ Intact /\ cs = "CONNECTING"
    /\ \/ listening /\ ConnectSuccess(held, cc)
       \/ /\ WaitRetry(Release(held, {"fd", "timeout"}))
          /\ UNCHANGED backlog
    /\ UNCHANGED svars

(* rx_timeout_expired() *)
TimeoutExpired ==
    /\ Intact /\ held["timeout"] = 1
    /\ LET h == Release(held, {"timeout"}) IN
       \/ /\ cs = "CONNECTING"
          /\ WaitRetry(Release(h, {"fd"}))
          /\ UNCHANGED backlog
       \/ /\ cs = "WAITING_RETRY"
          /\ TryConnect(h)
    /\ UNCHANGED svars

(* Mutant: the error is noticed and nothing done. *)
IoErrorIgnored == Intact /\ cs = "ESTABLISHED" /\ UNCHANGED vars

(* io_error(), from handle_dgp_read(), the reader or the writer. *)
IoError ==
    /\ Intact /\ cs = "ESTABLISHED"
    /\ \E h \in Failing(held) : WaitRetry(TearDown(h, TRUE))
    /\ UNCHANGED <<svars, backlog>>

(* dgp_connect_stop() *)
Stop ==
    /\ Intact /\ cs # "STOPPED"
    /\ cs' = "STOPPED"
    /\ cc' = NoConn
    /\ held' = CASE cs = "CONNECTING"    -> Release(held, {"timeout", "fd"})
                 [] cs = "WAITING_RETRY" -> Release(held, {"timeout"})
                 [] OTHER                -> TearDown(held, TRUE)
    /\ UNCHANGED <<svars, backlog>>

---------------------------------------------------------------------------
(* dgp_listen.c *)

(* Mutant: nothing is killed. *)
KilledNone(N) == sheld

(* conn_kill() of the connections N. *)
Killed(N) == [n \in Conns |-> IF n \in N THEN TearDown(sheld[n], ~ permit_readonly) ELSE sheld[n]]

(* What got_connection() registers for a conn. *)
ConnObjects == {"fd"} \cup Reading(~ permit_readonly) \cup Writer

(* cle_new_conn() registers socket and entry, main() the other socket. *)
ListenRegister ==
    /\ Intact /\ ~ listening
    /\ listening' = TRUE
    /\ current' = NoConn
    /\ readonly' = {}
    /\ UNCHANGED <<cvars, permit_readonly, backlog, sheld>>

(* lec_destroy() unregisters entry and socket, got_sigint() the other. *)
ListenUnregister ==
    /\ Intact /\ listening
    /\ listening' = FALSE
    /\ backlog' = <<>>
    /\ current' = NoConn
    /\ readonly' = {}
    /\ sheld' = Killed(Accepted)
    /\ UNCHANGED <<cvars, permit_readonly>>

(* got_connection(): the new connection of an entry replaces the current   *)
(* one.  There may be no memory for it, or the dump of the RIB may fail.   *)
GotConnection(n) ==
    /\ Intact /\ listening
    /\ backlog # <<>> /\ n = Head(backlog)
    /\ backlog' = Tail(backlog)
    /\ \/ UNCHANGED <<current, readonly, sheld>>
       \/ LET s == Killed({current})
              h == Acquire(s[n], ConnObjects)
          IN \/ /\ sheld' = [s EXCEPT ![n] = h]
                /\ current' = IF permit_readonly THEN NoConn ELSE n
                /\ readonly' = IF permit_readonly THEN readonly \cup {n} ELSE {}
             \/ /\ sheld' = [s EXCEPT ![n] = TearDown(h, ~ permit_readonly)]
                /\ current' = NoConn
                /\ UNCHANGED readonly
    /\ UNCHANGED <<cvars, permit_readonly, listening>>

(* conn_kill(), from handle_dgp_read(), the reader or the writer. *)
ConnKill(n) ==
    /\ Intact /\ n \in Accepted
    /\ \E h \in Failing(sheld[n]) : sheld' = [sheld EXCEPT ![n] = TearDown(h, ~ permit_readonly)]
    /\ current' = IF n = current THEN NoConn ELSE current
    /\ readonly' = readonly \ {n}
    /\ UNCHANGED <<cvars, permit_readonly, listening, backlog>>

---------------------------------------------------------------------------
Init ==
    /\ permit_readonly \in BOOLEAN
    /\ cs = "STOPPED" /\ cc = NoConn /\ held = Nothing
    /\ listening = FALSE /\ backlog = <<>> /\ current = NoConn /\ readonly = {}
    /\ sheld = [n \in Conns |-> Nothing]

Next ==
    \/ Start \/ ConnectPollout \/ TimeoutExpired \/ IoError \/ Stop
    \/ ListenRegister \/ ListenUnregister
    \/ \E n \in Conns : GotConnection(n) \/ ConnKill(n)

(* The timer expires; connections that are in the backlog are accepted; an *)
(* end whose other end is gone notices; and of infinitely many attempts    *)
(* some are made, and some of those succeed.                               *)
Fairness ==
    /\ WF_vars(TimeoutExpired)
    /\ SF_vars(TimeoutExpired /\ cs' = "CONNECTING")
    /\ SF_vars(ConnectPollout /\ cs' = "ESTABLISHED")
    /\ WF_vars(\E n \in Conns : GotConnection(n))
    /\ WF_vars(IoError /\ cc \notin Queued \cup Accepted)
    /\ \A n \in Conns : WF_vars(ConnKill(n) /\ cc # n)

Spec == Init /\ [][Next]_vars /\ Fairness

---------------------------------------------------------------------------
Exactly(R) == [r \in Resources |-> IF r \in R THEN 1 ELSE 0]

(* In every state of dgp_connect exactly the objects of that state are     *)
(* registered: the timer if not ESTABLISHED, as dgp_connect_stop() relies  *)
(* on, reader and writer if ESTABLISHED.                                   *)
ConnectHoldsItsState ==
    Intact => held = Exactly(CASE cs = "STOPPED"       -> {}
                               [] cs = "CONNECTING"    -> {"fd", "timeout"}
                               [] cs = "WAITING_RETRY" -> {"timeout"}
                               [] OTHER                -> {"fd"} \cup Reader \cup Writer)

(* Of all the connections a listen entry was ever given, only the current  *)
(* one is registered with the loc_rib, and none when the entry is not: a   *)
(* peer never has two adj_rib_ins or two listeners, and no conn is left    *)
(* that neither dle->current nor readonly_conns leads to.                  *)
ConnsAreReachable ==
    /\ ~ listening => Accepted = {}
    /\ \A n \in Conns : sheld[n] = Exactly(IF n \in Accepted THEN ConnObjects ELSE {})

(* A session that is up for good at the connecting end is one of the       *)
(* listening end's, and the other way round: no end stays with a           *)
(* connection the other has given up.                                      *)
Up(n) == Intact /\ cs = "ESTABLISHED" /\ cc = n
EndsAgree ==
    \A n \in Conns :
        /\ <>[]Up(n) => <>[](n \in Accepted)
        /\ <>[](n \in Accepted /\ Intact) => <>[]Up(n)

(* While both ends are wanted the session is made again and again. *)
SessionComesBack ==
    <>[](listening /\ cs # "STOPPED" /\ Intact) => []<>(cs = "ESTABLISHED")
=============================================================================
