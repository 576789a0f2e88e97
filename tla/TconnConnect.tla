---------------------------- MODULE TconnConnect ----------------------------
(***************************************************************************)
(* One outgoing connection of dvpn: tconn_connect.c, which resolves a name *)
(* and tries its addresses, tconn_connect_one.c, which makes one           *)
(* connection and keeps it alive, and iv_getaddrinfo.c, whose requests run *)
(* in worker threads and may complete after they were cancelled.           *)
(*                                                                         *)
(* The objects these files register, allocate and release (timers, the     *)
(* socket, the TLS connection, the address list, the request, the upper    *)
(* layer's connection) are counted in `held'.  A count above 1 is an       *)
(* object registered twice, a count below 0 one released without being     *)
(* there; in C both are undefined or fatal.                                *)
(*                                                                         *)
(* A handler is one action, the callbacks it makes included.  The TLS      *)
(* handshake itself, the network and the upper layer are the environment.  *)
(* Rearming a timer (record_received(), a record or keepalive sent with    *)
(* success) releases and takes the same object and is not a step here.     *)
(***************************************************************************)
EXTENDS Integers, Sequences

CONSTANTS
    KeyIds,         \* key ids of remote ends
    Presented,      \* the lists of key ids a remote end may prove
    Fingerprint,    \* the fingerprint configured
    ZeroId,         \* what the calloc()ed tco->id holds
    NULL,
    MaxAddrs,       \* bound on the addresses of a name
    MaxCancelled    \* bound on the cancelled requests that still run

ASSUME KeyAssumption ==
    /\ Presented \subseteq Seq(KeyIds) \ {<<>>}
    /\ Fingerprint \in KeyIds
    /\ ZeroId \notin KeyIds /\ NULL \notin KeyIds \cup {ZeroId}

ASSUME BoundAssumption == MaxAddrs \in Nat \ {0} /\ MaxCancelled \in Nat

Resources == {"request", "resolve_timeout", "res", "fd", "tconn", "rx_timeout",
              "keepalive_timer", "cec", "retry_wait"}

FpTypes == {"ANY", "CNAME", "MATCH"}

VARIABLES
    fp_type,        \* tc->fp_type, from the configuration
    tcs,            \* tconn_connect.state; STOPPED before start, after destroy
    tco,            \* tconn_connect_one.state
    held,           \* held[r]: how often r is registered or allocated
    rp,             \* addresses from tc->rp to the end of the list
    cname,          \* tco->cnameid
    id,             \* tco->id
    peer,           \* the key id the remote end has proved, NULL before
    cancelled,      \* tasks of iv_getaddrinfo.c whose ig is NULL
    num_requests,   \* tinfo->num_requests
    pool            \* tinfo->pool exists

vars == <<fp_type, tcs, tco, held, rp, cname, id, peer, cancelled, num_requests, pool>>

Release(h, R) == [r \in Resources |-> IF r \in R THEN h[r] - 1 ELSE h[r]]
Acquire(h, R) == [r \in Resources |-> IF r \in R THEN h[r] + 1 ELSE h[r]]

(* Nothing is said of what runs after disconnect() got a NULL cookie or    *)
(* the timer heap holds retry_wait twice.                                  *)
Intact == held["cec"] >= 0 /\ held["retry_wait"] <= 1

---------------------------------------------------------------------------
(* tconn_connect_one.c *)

(* What state_destroy() releases in state s, besides rx_timeout. *)
Torn(s) ==
    CASE s = "CONNECT"       -> {"fd"}
      [] s = "TLS_HANDSHAKE" -> {"fd", "tconn"}
      [] s = "CONNECTED"     -> {"fd", "tconn", "keepalive_timer"}
      [] OTHER               -> {}

(* Mutant: rx_timeout stays registered. *)
StateDestroyKeepsTimer(h, s) == Release(h, Torn(s))

StateDestroy(h, s) ==
    Release(h, Torn(s) \cup IF h["rx_timeout"] > 0 THEN {"rx_timeout"} ELSE {})

(* verify_key_ids() *)
Accepts(ids) ==
    LET Proves(k) == \E n \in 1..Len(ids) : ids[n] = k IN
    /\ cname # NULL => Proves(cname)
    /\ fp_type = "CNAME" => cname # NULL
    /\ fp_type = "MATCH" => Proves(Fingerprint)

---------------------------------------------------------------------------
(* tconn_connect.c *)

(* schedule_retry() in state s. *)
Retry(h, s) ==
    Acquire(IF s = "CONNECTED" THEN Release(h, {"cec"}) ELSE h, {"retry_wait"})

(* iv_getaddrinfo_submit() may fail for want of memory. *)
StartResolve(h) ==
    \/ /\ tcs' = "RESOLVE"
       /\ held' = Acquire(h, {"request", "resolve_timeout"})
       /\ num_requests' = num_requests + 1
       /\ pool' = (pool \/ num_requests = 0)
    \/ /\ tcs' = "WAITING_RETRY"
       /\ held' = Retry(h, "RESOLVE")
       /\ UNCHANGED <<num_requests, pool>>

(* Mutants: try_connect() goes on past the end of the list; it schedules   *)
(* the retry and stays in state CONNECT.                                   *)
TryConnectPastEnd(h, k) ==
    \E n \in -1..k :
        /\ rp' = n
        /\ tcs' = "CONNECT"
        /\ tco' \in {"CONNECT", "TLS_HANDSHAKE"}
        /\ held' = Acquire(h, Torn(tco') \cup {"rx_timeout"})

TryConnectStays(h, k) ==
    \E n \in 0..k :
        /\ rp' = n
        /\ tcs' = "CONNECT"
        /\ IF n = 0
           THEN /\ tco' = IF k = 0 THEN "FAILED" ELSE "CONNECT"
                /\ held' = Retry(Release(h, {"res"}), "CONNECT")
           ELSE /\ tco' \in {"CONNECT", "TLS_HANDSHAKE"}
                /\ held' = Acquire(h, Torn(tco') \cup {"rx_timeout"})

(* try_connect() with k addresses left: the first k - n fail at once, the  *)
(* next is in progress or connected; with n = 0 all have failed.           *)
TryConnect(h, k) ==
    \E n \in 0..k :
        /\ rp' = n
        /\ IF n = 0
           THEN /\ tcs' = "WAITING_RETRY"
                /\ tco' = IF k = 0 THEN "FAILED" ELSE "CONNECT"
                /\ held' = Retry(Release(h, {"res"}), "CONNECT")
           ELSE /\ tcs' = "CONNECT"
                /\ tco' \in {"CONNECT", "TLS_HANDSHAKE"}
                /\ held' = Acquire(h, Torn(tco') \cup {"rx_timeout"})

(* connection_failed() of tconn_connect_one.c, which ends in the one of    *)
(* tconn_connect.c, where state_destroy() finds state FAILED.              *)
ConnectionFailed(h) ==
    LET h2 == StateDestroy(StateDestroy(h, tco), "FAILED") IN
    /\ IF tcs = "CONNECT"
       THEN TryConnect(h2, rp - 1)
       ELSE /\ tcs' = "WAITING_RETRY"
            /\ tco' = "FAILED"
            /\ held' = Retry(h2, tcs)
            /\ UNCHANGED rp
    /\ peer' = NULL
    /\ UNCHANGED <<fp_type, cname, id, cancelled, num_requests, pool>>

---------------------------------------------------------------------------
(* The actions. *)

(* start_conf_connect_entry() *)
Start ==
    /\ Intact /\ tcs = "STOPPED"
    /\ StartResolve(held)
    /\ UNCHANGED <<fp_type, tco, rp, cname, id, peer, cancelled>>

RetryWaitExpired ==
    /\ Intact /\ held["retry_wait"] = 1
    /\ StartResolve(Release(held, {"retry_wait"}))
    /\ UNCHANGED <<fp_type, tco, rp, cname, id, peer, cancelled>>

ResolveTimeoutExpired ==
    /\ Intact /\ held["resolve_timeout"] = 1
    /\ cancelled < MaxCancelled
    /\ cancelled' = cancelled + 1
    /\ tcs' = "WAITING_RETRY"
    /\ held' = Retry(Release(held, {"resolve_timeout", "request"}), "RESOLVE")
    /\ UNCHANGED <<fp_type, tco, rp, cname, id, peer, num_requests, pool>>

(* Mutant: the pool goes with every request that completes. *)
RequestDoneDropsPool ==
    /\ num_requests' = num_requests - 1
    /\ pool' = FALSE

(* iv_getaddrinfo_task_complete(), after the handler if there is one. *)
RequestDone ==
    /\ num_requests' = num_requests - 1
    /\ pool' = (num_requests # 1)

CancelledComplete ==
    /\ Intact /\ cancelled > 0
    /\ cancelled' = cancelled - 1
    /\ RequestDone
    /\ UNCHANGED <<fp_type, tcs, tco, held, rp, cname, id, peer>>

ResolveComplete ==
    /\ Intact /\ held["request"] = 1
    /\ LET h == Release(held, {"request", "resolve_timeout"}) IN
       \/ /\ \E n \in 1..MaxAddrs : TryConnect(Acquire(h, {"res"}), n)
          /\ cname' \in KeyIds \cup {NULL}
       \/ /\ tcs' = "WAITING_RETRY"
          /\ held' = Retry(h, "RESOLVE")
          /\ UNCHANGED <<tco, rp, cname>>
    /\ RequestDone
    /\ UNCHANGED <<fp_type, id, peer, cancelled>>

(* Mutant: the handshake is not given a time limit of its own. *)
ConnectPolloutUntimed ==
    /\ Intact /\ tcs = "CONNECT" /\ tco = "CONNECT"
    /\ LET h == Release(held, {"rx_timeout"}) IN
       \/ ConnectionFailed(h)
       \/ /\ tco' = "TLS_HANDSHAKE"
          /\ held' = Acquire(h, {"tconn"})
          /\ UNCHANGED <<fp_type, tcs, rp, cname, id, peer, cancelled, num_requests, pool>>

(* connect_pollout(), once the connect is over. *)
ConnectPollout ==
    /\ Intact /\ tcs = "CONNECT" /\ tco = "CONNECT"
    /\ LET h == Release(held, {"rx_timeout"}) IN
       \/ ConnectionFailed(h)
       \/ /\ tco' = "TLS_HANDSHAKE"
          /\ held' = Acquire(h, {"tconn", "rx_timeout"})
          /\ UNCHANGED <<fp_type, tcs, rp, cname, id, peer, cancelled, num_requests, pool>>

(* Mutant: the id is stored once and kept for later connections. *)
VerifyKeyIdsOnce(ids) ==
    /\ Intact /\ tco = "TLS_HANDSHAKE" /\ tcs = "CONNECT" /\ peer = NULL
    /\ IF Accepts(ids)
       THEN /\ peer' = ids[1]
            /\ id' = IF fp_type = "MATCH" /\ id = ZeroId THEN ids[1] ELSE id
            /\ UNCHANGED <<fp_type, tcs, tco, held, rp, cname, cancelled, num_requests, pool>>
       ELSE ConnectionFailed(held)

(* tconn.c calls verify_key_ids() in the middle of the handshake.  Only a  *)
(* match with the fingerprint stores the id of the remote end.             *)
VerifyKeyIds(ids) ==
    /\ Intact /\ tco = "TLS_HANDSHAKE" /\ tcs = "CONNECT" /\ peer = NULL
    /\ IF Accepts(ids)
       THEN /\ peer' = ids[1]
            /\ id' = IF fp_type = "MATCH" THEN ids[1] ELSE id
            /\ UNCHANGED <<fp_type, tcs, tco, held, rp, cname, cancelled, num_requests, pool>>
       ELSE ConnectionFailed(held)

(* handshake_done() and connected(); new_conn() may refuse. *)
HandshakeDone ==
    /\ Intact /\ tco = "TLS_HANDSHAKE" /\ tcs = "CONNECT" /\ peer # NULL
    /\ LET rearmed == Acquire(Release(held, {"rx_timeout"}), {"rx_timeout", "keepalive_timer"})
           h == Release(rearmed, {"res"})
       IN \/ /\ tcs' = "CONNECTED"
             /\ held' = Acquire(h, {"cec"})
             /\ UNCHANGED peer
          \/ /\ tcs' = "WAITING_RETRY"
             /\ held' = Retry(StateDestroy(h, "CONNECTED"), "CONNECTED")
             /\ peer' = NULL
    /\ tco' = "CONNECTED"
    /\ UNCHANGED <<fp_type, rp, cname, id, cancelled, num_requests, pool>>

(* tconn.c reports a failed handshake or a lost connection. *)
ConnectionLost ==
    /\ Intact /\ held["tconn"] = 1
    /\ ConnectionFailed(held)

RxTimeoutExpired ==
    /\ Intact /\ held["rx_timeout"] = 1
    /\ ConnectionFailed(Release(held, {"rx_timeout"}))

(* send_keepalive(), when the keepalive cannot be sent. *)
SendKeepalive ==
    /\ Intact /\ held["keepalive_timer"] = 1
    /\ ConnectionFailed(Acquire(Release(held, {"keepalive_timer"}), {"keepalive_timer"}))

(* tconn_connect_record_send(), when the record cannot be sent:            *)
(* tconn_connect_one_record_send() has called connection_failed() by the   *)
(* time it returns -1.                                                     *)
RecordSend ==
    /\ Intact /\ tcs = "CONNECTED"
    /\ LET failed == Retry(StateDestroy(StateDestroy(held, tco), "FAILED"), "CONNECTED")
       IN  held' = Retry(StateDestroy(failed, "FAILED"), "WAITING_RETRY")
    /\ tcs' = "WAITING_RETRY"
    /\ tco' = "FAILED"
    /\ peer' = NULL
    /\ UNCHANGED <<fp_type, rp, cname, id, cancelled, num_requests, pool>>

(* stop_conf_connect_entry(): cec_destroy(), then tconn_connect_destroy(). *)
Destroy ==
    /\ Intact /\ tcs # "STOPPED"
    /\ tcs = "RESOLVE" => cancelled < MaxCancelled
    /\ LET h == IF held["cec"] > 0 THEN Release(held, {"cec"}) ELSE held IN
       held' = CASE tcs = "RESOLVE"       -> Release(h, {"request", "resolve_timeout"})
                 [] tcs = "CONNECT"       -> Release(StateDestroy(h, tco), {"res"})
                 [] tcs = "CONNECTED"     -> StateDestroy(h, tco)
                 [] tcs = "WAITING_RETRY" -> Release(h, {"retry_wait"})
    /\ cancelled' = IF tcs = "RESOLVE" THEN cancelled + 1 ELSE cancelled
    /\ tcs' = "STOPPED"
    /\ peer' = NULL
    /\ UNCHANGED <<fp_type, tco, rp, cname, id, num_requests, pool>>

Init ==
    /\ fp_type \in FpTypes
    /\ tcs = "STOPPED"
    /\ tco = "FAILED"
    /\ held = [r \in Resources |-> 0]
    /\ rp = 0
    /\ cname = NULL
    /\ id = ZeroId
    /\ peer = NULL
    /\ cancelled = 0
    /\ num_requests = 0
    /\ pool = FALSE

Next ==
    \/ Start \/ RetryWaitExpired \/ ResolveTimeoutExpired
    \/ CancelledComplete \/ ResolveComplete \/ ConnectPollout
    \/ \E ids \in Presented : VerifyKeyIds(ids)
    \/ HandshakeDone \/ ConnectionLost \/ RxTimeoutExpired
    \/ SendKeepalive \/ RecordSend \/ Destroy

(* Registered timers expire, getaddrinfo() returns, and memory for a       *)
(* request is not refused for ever.  A connection that is up need not time *)
(* out: its rx_timeout is rearmed with every record.                       *)
Fairness ==
    /\ SF_vars(RetryWaitExpired /\ tcs' = "RESOLVE")
    /\ WF_vars(ResolveTimeoutExpired)
    /\ WF_vars(CancelledComplete)
    /\ WF_vars(RxTimeoutExpired /\ tcs = "CONNECT")

Spec == Init /\ [][Next]_vars /\ Fairness

---------------------------------------------------------------------------
(* Types of the state of tconn_connect.h and tconn_connect_one.h. *)
TypeOK ==
    /\ fp_type \in FpTypes
    /\ tcs \in {"STOPPED", "RESOLVE", "CONNECT", "CONNECTED", "WAITING_RETRY"}
    /\ tco \in {"CONNECT", "TLS_HANDSHAKE", "CONNECTED", "FAILED"}
    /\ held \in [Resources -> Int]
    /\ rp \in 0..MaxAddrs
    /\ cname \in KeyIds \cup {NULL}
    /\ id \in KeyIds \cup {ZeroId}
    /\ peer \in KeyIds \cup {NULL}
    /\ cancelled \in 0..MaxCancelled
    /\ num_requests \in Int
    /\ pool \in BOOLEAN

(* The objects each state owns, as the comments on the arms of the union   *)
(* in tconn_connect.h and on the fields of tconn_connect_one.h say.        *)
Owned ==
    CASE tcs = "RESOLVE"       -> {"request", "resolve_timeout"}
      [] tcs = "CONNECT"       -> {"res", "rx_timeout"} \cup Torn(tco)
      [] tcs = "CONNECTED"     -> {"cec", "rx_timeout"} \cup Torn(tco)
      [] tcs = "WAITING_RETRY" -> {"retry_wait"}
      [] OTHER                 -> {}

(* In every state exactly the objects it owns are registered or allocated, *)
(* each once: nothing leaks, no timer is registered twice or unregistered  *)
(* when it is not on the heap, nothing is left to call back a connection   *)
(* that was destroyed.                                                     *)
HeldMatchesState ==
    Intact => held = [r \in Resources |-> IF r \in Owned THEN 1 ELSE 0]

(* The two state machines agree: tconn_connect.c is CONNECT while          *)
(* tconn_connect_one.c is getting there, and CONNECTED when it is; there   *)
(* is a current address exactly as long as one is being tried.             *)
StatesAgree ==
    /\ tcs = "CONNECT" => tco \in {"CONNECT", "TLS_HANDSHAKE"} /\ rp > 0
    /\ tcs = "CONNECTED" => tco = "CONNECTED" /\ peer # NULL
    /\ peer # NULL => tcs = "CONNECTED" \/ tco = "TLS_HANDSHAKE"

(* The work pool of iv_getaddrinfo.c exists exactly while requests are     *)
(* outstanding, cancelled ones included.                                   *)
PoolMatchesRequests ==
    Intact => /\ num_requests = held["request"] + cancelled
              /\ pool = (num_requests > 0)

(* A peer configured by fingerprint is handed to new_conn() under the id   *)
(* it has proved on this connection, never one of an earlier connection.   *)
MatchGivesPeerId == fp_type = "MATCH" /\ tcs = "CONNECTED" => id = peer

(* However a connection attempt ends, the name is resolved again or the    *)
(* connection is up: the state machine never waits for something that is   *)
(* not going to happen.  A request that getaddrinfo() does not answer is   *)
(* given up, however many cancelled ones still run.                        *)
KeepsTrying ==
    /\ []<>(tcs \in {"RESOLVE", "CONNECTED", "STOPPED"} \/ ~ Intact)
    /\ tcs = "RESOLVE" ~> tcs # "RESOLVE"
=============================================================================
