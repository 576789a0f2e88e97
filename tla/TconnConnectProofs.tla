------------------------- MODULE TconnConnectProofs -------------------------
(***************************************************************************)
(* Proofs about an outgoing connection (module TconnConnect), for any set  *)
(* of key ids, any number of addresses and any number of cancelled         *)
(* requests.                                                               *)
(***************************************************************************)
EXTENDS TconnConnect, TLAPS

Exactly(S) == [r \in Resources |-> IF r \in S THEN 1 ELSE 0]

(* Where a remote end has proved a key id, and what is stored of it before *)
(* the connection is up.                                                   *)
PeerKnown ==
    /\ peer # NULL => tcs = "CONNECTED" \/ (tcs = "CONNECT" /\ tco = "TLS_HANDSHAKE")
    /\ fp_type = "MATCH" /\ peer # NULL => id = peer

IInv ==
    /\ TypeOK
    /\ HeldMatchesState
    /\ StatesAgree
    /\ PoolMatchesRequests
    /\ PeerKnown

---------------------------------------------------------------------------
(* Counting objects is set algebra as long as none is there twice.         *)

(* Unregistering what is registered. *)
LEMMA ReleaseExactly ==
    ASSUME NEW S, NEW R, R \subseteq S
    PROVE  Release(Exactly(S), R) = Exactly(S \ R)
BY DEF Release, Exactly

(* Registering what is not. *)
LEMMA AcquireExactly ==
    ASSUME NEW S, NEW R, R \cap S = {}
    PROVE  Acquire(Exactly(S), R) = Exactly(S \cup R)
BY DEF Acquire, Exactly

(* Counts stay numbers. *)
LEMMA CountsType ==
    ASSUME NEW h \in [Resources -> Int], NEW R
    PROVE  /\ Release(h, R) \in [Resources -> Int]
           /\ Acquire(h, R) \in [Resources -> Int]
BY DEF Release, Acquire

(* A set of objects as counts. *)
LEMMA ExactlyType ==
    ASSUME NEW S
    PROVE  Exactly(S) \in [Resources -> Int]
BY DEF Exactly

(* state_destroy() releases the objects of state s and the timer, if it is *)
(* registered.                                                             *)
LEMMA StateDestroyExactly ==
    ASSUME NEW S, NEW s, Torn(s) \subseteq S
    PROVE  StateDestroy(Exactly(S), s) = Exactly(S \ (Torn(s) \cup {"rx_timeout"}))
<1>1. "rx_timeout" \in Resources
  BY DEF Resources
<1>2. CASE "rx_timeout" \in S
  <2>1. Exactly(S)["rx_timeout"] > 0
    BY <1>1, <1>2 DEF Exactly
  <2> QED BY <2>1, <1>2, ReleaseExactly DEF StateDestroy
<1>3. CASE "rx_timeout" \notin S
  <2>1. ~ (Exactly(S)["rx_timeout"] > 0)
    BY <1>1, <1>3 DEF Exactly
  <2>2. S \ (Torn(s) \cup {"rx_timeout"}) = S \ (Torn(s) \cup {})
    BY <1>3
  <2> QED BY <2>1, <2>2, ReleaseExactly DEF StateDestroy
<1> QED BY <1>2, <1>3

(* The objects a state of tconn_connect_one.c owns are none of             *)
(* tconn_connect.c's, nor the timer.                                       *)
LEMMA TornObjects ==
    ASSUME NEW s
    PROVE  Torn(s) \subseteq {"fd", "tconn", "keepalive_timer"}
BY DEF Torn

(* schedule_retry() outside of CONNECTED. *)
LEMMA RetryExactly ==
    ASSUME NEW S, NEW s, s # "CONNECTED", "retry_wait" \notin S
    PROVE  Retry(Exactly(S), s) = Exactly(S \cup {"retry_wait"})
BY AcquireExactly DEF Retry

(* The invariant HeldMatchesState in terms of the states. *)
LEMMA OwnedExactly ==
    ASSUME Intact, HeldMatchesState
    PROVE  held = Exactly(Owned)
BY DEF HeldMatchesState, Exactly

---------------------------------------------------------------------------
(* try_connect(), once the address list is the only thing held. *)
LEMMA TryConnectHolds ==
    ASSUME NEW k \in 0..MaxAddrs, TryConnect(Exactly({"res"}), k)
    PROVE  /\ held' = Exactly(Owned')
           /\ rp' \in 0..MaxAddrs
           /\ \/ tcs' = "WAITING_RETRY" /\ tco' \in {"FAILED", "CONNECT"}
              \/ tcs' = "CONNECT" /\ tco' \in {"CONNECT", "TLS_HANDSHAKE"} /\ rp' > 0
<1>1. PICK n \in 0..k :
        /\ rp' = n
        /\ IF n = 0
           THEN /\ tcs' = "WAITING_RETRY"
                /\ tco' = IF k = 0 THEN "FAILED" ELSE "CONNECT"
                /\ held' = Retry(Release(Exactly({"res"}), {"res"}), "CONNECT")
           ELSE /\ tcs' = "CONNECT"
                /\ tco' \in {"CONNECT", "TLS_HANDSHAKE"}
                /\ held' = Acquire(Exactly({"res"}), Torn(tco') \cup {"rx_timeout"})
  BY DEF TryConnect
<1>2. CASE n = 0
  <2>1. held' = Retry(Exactly({}), "CONNECT")
    <3>1. Release(Exactly({"res"}), {"res"}) = Exactly({"res"} \ {"res"})
      BY ReleaseExactly
    <3>2. {"res"} \ {"res"} = {}
      OBVIOUS
    <3> QED BY <1>1, <1>2, <3>1, <3>2
  <2>2. held' = Exactly({} \cup {"retry_wait"})
    BY <2>1, RetryExactly
  <2>3. Owned' = {} \cup {"retry_wait"}
    BY <1>1, <1>2 DEF Owned
  <2> QED BY <1>1, <1>2, <2>2, <2>3, BoundAssumption
<1>3. CASE n # 0
  <2>1. (Torn(tco') \cup {"rx_timeout"}) \cap {"res"} = {}
    BY TornObjects
  <2>2. held' = Exactly({"res"} \cup (Torn(tco') \cup {"rx_timeout"}))
    BY <1>1, <1>3, <2>1, AcquireExactly
  <2>3. Owned' = {"res"} \cup (Torn(tco') \cup {"rx_timeout"})
    BY <1>1, <1>3 DEF Owned, Torn
  <2> QED BY <1>1, <1>3, <2>2, <2>3, BoundAssumption
<1> QED BY <1>2, <1>3

(* connection_failed(), with the objects of the state held, or all but the *)
(* rx_timeout that has just expired.                                       *)
LEMMA ConnectionFailedIInv ==
    ASSUME IInv, Intact, tcs \in {"CONNECT", "CONNECTED"},
           NEW X \in SUBSET {"rx_timeout"}, NEW h, h = Exactly(Owned \ X),
           ConnectionFailed(h)
    PROVE  IInv'
<1> DEFINE mine == IF tcs = "CONNECT" THEN "res" ELSE "cec"
<1>1. /\ Owned = {mine, "rx_timeout"} \cup Torn(tco)
      /\ Torn(tco) \subseteq Owned \ X
  BY TornObjects DEF Owned
<1>2. StateDestroy(h, tco) = Exactly((Owned \ X) \ (Torn(tco) \cup {"rx_timeout"}))
  BY <1>1, StateDestroyExactly
<1>3. (Owned \ X) \ (Torn(tco) \cup {"rx_timeout"}) = {mine}
  BY <1>1, TornObjects
<1>4. Torn("FAILED") = {}
  BY DEF Torn
<1>5. StateDestroy(Exactly({mine}), "FAILED") = Exactly({mine} \ (Torn("FAILED") \cup {"rx_timeout"}))
  BY <1>4, StateDestroyExactly
<1>6. {mine} \ (Torn("FAILED") \cup {"rx_timeout"}) = {mine}
  BY <1>4
<1>7. StateDestroy(StateDestroy(h, tco), "FAILED") = Exactly({mine})
  BY <1>2, <1>3, <1>5, <1>6
<1>8. /\ peer' = NULL
      /\ UNCHANGED <<fp_type, cname, id, cancelled, num_requests, pool>>
  BY DEF ConnectionFailed
<1>9. /\ held' = Exactly(Owned')
      /\ rp' \in 0..MaxAddrs
      /\ \/ tcs' = "WAITING_RETRY" /\ tco' \in {"FAILED", "CONNECT"}
         \/ tcs' = "CONNECT" /\ tco' \in {"CONNECT", "TLS_HANDSHAKE"} /\ rp' > 0
  <2>1. CASE tcs = "CONNECT"
    <3>1. rp - 1 \in 0..MaxAddrs
      BY <2>1, BoundAssumption DEF IInv, TypeOK, StatesAgree
    <3>2. TryConnect(Exactly({"res"}), rp - 1)
      BY <2>1, <1>7 DEF ConnectionFailed
    <3> QED BY <3>1, <3>2, TryConnectHolds
  <2>2. CASE tcs = "CONNECTED"
    <3>1. /\ tcs' = "WAITING_RETRY" /\ tco' = "FAILED" /\ rp' = rp
          /\ held' = Retry(Exactly({"cec"}), "CONNECTED")
      BY <2>2, <1>7 DEF ConnectionFailed
    <3>2. Release(Exactly({"cec"}), {"cec"}) = Exactly({"cec"} \ {"cec"})
      BY ReleaseExactly
    <3>3. {"cec"} \ {"cec"} = {}
      OBVIOUS
    <3>4. Acquire(Exactly({}), {"retry_wait"}) = Exactly({} \cup {"retry_wait"})
      BY AcquireExactly
    <3>5. Owned' = {} \cup {"retry_wait"}
      BY <3>1 DEF Owned
    <3> QED BY <3>1, <3>2, <3>3, <3>4, <3>5 DEF Retry, IInv, TypeOK
  <2> QED BY <2>1, <2>2
<1>10. held'["request"] = 0 /\ held["request"] = 0
  <2>1. "request" \in Resources /\ "request" \notin Owned /\ "request" \notin Owned'
    BY <1>1, <1>9, TornObjects DEF Owned, Resources, Torn
  <2>2. held = Exactly(Owned)
    BY OwnedExactly DEF IInv
  <2> QED BY <1>9, <2>1, <2>2 DEF Exactly
<1>11. TypeOK'
  BY <1>8, <1>9, ExactlyType DEF IInv, TypeOK
<1>12. HeldMatchesState'
  BY <1>9 DEF HeldMatchesState, Exactly
<1>13. StatesAgree' /\ PeerKnown'
  BY <1>8, <1>9 DEF StatesAgree, PeerKnown
<1>14. PoolMatchesRequests'
  BY <1>8, <1>10 DEF IInv, PoolMatchesRequests
<1> QED BY <1>11, <1>12, <1>13, <1>14 DEF IInv

(* An object that is registered is one the state owns. *)
LEMMA RegisteredIsOwned ==
    ASSUME IInv, Intact, NEW r \in Resources, held[r] = 1
    PROVE  r \in Owned
BY OwnedExactly DEF IInv, Exactly

(* Of a request, only state RESOLVE has one. *)
LEMMA RequestCount ==
    ASSUME IInv, Intact
    PROVE  held["request"] = IF tcs = "RESOLVE" THEN 1 ELSE 0
<1>1. "request" \in Resources
  BY DEF Resources
<1>2. "request" \in Owned <=> tcs = "RESOLVE"
  BY TornObjects DEF Owned
<1> QED BY <1>1, <1>2, OwnedExactly DEF IInv, Exactly

(* A step that leaves the peer alone or forgets it, and after which the    *)
(* state holds what it owns, has only the counts of requests to answer for.*)
LEMMA StepIInv ==
    ASSUME IInv,
           held' = Exactly(Owned'),
           UNCHANGED <<fp_type, id>>,
           peer' = NULL,
           tcs' \in {"STOPPED", "RESOLVE", "CONNECT", "WAITING_RETRY"},
           tco' \in {"CONNECT", "TLS_HANDSHAKE", "CONNECTED", "FAILED"},
           tcs' = "CONNECT" => tco' \in {"CONNECT", "TLS_HANDSHAKE"} /\ rp' > 0,
           rp' \in 0..MaxAddrs,
           cname' \in KeyIds \cup {NULL},
           cancelled' \in 0..MaxCancelled,
           num_requests' = cancelled' + IF tcs' = "RESOLVE" THEN 1 ELSE 0,
           pool' = (num_requests' > 0)
    PROVE  IInv'
<1>1. held'["request"] = IF tcs' = "RESOLVE" THEN 1 ELSE 0
  <2>1. "request" \in Resources
    BY DEF Resources
  <2>2. "request" \in Owned' <=> tcs' = "RESOLVE"
    BY TornObjects DEF Owned, Torn
  <2> QED BY <2>1, <2>2 DEF Exactly
<1>2. TypeOK'
  BY ExactlyType DEF IInv, TypeOK
<1>3. HeldMatchesState'
  BY DEF HeldMatchesState, Exactly
<1>4. StatesAgree' /\ PeerKnown'
  BY DEF StatesAgree, PeerKnown
<1>5. PoolMatchesRequests'
  BY <1>1, <1>2 DEF PoolMatchesRequests, TypeOK
<1> QED BY <1>2, <1>3, <1>4, <1>5 DEF IInv

(* What PoolMatchesRequests says before a step. *)
LEMMA RequestsBefore ==
    ASSUME IInv, Intact
    PROVE  /\ num_requests = cancelled + IF tcs = "RESOLVE" THEN 1 ELSE 0
           /\ pool = (num_requests > 0)
           /\ cancelled \in Nat
           /\ tcs \notin {"CONNECT", "CONNECTED"} => peer = NULL
BY RequestCount, BoundAssumption DEF IInv, PoolMatchesRequests, PeerKnown, TypeOK

(* start_resolve() with nothing held. *)
LEMMA StartResolveIInv ==
    ASSUME IInv, Intact, tcs \in {"STOPPED", "WAITING_RETRY"},
           StartResolve(Exactly({})),
           UNCHANGED <<fp_type, tco, rp, cname, id, peer, cancelled>>
    PROVE  IInv'
<1>1. CASE /\ tcs' = "RESOLVE"
           /\ held' = Acquire(Exactly({}), {"request", "resolve_timeout"})
           /\ num_requests' = num_requests + 1
           /\ pool' = (pool \/ num_requests = 0)
  <2>1. held' = Exactly({} \cup {"request", "resolve_timeout"})
    BY <1>1, AcquireExactly
  <2>2. Owned' = {} \cup {"request", "resolve_timeout"}
    BY <1>1 DEF Owned
  <2>3. num_requests' = cancelled' + 1 /\ num_requests' > 0 /\ num_requests \in Nat
    BY <1>1, RequestsBefore
  <2>4. pool'
    <3>1. CASE num_requests = 0
      BY <1>1, <3>1
    <3>2. CASE num_requests # 0
      <4>1. num_requests > 0
        BY <2>3, <3>2
      <4>2. pool = TRUE
        BY <4>1, RequestsBefore
      <4> QED BY <4>2, <1>1
    <3> QED BY <3>1, <3>2
  <2>5. pool' = (num_requests' > 0)
    <3>1. pool' \in BOOLEAN
      BY <1>1
    <3> QED BY <2>3, <2>4, <3>1
  <2> QED BY <1>1, <2>1, <2>2, <2>3, <2>5, RequestsBefore, StepIInv DEF IInv, TypeOK
<1>2. CASE /\ tcs' = "WAITING_RETRY"
           /\ held' = Retry(Exactly({}), "RESOLVE")
           /\ UNCHANGED <<num_requests, pool>>
  <2>1. held' = Exactly({} \cup {"retry_wait"})
    BY <1>2, RetryExactly
  <2>2. Owned' = {} \cup {"retry_wait"}
    BY <1>2 DEF Owned
  <2>3. num_requests' = cancelled' + 0 /\ pool' = (num_requests' > 0)
    BY <1>2, RequestsBefore
  <2> QED BY <1>2, <2>1, <2>2, <2>3, RequestsBefore, StepIInv DEF IInv, TypeOK
<1> QED BY <1>1, <1>2 DEF StartResolve

---------------------------------------------------------------------------
(* One step of each handler.                                               *)

(* tconn_connect_start() *)
LEMMA StartIInv == IInv /\ Start => IInv'
<1> SUFFICES ASSUME IInv, Start PROVE IInv'
  OBVIOUS
<1>1. Intact /\ tcs = "STOPPED"
  BY DEF Start
<1>2. held = Exactly(Owned) /\ Owned = {}
  BY <1>1, OwnedExactly DEF IInv, Owned
<1>3. StartResolve(Exactly({}))
  BY <1>2 DEF Start
<1> QED BY <1>1, <1>3, StartResolveIInv DEF Start

(* retry_wait_time_expired() *)
LEMMA RetryWaitExpiredIInv == IInv /\ RetryWaitExpired => IInv'
<1> SUFFICES ASSUME IInv, RetryWaitExpired PROVE IInv'
  OBVIOUS
<1>1. Intact /\ "retry_wait" \in Owned
  BY RegisteredIsOwned DEF RetryWaitExpired, Resources
<1>2. tcs = "WAITING_RETRY"
  BY <1>1, TornObjects DEF Owned
<1>3. held = Exactly({"retry_wait"})
  BY <1>1, <1>2, OwnedExactly DEF IInv, Owned
<1>4. Release(held, {"retry_wait"}) = Exactly({"retry_wait"} \ {"retry_wait"})
  BY <1>3, ReleaseExactly
<1>5. {"retry_wait"} \ {"retry_wait"} = {}
  OBVIOUS
<1>6. StartResolve(Exactly({}))
  BY <1>4, <1>5 DEF RetryWaitExpired
<1> QED BY <1>1, <1>2, <1>6, StartResolveIInv DEF RetryWaitExpired

(* resolve_timeout_expired() *)
LEMMA ResolveTimeoutExpiredIInv == IInv /\ ResolveTimeoutExpired => IInv'
<1> SUFFICES ASSUME IInv, ResolveTimeoutExpired PROVE IInv'
  OBVIOUS
<1>1. Intact /\ "resolve_timeout" \in Owned
  BY RegisteredIsOwned DEF ResolveTimeoutExpired, Resources
<1>2. tcs = "RESOLVE"
  BY <1>1, TornObjects DEF Owned
<1>3. held = Exactly({"request", "resolve_timeout"})
  BY <1>1, <1>2, OwnedExactly DEF IInv, Owned
<1>4. Release(held, {"resolve_timeout", "request"})
        = Exactly({"request", "resolve_timeout"} \ {"resolve_timeout", "request"})
  BY <1>3, ReleaseExactly
<1>5. {"request", "resolve_timeout"} \ {"resolve_timeout", "request"} = {}
  OBVIOUS
<1>6. /\ held' = Retry(Exactly({}), "RESOLVE")
      /\ tcs' = "WAITING_RETRY"
      /\ cancelled' = cancelled + 1 /\ cancelled < MaxCancelled
      /\ UNCHANGED <<fp_type, tco, rp, cname, id, peer, num_requests, pool>>
  BY <1>4, <1>5 DEF ResolveTimeoutExpired
<1>7. held' = Exactly({} \cup {"retry_wait"})
  BY <1>6, RetryExactly
<1>8. Owned' = {} \cup {"retry_wait"}
  BY <1>6 DEF Owned
<1>9. num_requests' = cancelled' + 0 /\ pool' = (num_requests' > 0)
  BY <1>1, <1>2, <1>6, RequestsBefore
<1>10. cancelled' \in 0..MaxCancelled
  BY <1>6, BoundAssumption DEF IInv, TypeOK
<1> QED BY <1>1, <1>2, <1>6, <1>7, <1>8, <1>9, <1>10, RequestsBefore, StepIInv DEF IInv, TypeOK

(* iv_getaddrinfo_task_complete() of a request that was cancelled. *)
LEMMA CancelledCompleteIInv == IInv /\ CancelledComplete => IInv'
<1> SUFFICES ASSUME IInv, CancelledComplete PROVE IInv'
  OBVIOUS
<1>1. /\ Intact /\ cancelled > 0
      /\ cancelled' = cancelled - 1
      /\ num_requests' = num_requests - 1
      /\ pool' = (num_requests # 1)
      /\ UNCHANGED <<fp_type, tcs, tco, held, rp, cname, id, peer>>
  BY DEF CancelledComplete, RequestDone
<1>2. num_requests' = held'["request"] + cancelled'
  BY <1>1, RequestCount, RequestsBefore
<1>3. num_requests' \in Nat /\ (num_requests # 1) = (num_requests' > 0)
  BY <1>1, RequestsBefore
<1>4. PoolMatchesRequests'
  BY <1>1, <1>2, <1>3 DEF PoolMatchesRequests
<1>5. TypeOK'
  BY <1>1, <1>3, BoundAssumption DEF IInv, TypeOK
<1>6. HeldMatchesState'
  BY <1>1 DEF IInv, HeldMatchesState, Intact, Owned
<1>7. StatesAgree' /\ PeerKnown'
  BY <1>1 DEF IInv, StatesAgree, PeerKnown
<1> QED BY <1>4, <1>5, <1>6, <1>7 DEF IInv

(* resolve_complete() and the end of the request. *)
LEMMA ResolveCompleteIInv == IInv /\ ResolveComplete => IInv'
<1> SUFFICES ASSUME IInv, ResolveComplete PROVE IInv'
  OBVIOUS
<1>1. Intact /\ "request" \in Owned
  BY RegisteredIsOwned DEF ResolveComplete, Resources
<1>2. tcs = "RESOLVE"
  BY <1>1, TornObjects DEF Owned
<1>3. held = Exactly({"request", "resolve_timeout"})
  BY <1>1, <1>2, OwnedExactly DEF IInv, Owned
<1>4. Release(held, {"request", "resolve_timeout"})
        = Exactly({"request", "resolve_timeout"} \ {"request", "resolve_timeout"})
  BY <1>3, ReleaseExactly
<1>5. {"request", "resolve_timeout"} \ {"request", "resolve_timeout"} = {}
  OBVIOUS
<1>6. /\ num_requests' = num_requests - 1
      /\ pool' = (num_requests # 1)
      /\ UNCHANGED <<fp_type, id, peer, cancelled>>
  BY DEF ResolveComplete, RequestDone
<1>7. num_requests' = cancelled' + 0 /\ (num_requests # 1) = (num_requests' > 0)
  BY <1>1, <1>2, <1>6, RequestsBefore
<1>8. /\ held' = Exactly(Owned')
      /\ rp' \in 0..MaxAddrs
      /\ cname' \in KeyIds \cup {NULL}
      /\ tco' \in {"CONNECT", "TLS_HANDSHAKE", "CONNECTED", "FAILED"}
      /\ \/ tcs' = "WAITING_RETRY"
         \/ tcs' = "CONNECT" /\ tco' \in {"CONNECT", "TLS_HANDSHAKE"} /\ rp' > 0
  <2>1. CASE /\ \E n \in 1..MaxAddrs : TryConnect(Acquire(Exactly({}), {"res"}), n)
             /\ cname' \in KeyIds \cup {NULL}
    <3>1. Acquire(Exactly({}), {"res"}) = Exactly({} \cup {"res"})
      BY AcquireExactly
    <3>2. {} \cup {"res"} = {"res"}
      OBVIOUS
    <3>3. PICK n \in 1..MaxAddrs : TryConnect(Exactly({"res"}), n)
      BY <2>1, <3>1, <3>2
    <3>4. n \in 0..MaxAddrs
      BY BoundAssumption
    <3> QED BY <2>1, <3>3, <3>4, TryConnectHolds
  <2>2. CASE /\ tcs' = "WAITING_RETRY"
             /\ held' = Retry(Exactly({}), "RESOLVE")
             /\ UNCHANGED <<tco, rp, cname>>
    <3>1. held' = Exactly({} \cup {"retry_wait"})
      BY <2>2, RetryExactly
    <3>2. Owned' = {} \cup {"retry_wait"}
      BY <2>2 DEF Owned
    <3> QED BY <2>2, <3>1, <3>2 DEF IInv, TypeOK
  <2> QED BY <1>4, <1>5, <2>1, <2>2 DEF ResolveComplete
<1>9. cancelled' \in 0..MaxCancelled /\ peer' = NULL /\ pool' = (num_requests' > 0)
  BY <1>1, <1>2, <1>6, <1>7, RequestsBefore DEF IInv, TypeOK
<1> QED BY <1>6, <1>7, <1>8, <1>9, StepIInv

(* connect_pollout() *)
LEMMA ConnectPolloutIInv == IInv /\ ConnectPollout => IInv'
<1> SUFFICES ASSUME IInv, ConnectPollout PROVE IInv'
  OBVIOUS
<1>1. Intact /\ tcs = "CONNECT" /\ tco = "CONNECT"
  BY DEF ConnectPollout
<1>2. Owned = {"res", "rx_timeout", "fd"}
  BY <1>1 DEF Owned, Torn
<1>3. Release(held, {"rx_timeout"}) = Exactly(Owned \ {"rx_timeout"})
  BY <1>1, <1>2, OwnedExactly, ReleaseExactly DEF IInv
<1>4. CASE ConnectionFailed(Release(held, {"rx_timeout"}))
  BY <1>1, <1>3, <1>4, ConnectionFailedIInv
<1>5. CASE /\ tco' = "TLS_HANDSHAKE"
           /\ held' = Acquire(Release(held, {"rx_timeout"}), {"tconn", "rx_timeout"})
           /\ UNCHANGED <<fp_type, tcs, rp, cname, id, peer, cancelled, num_requests, pool>>
  <2>1. held' = Exactly((Owned \ {"rx_timeout"}) \cup {"tconn", "rx_timeout"})
    BY <1>2, <1>3, <1>5, AcquireExactly
  <2>2. Owned' = (Owned \ {"rx_timeout"}) \cup {"tconn", "rx_timeout"}
    BY <1>1, <1>2, <1>5 DEF Owned, Torn
  <2>3. peer' = NULL
    BY <1>1, <1>5 DEF IInv, PeerKnown
  <2> QED BY <1>1, <1>5, <2>1, <2>2, <2>3, RequestsBefore, StepIInv DEF IInv, TypeOK, StatesAgree
<1> QED BY <1>4, <1>5 DEF ConnectPollout

(* verify_key_ids() *)
LEMMA VerifyKeyIdsIInv ==
    ASSUME IInv, NEW ids \in Presented, VerifyKeyIds(ids)
    PROVE  IInv'
<1>1. Intact /\ tcs = "CONNECT" /\ tco = "TLS_HANDSHAKE"
  BY DEF VerifyKeyIds
<1>2. CASE ~ Accepts(ids)
  <2>1. held = Exactly(Owned \ {})
    BY <1>1, OwnedExactly DEF IInv
  <2>2. ConnectionFailed(held)
    BY <1>2 DEF VerifyKeyIds
  <2> QED BY <1>1, <2>1, <2>2, ConnectionFailedIInv
<1>3. CASE Accepts(ids)
  <2>1. /\ peer' = ids[1]
        /\ id' = IF fp_type = "MATCH" THEN ids[1] ELSE id
        /\ UNCHANGED <<fp_type, tcs, tco, held, rp, cname, cancelled, num_requests, pool>>
    BY <1>3 DEF VerifyKeyIds
  <2>2. ids[1] \in KeyIds
    <3>1. ids \in Seq(KeyIds) /\ ids # <<>>
      BY KeyAssumption
    <3> QED BY <3>1
  <2>3. TypeOK'
    BY <2>1, <2>2 DEF IInv, TypeOK
  <2>4. HeldMatchesState' /\ PoolMatchesRequests'
    BY <2>1 DEF IInv, HeldMatchesState, PoolMatchesRequests, Intact, Owned
  <2>5. StatesAgree' /\ PeerKnown'
    BY <1>1, <2>1 DEF IInv, StatesAgree, PeerKnown
  <2> QED BY <2>3, <2>4, <2>5 DEF IInv
<1> QED BY <1>2, <1>3

(* handshake_done() and connected().  When new_conn() refuses, disconnect()*)
(* is called without a connection and nothing is said of what follows.     *)
LEMMA HandshakeDoneIInv == IInv /\ HandshakeDone => IInv'
<1> SUFFICES ASSUME IInv, HandshakeDone PROVE IInv'
  OBVIOUS
<1> DEFINE rearmed == Acquire(Release(held, {"rx_timeout"}), {"rx_timeout", "keepalive_timer"})
           h == Release(rearmed, {"res"})
           S == {"rx_timeout", "fd", "tconn", "keepalive_timer"}
<1>1. /\ Intact /\ tco = "TLS_HANDSHAKE" /\ tcs = "CONNECT" /\ peer # NULL
      /\ tco' = "CONNECTED"
      /\ UNCHANGED <<fp_type, rp, cname, id, cancelled, num_requests, pool>>
      /\ \/ /\ tcs' = "CONNECTED"
            /\ held' = Acquire(h, {"cec"})
            /\ UNCHANGED peer
         \/ /\ tcs' = "WAITING_RETRY"
            /\ held' = Retry(StateDestroy(h, "CONNECTED"), "CONNECTED")
            /\ peer' = NULL
  BY DEF HandshakeDone
<1>2. Owned = {"res", "rx_timeout", "fd", "tconn"}
  BY <1>1 DEF Owned, Torn
<1>3. Release(held, {"rx_timeout"}) = Exactly(Owned \ {"rx_timeout"})
  BY <1>1, <1>2, OwnedExactly, ReleaseExactly DEF IInv
<1>4. rearmed = Exactly((Owned \ {"rx_timeout"}) \cup {"rx_timeout", "keepalive_timer"})
  BY <1>2, <1>3, AcquireExactly
<1>5. h = Exactly(((Owned \ {"rx_timeout"}) \cup {"rx_timeout", "keepalive_timer"}) \ {"res"})
  BY <1>2, <1>4, ReleaseExactly
<1>6. ((Owned \ {"rx_timeout"}) \cup {"rx_timeout", "keepalive_timer"}) \ {"res"} = S
  BY <1>2
<1>7. h = Exactly(S)
  BY <1>5, <1>6
<1> HIDE DEF h, rearmed
<1>8. CASE /\ tcs' = "CONNECTED"
           /\ held' = Acquire(h, {"cec"})
           /\ UNCHANGED peer
  <2>1. held' = Exactly(S \cup {"cec"})
    BY <1>7, <1>8, AcquireExactly
  <2>2. Owned' = S \cup {"cec"}
    BY <1>1, <1>8 DEF Owned, Torn
  <2>3. held'["request"] = 0
    BY <2>1 DEF Exactly, Resources
  <2>4. TypeOK'
    BY <1>1, <1>8, <2>1, ExactlyType DEF IInv, TypeOK
  <2>5. HeldMatchesState'
    BY <2>1, <2>2 DEF HeldMatchesState, Exactly
  <2>6. StatesAgree' /\ PeerKnown'
    BY <1>1, <1>8 DEF IInv, StatesAgree, PeerKnown
  <2>7. PoolMatchesRequests'
    BY <1>1, <2>3, RequestsBefore DEF PoolMatchesRequests
  <2> QED BY <2>4, <2>5, <2>6, <2>7 DEF IInv
<1>9. CASE /\ tcs' = "WAITING_RETRY"
           /\ held' = Retry(StateDestroy(h, "CONNECTED"), "CONNECTED")
           /\ peer' = NULL
  <2>1. Torn("CONNECTED") = {"fd", "tconn", "keepalive_timer"}
    BY DEF Torn
  <2>2. StateDestroy(h, "CONNECTED") = Exactly(S \ (Torn("CONNECTED") \cup {"rx_timeout"}))
    BY <1>7, <2>1, StateDestroyExactly
  <2>3. held' = Acquire(Release(StateDestroy(h, "CONNECTED"), {"cec"}), {"retry_wait"})
    BY <1>9 DEF Retry
  <2>4. StateDestroy(h, "CONNECTED") \in [Resources -> Int]
    BY <2>2, ExactlyType
  <2>5. StateDestroy(h, "CONNECTED")["cec"] = 0
    BY <2>2 DEF Exactly, Resources
  <2>6. held'["cec"] = -1
    BY <2>3, <2>5 DEF Acquire, Release, Resources
  <2>7. held' \in [Resources -> Int]
    BY <2>3, <2>4, CountsType
  <2>8. TypeOK'
    BY <1>1, <1>9, <2>7 DEF IInv, TypeOK
  <2>9. ~ Intact'
    BY <2>6 DEF Intact
  <2>10. StatesAgree' /\ PeerKnown'
    BY <1>9 DEF StatesAgree, PeerKnown
  <2> QED BY <2>8, <2>9, <2>10 DEF IInv, HeldMatchesState, PoolMatchesRequests
<1> QED BY <1>1, <1>8, <1>9

(* connection_lost() *)
LEMMA ConnectionLostIInv == IInv /\ ConnectionLost => IInv'
<1> SUFFICES ASSUME IInv, ConnectionLost PROVE IInv'
  OBVIOUS
<1>1. Intact /\ "tconn" \in Owned
  BY RegisteredIsOwned DEF ConnectionLost, Resources
<1>2. tcs \in {"CONNECT", "CONNECTED"}
  BY <1>1 DEF Owned, IInv, TypeOK
<1>3. held = Exactly(Owned \ {})
  BY <1>1, OwnedExactly DEF IInv
<1> QED BY <1>1, <1>2, <1>3, ConnectionFailedIInv DEF ConnectionLost

(* rx_timeout_expired() *)
LEMMA RxTimeoutExpiredIInv == IInv /\ RxTimeoutExpired => IInv'
<1> SUFFICES ASSUME IInv, RxTimeoutExpired PROVE IInv'
  OBVIOUS
<1>1. Intact /\ "rx_timeout" \in Owned
  BY RegisteredIsOwned DEF RxTimeoutExpired, Resources
<1>2. tcs \in {"CONNECT", "CONNECTED"}
  BY <1>1 DEF Owned, IInv, TypeOK
<1>3. Release(held, {"rx_timeout"}) = Exactly(Owned \ {"rx_timeout"})
  BY <1>1, OwnedExactly, ReleaseExactly DEF IInv
<1> QED BY <1>1, <1>2, <1>3, ConnectionFailedIInv DEF RxTimeoutExpired

(* send_keepalive() *)
LEMMA SendKeepaliveIInv == IInv /\ SendKeepalive => IInv'
<1> SUFFICES ASSUME IInv, SendKeepalive PROVE IInv'
  OBVIOUS
<1>1. Intact /\ "keepalive_timer" \in Owned
  BY RegisteredIsOwned DEF SendKeepalive, Resources
<1>2. tcs \in {"CONNECT", "CONNECTED"}
  BY <1>1 DEF Owned, IInv, TypeOK
<1>3. Release(held, {"keepalive_timer"}) = Exactly(Owned \ {"keepalive_timer"})
  BY <1>1, OwnedExactly, ReleaseExactly DEF IInv
<1>4. Acquire(Release(held, {"keepalive_timer"}), {"keepalive_timer"})
        = Exactly((Owned \ {"keepalive_timer"}) \cup {"keepalive_timer"})
  BY <1>3, AcquireExactly
<1>5. (Owned \ {"keepalive_timer"}) \cup {"keepalive_timer"} = Owned \ {}
  BY <1>1
<1> QED BY <1>1, <1>2, <1>4, <1>5, ConnectionFailedIInv DEF SendKeepalive

(* tconn_connect_record_send(): retry_wait is registered twice. *)
LEMMA RecordSendIInv == IInv /\ RecordSend => IInv'
<1> SUFFICES ASSUME IInv, RecordSend PROVE IInv'
  OBVIOUS
<1> DEFINE h2 == StateDestroy(StateDestroy(held, tco), "FAILED")
           failed == Retry(h2, "CONNECTED")
<1>1. /\ Intact /\ tcs = "CONNECTED"
      /\ held' = Retry(StateDestroy(failed, "FAILED"), "WAITING_RETRY")
      /\ tcs' = "WAITING_RETRY" /\ tco' = "FAILED" /\ peer' = NULL
      /\ UNCHANGED <<fp_type, rp, cname, id, cancelled, num_requests, pool>>
  BY DEF RecordSend
<1>2. tco = "CONNECTED" /\ held = Exactly(Owned)
  BY <1>1, OwnedExactly DEF IInv, StatesAgree
<1>3. Owned = {"cec", "rx_timeout", "fd", "tconn", "keepalive_timer"}
      /\ Torn(tco) = {"fd", "tconn", "keepalive_timer"} /\ Torn("FAILED") = {}
  BY <1>1, <1>2 DEF Owned, Torn
<1>4. StateDestroy(held, tco) = Exactly({"cec"})
  <2>1. StateDestroy(held, tco) = Exactly(Owned \ (Torn(tco) \cup {"rx_timeout"}))
    BY <1>2, <1>3, StateDestroyExactly
  <2>2. Owned \ (Torn(tco) \cup {"rx_timeout"}) = {"cec"}
    BY <1>3
  <2> QED BY <2>1, <2>2
<1>5. h2 = Exactly({"cec"})
  <2>1. StateDestroy(Exactly({"cec"}), "FAILED") = Exactly({"cec"} \ (Torn("FAILED") \cup {"rx_timeout"}))
    BY <1>3, StateDestroyExactly
  <2>2. {"cec"} \ (Torn("FAILED") \cup {"rx_timeout"}) = {"cec"}
    BY <1>3
  <2> QED BY <1>4, <2>1, <2>2
<1>6. failed = Exactly({"retry_wait"})
  <2>1. Release(Exactly({"cec"}), {"cec"}) = Exactly({"cec"} \ {"cec"})
    BY ReleaseExactly
  <2>2. {"cec"} \ {"cec"} = {}
    OBVIOUS
  <2>3. Acquire(Exactly({}), {"retry_wait"}) = Exactly({} \cup {"retry_wait"})
    BY AcquireExactly
  <2>4. {} \cup {"retry_wait"} = {"retry_wait"}
    OBVIOUS
  <2> QED BY <1>5, <2>1, <2>2, <2>3, <2>4 DEF Retry
<1>7. StateDestroy(failed, "FAILED") = Exactly({"retry_wait"})
  <2>1. StateDestroy(Exactly({"retry_wait"}), "FAILED")
          = Exactly({"retry_wait"} \ (Torn("FAILED") \cup {"rx_timeout"}))
    BY <1>3, StateDestroyExactly
  <2>2. {"retry_wait"} \ (Torn("FAILED") \cup {"rx_timeout"}) = {"retry_wait"}
    BY <1>3
  <2> QED BY <1>6, <2>1, <2>2
<1>8. held' = Acquire(Exactly({"retry_wait"}), {"retry_wait"})
  BY <1>1, <1>7 DEF Retry
<1>9. held'["retry_wait"] = 2
  BY <1>8 DEF Acquire, Exactly, Resources
<1>10. TypeOK'
  BY <1>1, <1>8, ExactlyType, CountsType DEF IInv, TypeOK
<1>11. ~ Intact'
  BY <1>9 DEF Intact
<1>12. StatesAgree' /\ PeerKnown'
  BY <1>1 DEF StatesAgree, PeerKnown
<1> QED BY <1>10, <1>11, <1>12 DEF IInv, HeldMatchesState, PoolMatchesRequests

(* cec_destroy() and tconn_connect_destroy(): nothing is left. *)
LEMMA DestroyIInv == IInv /\ Destroy => IInv'
<1> SUFFICES ASSUME IInv, Destroy PROVE IInv'
  OBVIOUS
<1> DEFINE h == IF held["cec"] > 0 THEN Release(held, {"cec"}) ELSE held
<1>1. /\ Intact /\ tcs # "STOPPED"
      /\ tcs = "RESOLVE" => cancelled < MaxCancelled
      /\ held' = CASE tcs = "RESOLVE"       -> Release(h, {"request", "resolve_timeout"})
                   [] tcs = "CONNECT"       -> Release(StateDestroy(h, tco), {"res"})
                   [] tcs = "CONNECTED"     -> StateDestroy(h, tco)
                   [] tcs = "WAITING_RETRY" -> Release(h, {"retry_wait"})
      /\ cancelled' = IF tcs = "RESOLVE" THEN cancelled + 1 ELSE cancelled
      /\ tcs' = "STOPPED" /\ peer' = NULL
      /\ UNCHANGED <<fp_type, tco, rp, cname, id, num_requests, pool>>
  BY DEF Destroy
<1>2. held = Exactly(Owned) /\ "cec" \in Resources
  BY <1>1, OwnedExactly DEF IInv, Resources
<1>3. h = Exactly(Owned \ {"cec"})
  <2>1. CASE "cec" \in Owned
    <3>1. held["cec"] > 0
      BY <1>2, <2>1 DEF Exactly
    <3> QED BY <1>2, <2>1, <3>1, ReleaseExactly
  <2>2. CASE "cec" \notin Owned
    <3>1. ~ (held["cec"] > 0)
      BY <1>2, <2>2 DEF Exactly
    <3>2. Owned \ {"cec"} = Owned
      BY <2>2
    <3> QED BY <1>2, <3>1, <3>2
  <2> QED BY <2>1, <2>2
<1> HIDE DEF h
<1>4. held' = Exactly({})
  <2>1. CASE tcs = "RESOLVE"
    <3>1. Owned \ {"cec"} = {"request", "resolve_timeout"}
      BY <2>1 DEF Owned
    <3>2. held' = Exactly({"request", "resolve_timeout"} \ {"request", "resolve_timeout"})
      BY <1>1, <1>3, <2>1, <3>1, ReleaseExactly
    <3>3. {"request", "resolve_timeout"} \ {"request", "resolve_timeout"} = {}
      OBVIOUS
    <3> QED BY <3>2, <3>3
  <2>2. CASE tcs = "CONNECT"
    <3>1. Owned \ {"cec"} = {"res", "rx_timeout"} \cup Torn(tco)
      BY <2>2, TornObjects DEF Owned
    <3>2. StateDestroy(h, tco)
            = Exactly(({"res", "rx_timeout"} \cup Torn(tco)) \ (Torn(tco) \cup {"rx_timeout"}))
      BY <1>3, <3>1, StateDestroyExactly
    <3>3. ({"res", "rx_timeout"} \cup Torn(tco)) \ (Torn(tco) \cup {"rx_timeout"}) = {"res"}
      BY TornObjects
    <3>4. held' = Exactly({"res"} \ {"res"})
      BY <1>1, <2>2, <3>2, <3>3, ReleaseExactly
    <3>5. {"res"} \ {"res"} = {}
      OBVIOUS
    <3> QED BY <3>4, <3>5
  <2>3. CASE tcs = "CONNECTED"
    <3>1. Owned \ {"cec"} = {"rx_timeout"} \cup Torn(tco)
      BY <2>3, TornObjects DEF Owned
    <3>2. StateDestroy(h, tco)
            = Exactly(({"rx_timeout"} \cup Torn(tco)) \ (Torn(tco) \cup {"rx_timeout"}))
      BY <1>3, <3>1, StateDestroyExactly
    <3>3. ({"rx_timeout"} \cup Torn(tco)) \ (Torn(tco) \cup {"rx_timeout"}) = {}
      OBVIOUS
    <3> QED BY <1>1, <2>3, <3>2, <3>3
  <2>4. CASE tcs = "WAITING_RETRY"
    <3>1. Owned \ {"cec"} = {"retry_wait"}
      BY <2>4 DEF Owned
    <3>2. held' = Exactly({"retry_wait"} \ {"retry_wait"})
      BY <1>1, <1>3, <2>4, <3>1, ReleaseExactly
    <3>3. {"retry_wait"} \ {"retry_wait"} = {}
      OBVIOUS
    <3> QED BY <3>2, <3>3
  <2> QED BY <1>1, <2>1, <2>2, <2>3, <2>4 DEF IInv, TypeOK
<1>5. Owned' = {}
  BY <1>1 DEF Owned
<1>6. cancelled' \in 0..MaxCancelled
  BY <1>1, BoundAssumption DEF IInv, TypeOK
<1>7. num_requests' = cancelled' + 0 /\ pool' = (num_requests' > 0)
  BY <1>1, RequestsBefore
<1> QED BY <1>1, <1>4, <1>5, <1>6, <1>7, StepIInv DEF IInv, TypeOK

(* Before tconn_connect_start(). *)
LEMMA InitIInv == Init => IInv
<1> SUFFICES ASSUME Init PROVE IInv
  OBVIOUS
<1>1. held = Exactly({}) /\ Owned = {}
  BY DEF Init, Exactly, Owned
<1>2. TypeOK
  <2>1. held \in [Resources -> Int] /\ num_requests \in Int
    BY <1>1, ExactlyType DEF Init
  <2>2. rp \in 0..MaxAddrs /\ cancelled \in 0..MaxCancelled
    BY BoundAssumption DEF Init
  <2>3. pool \in BOOLEAN
    BY DEF Init
  <2> QED BY <2>1, <2>2, <2>3 DEF Init, TypeOK
<1>3. HeldMatchesState
  BY <1>1 DEF HeldMatchesState, Exactly
<1>4. StatesAgree /\ PeerKnown
  BY DEF Init, StatesAgree, PeerKnown
<1>5. held["request"] = 0 /\ cancelled = 0 /\ num_requests = 0 /\ pool = FALSE
  BY DEF Init, Resources
<1>6. num_requests = held["request"] + cancelled /\ (num_requests > 0) = FALSE
  BY <1>5
<1>7. PoolMatchesRequests
  BY <1>5, <1>6 DEF PoolMatchesRequests
<1> QED BY <1>2, <1>3, <1>4, <1>7 DEF IInv

(* Every step preserves the invariant. *)
LEMMA NextIInv == IInv /\ [Next]_vars => IInv'
<1> SUFFICES ASSUME IInv, [Next]_vars PROVE IInv'
  OBVIOUS
<1>1. ASSUME NEW ids \in Presented, VerifyKeyIds(ids) PROVE IInv'
  BY <1>1, VerifyKeyIdsIInv
<1>2. CASE UNCHANGED vars
  BY <1>2 DEF vars, IInv, TypeOK, HeldMatchesState, Intact, Owned, StatesAgree,
     PoolMatchesRequests, PeerKnown
<1> QED BY <1>1, <1>2, StartIInv, RetryWaitExpiredIInv, ResolveTimeoutExpiredIInv,
     CancelledCompleteIInv, ResolveCompleteIInv, ConnectPolloutIInv, HandshakeDoneIInv,
     ConnectionLostIInv, RxTimeoutExpiredIInv, SendKeepaliveIInv, RecordSendIInv,
     DestroyIInv DEF Next

(* The invariant holds throughout. *)
LEMMA IInvAlways == Spec => []IInv
BY InitIInv, NextIInv, PTL DEF Spec

---------------------------------------------------------------------------
(* The state keeps its types: the current address stays on the list.       *)
THEOREM TypeCorrect == Spec => []TypeOK
BY IInvAlways, PTL DEF IInv

(* Whatever happens to a connection, its state holds exactly the timers,   *)
(* descriptors, lists, requests and connection objects it owns, each once. *)
THEOREM Ownership == Spec => []HeldMatchesState
BY IInvAlways, PTL DEF IInv

(* tconn_connect.c and tconn_connect_one.c never disagree on the state.    *)
THEOREM Agreement == Spec => []StatesAgree
BY IInvAlways, PTL DEF IInv

(* The pool of iv_getaddrinfo.c lives as long as any request does, also a  *)
(* cancelled one.                                                          *)
THEOREM Pool == Spec => []PoolMatchesRequests
BY IInvAlways, PTL DEF IInv

(* What is known of the peer is enough for what new_conn() is told. *)
LEMMA PeerIdKnown == IInv => MatchGivesPeerId
BY DEF IInv, PeerKnown, StatesAgree, MatchGivesPeerId

(* A peer configured by fingerprint is handed on under the id it proved.   *)
THEOREM PeerId == Spec => []MatchGivesPeerId
BY IInvAlways, PeerIdKnown, PTL
=============================================================================
