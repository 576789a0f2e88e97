-------------------------- MODULE DgpSessionProofs --------------------------
(***************************************************************************)
(* Proofs about a DGP session (module DgpSession), for any set of          *)
(* connections: whatever the order in which the two ends connect, fail,    *)
(* time out, replace a connection and stop, each end has registered what   *)
(* its state says, nothing twice, and nothing is left behind.              *)
(***************************************************************************)
EXTENDS DgpSession, TLAPS

States == {"STOPPED", "CONNECTING", "WAITING_RETRY", "ESTABLISHED"}

(* The objects of the connecting end in state s. *)
Owned(s) == CASE s = "STOPPED"       -> {}
              [] s = "CONNECTING"    -> {"fd", "timeout"}
              [] s = "WAITING_RETRY" -> {"timeout"}
              [] OTHER               -> {"fd"} \cup Reader \cup Writer

(* The connecting end. *)
ConnectInv == cs \in States /\ ConnectHoldsItsState

(* A socket has an entry or permits readonly connections, never both. *)
ListenType ==
    /\ permit_readonly \in BOOLEAN
    /\ current \in Conns \cup {NoConn}
    /\ readonly \subseteq Conns
    /\ DOMAIN sheld = Conns
    /\ IF permit_readonly THEN current = NoConn ELSE readonly = {}

(* A connection is on its way, in the backlog once, or accepted: only one  *)
(* of these, so that the conn got_connection() makes is a new one.         *)
ConnsAreNew ==
    /\ backlog \in Seq(Conns)
    /\ \A j, k \in 1..Len(backlog) : backlog[j] = backlog[k] => j = k
    /\ \A k \in 1..Len(backlog) : backlog[k] \notin Accepted
    /\ cs = "CONNECTING" => cc \in Unused

IInv == ConnectInv /\ ListenType /\ ConnsAreNew /\ ConnsAreReachable

---------------------------------------------------------------------------
(* Counting objects is set algebra as long as none is there twice.         *)

(* Unregistering what is registered. *)
LEMMA ReleaseExactly ==
    ASSUME NEW S, NEW R, R \subseteq S
    PROVE  Release(Exactly(S), R) = Exactly(S \ R)
BY DEF Release, Exactly

(* Registering what is not. *)
LEMMA AcquireExactly ==
    ASSUME NEW S, NEW R, R \cap S = {}
    PROVE  Acquire(Exactly(S), R) = Exactly(S \cup R)
BY DEF Acquire, Exactly

(* Counts are numbers. *)
LEMMA ExactlyAt ==
    ASSUME NEW S, NEW r \in Resources
    PROVE  Exactly(S)[r] = IF r \in S THEN 1 ELSE 0
BY DEF Exactly

(* Nothing is registered at first. *)
LEMMA NothingIsEmpty == Nothing = Exactly({})
BY DEF Nothing, Exactly

(* io_error() and conn_kill() leave no object of a session registered,     *)
(* whether or not the reader's timer has just expired.                     *)
LEMMA TearDownExactly ==
    ASSUME NEW remoteid \in BOOLEAN, NEW X \in SUBSET {"keepalive_timeout"}
    PROVE  TearDown(Exactly(({"fd"} \cup Reading(remoteid) \cup Writer) \ X), remoteid)
             = Exactly({})
<1> DEFINE S == ({"fd"} \cup Reading(remoteid) \cup Writer) \ X
           T == (S \ {"fd"}) \ Writer
           U == Reading(remoteid) \ IF Exactly(T)["keepalive_timeout"] > 0
                                    THEN {} ELSE {"keepalive_timeout"}
<1>1. Release(Exactly(S), {"fd"}) = Exactly(S \ {"fd"})
  <2>1. {"fd"} \subseteq S
    OBVIOUS
  <2> QED BY <2>1, ReleaseExactly
<1>2. Release(Exactly(S \ {"fd"}), Writer) = Exactly(T)
  <2>1. Writer \subseteq S \ {"fd"}
    BY DEF Writer
  <2> QED BY <2>1, ReleaseExactly
<1>3. T = Reading(remoteid) \ X
  BY DEF Reading, Reader, Writer
<1>4. "keepalive_timeout" \in Reading(remoteid) /\ "keepalive_timeout" \in Resources
  BY DEF Reading, Reader, Resources
<1>5. U = T
  <2>1. Exactly(T)["keepalive_timeout"] > 0 <=> "keepalive_timeout" \in T
    BY <1>4, ExactlyAt
  <2> HIDE DEF T
  <2> QED BY <2>1, <1>3, <1>4
<1>6. Release(Exactly(T), U) = Exactly(T \ U)
  <2> HIDE DEF T, U
  <2> QED BY <1>5, ReleaseExactly
<1>7. T \ U = {}
  <2> HIDE DEF T, U
  <2> QED BY <1>5
<1>8. TearDown(Exactly(S), remoteid) = Release(Exactly(T), U)
  BY <1>1, <1>2 DEF TearDown, WriterUnregister, ReaderUnregister
<1> QED BY <1>6, <1>7, <1>8

(* The same for a session that fails. *)
LEMMA FailingTornDown ==
    ASSUME NEW remoteid \in BOOLEAN,
           NEW h \in Failing(Exactly({"fd"} \cup Reading(remoteid) \cup Writer))
    PROVE  TearDown(h, remoteid) = Exactly({})
<1> DEFINE S == {"fd"} \cup Reading(remoteid) \cup Writer
<1>1. CASE h = Exactly(S)
  <2>1. S = S \ {}
    OBVIOUS
  <2> QED BY <1>1, <2>1, TearDownExactly
<1>2. CASE h = Release(Exactly(S), {"keepalive_timeout"})
  <2>1. {"keepalive_timeout"} \subseteq S
    BY DEF Reading, Reader
  <2>2. h = Exactly(S \ {"keepalive_timeout"})
    BY <1>2, <2>1, ReleaseExactly
  <2> QED BY <2>2, TearDownExactly
<1> QED BY <1>1, <1>2 DEF Failing

---------------------------------------------------------------------------
(* The connecting end.                                                     *)

(* A state in which nothing was unregistered twice owns its objects. *)
LEMMA HeldIsOwned ==
    ASSUME ConnectInv, Intact
    PROVE  held = Exactly(Owned(cs))
BY DEF ConnectInv, ConnectHoldsItsState, Owned

(* What it takes to establish the invariant. *)
LEMMA OwnedIsEnough ==
    ASSUME cs' \in States, Intact' => held' = Exactly(Owned(cs'))
    PROVE  ConnectInv'
BY DEF ConnectInv, ConnectHoldsItsState, Owned

(* Waiting, when nothing is registered. *)
LEMMA WaitRetryInv ==
    ASSUME NEW h, h = Exactly({}), WaitRetry(h)
    PROVE  ConnectInv' /\ cs' = "WAITING_RETRY"
<1>1. Acquire(h, {"timeout"}) = Exactly({} \cup {"timeout"})
  BY AcquireExactly
<1>2. {} \cup {"timeout"} = Owned("WAITING_RETRY")
  BY DEF Owned
<1>3. cs' = "WAITING_RETRY" /\ held' = Exactly(Owned("WAITING_RETRY"))
  BY <1>1, <1>2 DEF WaitRetry
<1> QED BY <1>3, OwnedIsEnough DEF States

(* try_connect(), when nothing is registered.  A connect() that succeeds   *)
(* at once is where the program ends.                                      *)
LEMMA TryConnectInv ==
    ASSUME NEW h, h = Exactly({}), TryConnect(h)
    PROVE  /\ ConnectInv'
           /\ \/ cs' # "CONNECTING" /\ UNCHANGED backlog
              \/ cs' = "CONNECTING" /\ cc' \in Unused /\ UNCHANGED backlog
              \/ cs' # "CONNECTING" /\ \E n \in Unused : backlog' = Append(backlog, n)
<1>1. CASE WaitRetry(h) /\ UNCHANGED backlog
  BY <1>1, WaitRetryInv
<1>2. ASSUME NEW n \in Unused, cs' = "CONNECTING", cc' = n,
             held' = Acquire(h, {"fd", "timeout"}), UNCHANGED backlog
      PROVE  ConnectInv'
  <2>1. held' = Exactly({} \cup {"fd", "timeout"})
    BY <1>2, AcquireExactly
  <2>2. {} \cup {"fd", "timeout"} = Owned("CONNECTING")
    BY DEF Owned
  <2> QED BY <1>2, <2>1, <2>2, OwnedIsEnough DEF States
<1>3. ASSUME NEW n \in Unused, cs' = "ESTABLISHED",
             held' = Release(Acquire(h, {"fd"}), {"timeout"})
      PROVE  ConnectInv'
  <2>1. Acquire(h, {"fd"}) = Exactly({} \cup {"fd"})
    BY AcquireExactly
  <2>2. "timeout" \in Resources
    BY DEF Resources
  <2>3. held'["timeout"] = -1
    BY <1>3, <2>1, <2>2, ExactlyAt DEF Release
  <2>4. ~ Intact'
    BY <2>3 DEF Intact
  <2> QED BY <1>3, <2>4, OwnedIsEnough DEF States
<1> QED BY <1>1, <1>2, <1>3 DEF TryConnect

---------------------------------------------------------------------------
(* The backlog.                                                            *)

(* A new connection joins the backlog. *)
LEMMA AppendNew ==
    ASSUME ConnsAreNew, NEW n \in Unused, backlog' = Append(backlog, n),
           UNCHANGED <<current, readonly>>, cs' # "CONNECTING"
    PROVE  ConnsAreNew'
<1>1. /\ backlog \in Seq(Conns) /\ n \in Conns
      /\ \A k \in 1..Len(backlog) : backlog[k] # n
      /\ n \notin Accepted
  BY DEF ConnsAreNew, Unused, Queued
<1>2. Accepted' = Accepted
  BY DEF Accepted
<1>3. /\ backlog' \in Seq(Conns)
      /\ Len(backlog') = Len(backlog) + 1
      /\ \A k \in 1..Len(backlog') :
            backlog'[k] = IF k = Len(backlog) + 1 THEN n ELSE backlog[k]
  BY <1>1
<1> HIDE DEF Accepted
<1>4. \A j, k \in 1..Len(backlog') : backlog'[j] = backlog'[k] => j = k
  BY <1>1, <1>3 DEF ConnsAreNew
<1>5. \A k \in 1..Len(backlog') : backlog'[k] \notin Accepted'
  BY <1>1, <1>2, <1>3 DEF ConnsAreNew
<1> QED BY <1>3, <1>4, <1>5 DEF ConnsAreNew

(* The listening end is not concerned by what the connecting end does,     *)
(* except for the backlog.                                                 *)
LEMMA ListenUnchanged ==
    ASSUME ListenType, ConnsAreReachable, UNCHANGED svars
    PROVE  ListenType' /\ ConnsAreReachable' /\ UNCHANGED <<current, readonly>> /\ Accepted' = Accepted
BY DEF svars, ListenType, ConnsAreReachable, Accepted, ConnObjects

(* The backlog stays and no attempt is under way, or a new one. *)
LEMMA SameBacklog ==
    ASSUME ConnsAreNew, UNCHANGED backlog, Accepted' = Accepted,
           cs' = "CONNECTING" => cc' \in Unused
    PROVE  ConnsAreNew'
<1>1. Unused' = Unused
  BY DEF Unused, Queued
<1> QED BY <1>1 DEF ConnsAreNew

---------------------------------------------------------------------------
(* Initially nothing is registered. *)
LEMMA InitIInv == Init => IInv
<1> SUFFICES ASSUME Init PROVE IInv
  OBVIOUS
<1>1. Accepted = {}
  BY DEF Init, Accepted
<1>2. ConnectInv
  BY NothingIsEmpty DEF Init, ConnectInv, ConnectHoldsItsState, States
<1>3. ListenType
  BY DEF Init, ListenType
<1>4. ConnsAreNew
  BY DEF Init, ConnsAreNew
<1>5. ConnsAreReachable
  BY <1>1, NothingIsEmpty DEF Init, ConnsAreReachable
<1> QED BY <1>2, <1>3, <1>4, <1>5 DEF IInv

(* dgp_connect_start() *)
LEMMA StartIInv ==
    ASSUME IInv, Start
    PROVE  IInv'
<1>1. held = Exactly({})
  BY HeldIsOwned DEF IInv, Start, Owned
<1>2. TryConnect(held) /\ UNCHANGED svars
  BY DEF Start
<1>3. ListenType' /\ ConnsAreReachable' /\ UNCHANGED <<current, readonly>> /\ Accepted' = Accepted
  BY <1>2, ListenUnchanged DEF IInv
<1>4. ConnectInv'
  BY <1>1, <1>2, TryConnectInv
<1>5. ConnsAreNew'
  BY <1>1, <1>2, <1>3, TryConnectInv, SameBacklog, AppendNew DEF IInv
<1> QED BY <1>3, <1>4, <1>5 DEF IInv

(* connect_pollout() *)
LEMMA ConnectPolloutIInv ==
    ASSUME IInv, ConnectPollout
    PROVE  IInv'
<1>1. held = Exactly({"fd", "timeout"}) /\ cc \in Unused
  BY HeldIsOwned DEF IInv, ConnectPollout, Owned, ConnsAreNew
<1>2. ListenType' /\ ConnsAreReachable' /\ UNCHANGED <<current, readonly>> /\ Accepted' = Accepted
  BY ListenUnchanged DEF IInv, ConnectPollout
<1>3. CASE ConnectSuccess(held, cc)
  <2> DEFINE session == {"fd"} \cup Reading(TRUE) \cup Writer
             up == Acquire(Release(held, {"timeout"}), Reading(TRUE) \cup Writer)
  <2>1. up = Exactly(session)
    <3>1. Release(held, {"timeout"}) = Exactly({"fd", "timeout"} \ {"timeout"})
      BY <1>1, ReleaseExactly
    <3>2. {"fd", "timeout"} \ {"timeout"} = {"fd"}
      OBVIOUS
    <3>3. (Reading(TRUE) \cup Writer) \cap {"fd"} = {}
      BY DEF Reading, Reader, Writer
    <3>4. Acquire(Exactly({"fd"}), Reading(TRUE) \cup Writer) = Exactly({"fd"} \cup (Reading(TRUE) \cup Writer))
      BY <3>3, AcquireExactly
    <3>5. {"fd"} \cup (Reading(TRUE) \cup Writer) = session
      OBVIOUS
    <3> QED BY <3>1, <3>2, <3>4, <3>5
  <2>2. backlog' = Append(backlog, cc)
    BY <1>3 DEF ConnectSuccess
  <2>3. ConnectInv' /\ cs' # "CONNECTING"
    <3>1. CASE cs' = "ESTABLISHED" /\ held' = up
      <4>1. session = Owned("ESTABLISHED")
        BY DEF Owned, Reading
      <4> QED BY <2>1, <3>1, <4>1, OwnedIsEnough DEF States
    <3>2. CASE WaitRetry(TearDown(up, TRUE))
      <4>1. TearDown(up, TRUE) = Exactly({})
        <5>1. up \in Failing(Exactly(session)) /\ TRUE \in BOOLEAN
          BY <2>1 DEF Failing
        <5> HIDE DEF up
        <5> QED BY <5>1, FailingTornDown, Zenon
      <4> QED BY <3>2, <4>1, WaitRetryInv
    <3> QED BY <1>3, <3>1, <3>2 DEF ConnectSuccess
  <2>4. ConnsAreNew'
    BY <1>1, <1>2, <2>2, <2>3, AppendNew DEF IInv
  <2> QED BY <1>2, <2>3, <2>4 DEF IInv
<1>4. CASE WaitRetry(Release(held, {"fd", "timeout"})) /\ UNCHANGED backlog
  <2>1. Release(held, {"fd", "timeout"}) = Exactly({"fd", "timeout"} \ {"fd", "timeout"})
    BY <1>1, ReleaseExactly
  <2>2. {"fd", "timeout"} \ {"fd", "timeout"} = {}
    OBVIOUS
  <2>3. ConnectInv' /\ cs' # "CONNECTING"
    BY <1>4, <2>1, <2>2, WaitRetryInv
  <2> QED BY <1>2, <1>4, <2>3, SameBacklog DEF IInv
<1> QED BY <1>3, <1>4 DEF ConnectPollout

(* rx_timeout_expired() *)
LEMMA TimeoutExpiredIInv ==
    ASSUME IInv, TimeoutExpired
    PROVE  IInv'
<1> DEFINE h == Release(held, {"timeout"})
<1>1. ListenType' /\ ConnsAreReachable' /\ UNCHANGED <<current, readonly>> /\ Accepted' = Accepted
  BY ListenUnchanged DEF IInv, TimeoutExpired
<1>2. held = Exactly(Owned(cs))
  BY HeldIsOwned DEF IInv, TimeoutExpired
<1>3. CASE cs = "CONNECTING" /\ WaitRetry(Release(h, {"fd"})) /\ UNCHANGED backlog
  <2>1. h = Exactly({"fd", "timeout"} \ {"timeout"})
    BY <1>2, <1>3, ReleaseExactly DEF Owned
  <2>2. {"fd", "timeout"} \ {"timeout"} = {"fd"} /\ {"fd"} \ {"fd"} = {}
    OBVIOUS
  <2>3. Release(Exactly({"fd"}), {"fd"}) = Exactly({"fd"} \ {"fd"})
    BY ReleaseExactly
  <2>4. Release(h, {"fd"}) = Exactly({})
    BY <2>1, <2>2, <2>3
  <2>5. ConnectInv' /\ cs' # "CONNECTING"
    BY <1>3, <2>4, WaitRetryInv
  <2> QED BY <1>1, <1>3, <2>5, SameBacklog DEF IInv
<1>4. CASE cs = "WAITING_RETRY" /\ TryConnect(h)
  <2>1. h = Exactly({"timeout"} \ {"timeout"})
    BY <1>2, <1>4, ReleaseExactly DEF Owned
  <2>2. {"timeout"} \ {"timeout"} = {}
    OBVIOUS
  <2>3. h = Exactly({})
    BY <2>1, <2>2
  <2> HIDE DEF h
  <2>4. ConnectInv'
    BY <1>4, <2>3, TryConnectInv
  <2>5. ConnsAreNew'
    BY <1>1, <1>4, <2>3, TryConnectInv, SameBacklog, AppendNew DEF IInv
  <2> QED BY <1>1, <2>4, <2>5 DEF IInv
<1> QED BY <1>3, <1>4 DEF TimeoutExpired

(* io_error() *)
LEMMA IoErrorIInv ==
    ASSUME IInv, IoError
    PROVE  IInv'
<1>1. ListenType' /\ ConnsAreReachable' /\ Accepted' = Accepted /\ UNCHANGED backlog
  BY ListenUnchanged DEF IInv, IoError
<1>2. held = Exactly({"fd"} \cup Reading(TRUE) \cup Writer)
  <2>1. Owned("ESTABLISHED") = {"fd"} \cup Reading(TRUE) \cup Writer
    BY DEF Owned, Reading
  <2> QED BY <2>1, HeldIsOwned DEF IInv, IoError
<1>3. PICK h \in Failing(held) : WaitRetry(TearDown(h, TRUE))
  BY DEF IoError
<1>4. TearDown(h, TRUE) = Exactly({})
  <2>1. TRUE \in BOOLEAN
    OBVIOUS
  <2> QED BY <1>2, <1>3, <2>1, FailingTornDown, Zenon
<1>5. ConnectInv' /\ cs' # "CONNECTING"
  BY <1>3, <1>4, WaitRetryInv
<1> QED BY <1>1, <1>5, SameBacklog DEF IInv

(* dgp_connect_stop() *)
LEMMA StopIInv ==
    ASSUME IInv, Stop
    PROVE  IInv'
<1>1. ListenType' /\ ConnsAreReachable' /\ Accepted' = Accepted /\ UNCHANGED backlog
  BY ListenUnchanged DEF IInv, Stop
<1>2. held = Exactly(Owned(cs)) /\ cs \in States \ {"STOPPED"}
  BY HeldIsOwned DEF IInv, Stop, ConnectInv
<1>3. held' = Exactly({})
  <2>1. CASE cs = "CONNECTING"
    <3>1. held' = Release(Exactly({"fd", "timeout"}), {"timeout", "fd"})
      BY <1>2, <2>1 DEF Stop, Owned
    <3>2. {"fd", "timeout"} \ {"timeout", "fd"} = {}
      OBVIOUS
    <3>3. {"timeout", "fd"} \subseteq {"fd", "timeout"}
      OBVIOUS
    <3> QED BY <3>1, <3>2, <3>3, ReleaseExactly
  <2>2. CASE cs = "WAITING_RETRY"
    <3>1. held' = Release(Exactly({"timeout"}), {"timeout"})
      BY <1>2, <2>2 DEF Stop, Owned
    <3>2. {"timeout"} \ {"timeout"} = {}
      OBVIOUS
    <3> QED BY <3>1, <3>2, ReleaseExactly
  <2>3. CASE cs = "ESTABLISHED"
    <3>1. held' = TearDown(held, TRUE)
      BY <2>3 DEF Stop
    <3>2. held \in Failing(Exactly({"fd"} \cup Reading(TRUE) \cup Writer))
      BY <1>2, <2>3 DEF Owned, Reading, Failing
    <3>3. TRUE \in BOOLEAN
      OBVIOUS
    <3>4. TearDown(held, TRUE) = Exactly({})
      BY <3>2, <3>3, FailingTornDown, Zenon
    <3> QED BY <3>1, <3>4
  <2> QED BY <1>2, <2>1, <2>2, <2>3 DEF States
<1>4. ConnectInv' /\ cs' # "CONNECTING"
  BY <1>3, OwnedIsEnough DEF Stop, Owned, States
<1> QED BY <1>1, <1>4, SameBacklog DEF IInv

---------------------------------------------------------------------------
(* The listening end.                                                      *)

(* The connecting end is not concerned by what the listening end does.     *)
LEMMA ConnectUnchanged ==
    ASSUME ConnectInv, UNCHANGED cvars
    PROVE  ConnectInv'
BY DEF cvars, ConnectInv, ConnectHoldsItsState, Intact

(* dgp_listen_socket_register() and dgp_listen_entry_register() *)
LEMMA ListenRegisterIInv ==
    ASSUME IInv, ListenRegister
    PROVE  IInv'
<1>1. Accepted = {} /\ Accepted' = {}
  BY DEF IInv, ConnsAreReachable, ListenRegister, Accepted
<1>2. ConnectInv'
  BY ConnectUnchanged DEF IInv, ListenRegister
<1>3. ListenType'
  BY DEF IInv, ListenType, ListenRegister
<1>4. ConnsAreNew'
  <2>1. cs' = "CONNECTING" => cc' \in Unused
    BY DEF IInv, ConnsAreNew, ListenRegister, cvars
  <2> QED BY <1>1, <2>1, SameBacklog DEF IInv, ListenRegister
<1>5. ConnsAreReachable'
  BY <1>1 DEF IInv, ConnsAreReachable, ListenRegister, ConnObjects
<1> QED BY <1>2, <1>3, <1>4, <1>5 DEF IInv

(* conn_kill() of some connections leaves nothing registered for them, and *)
(* the others alone.                                                       *)
LEMMA KilledExactly ==
    ASSUME IInv, NEW N \in SUBSET Accepted, NEW n \in Conns
    PROVE  Killed(N)[n] = Exactly(IF n \in Accepted \ N THEN ConnObjects ELSE {})
<1>1. sheld[n] = Exactly(IF n \in Accepted THEN ConnObjects ELSE {})
  BY DEF IInv, ConnsAreReachable
<1>2. CASE n \in N
  <2>1. PICK r : r = ~ permit_readonly
    OBVIOUS
  <2>2. r \in BOOLEAN
    BY <2>1
  <2>3. sheld[n] \in Failing(Exactly({"fd"} \cup Reading(r) \cup Writer))
    BY <1>1, <1>2, <2>1 DEF ConnObjects, Failing
  <2>4. TearDown(sheld[n], r) = Exactly({})
    BY <2>2, <2>3, FailingTornDown
  <2>5. Killed(N)[n] = TearDown(sheld[n], r)
    BY <1>2, <2>1 DEF Killed
  <2>6. n \notin Accepted \ N
    BY <1>2
  <2> QED BY <2>4, <2>5, <2>6
<1>3. CASE n \notin N
  BY <1>1, <1>3 DEF Killed
<1> QED BY <1>2, <1>3

(* lec_destroy(), or the end of the program. *)
LEMMA ListenUnregisterIInv ==
    ASSUME IInv, ListenUnregister
    PROVE  IInv'
<1>1. Accepted' = {} /\ Accepted \ Accepted = {}
  BY DEF ListenUnregister, Accepted
<1>2. ConnectInv'
  BY ConnectUnchanged DEF IInv, ListenUnregister
<1>3. ListenType'
  BY DEF IInv, ListenType, ListenUnregister, Killed
<1>4. ConnsAreNew'
  <2>1. backlog' = <<>> /\ Unused' = Conns /\ UNCHANGED <<cs, cc>>
    BY <1>1 DEF ListenUnregister, Unused, Queued, cvars
  <2>2. cs' = "CONNECTING" => cc' \in Unused'
    BY <2>1 DEF IInv, ConnsAreNew, Unused
  <2> QED BY <2>1, <2>2 DEF ConnsAreNew
<1>5. ConnsAreReachable'
  <2>1. ASSUME NEW n \in Conns
        PROVE  sheld'[n] = Exactly({})
    <3>1. Killed(Accepted)[n] = Exactly({})
      BY <1>1, KilledExactly
    <3> QED BY <3>1 DEF ListenUnregister
  <2> QED BY <1>1, <2>1 DEF ConnsAreReachable
<1> QED BY <1>2, <1>3, <1>4, <1>5 DEF IInv

(* The head of the backlog leaves it, for good. *)
LEMMA TailOfBacklog ==
    ASSUME ConnsAreNew, backlog # <<>>, backlog' = Tail(backlog)
    PROVE  /\ Head(backlog) \in Conns /\ Head(backlog) \notin Accepted
           /\ backlog' \in Seq(Conns)
           /\ \A j, k \in 1..Len(backlog') : backlog'[j] = backlog'[k] => j = k
           /\ \A k \in 1..Len(backlog') : backlog'[k] \notin Accepted \cup {Head(backlog)}
           /\ Queued' \subseteq Queued /\ Head(backlog) \in Queued
<1>1. /\ backlog \in Seq(Conns)
      /\ \A j, k \in 1..Len(backlog) : backlog[j] = backlog[k] => j = k
      /\ \A k \in 1..Len(backlog) : backlog[k] \notin Accepted
  BY DEF ConnsAreNew
<1>2. /\ Len(backlog) \in Nat /\ Len(backlog) > 0 /\ Head(backlog) = backlog[1]
      /\ backlog' \in Seq(Conns) /\ Len(backlog') = Len(backlog) - 1
      /\ \A k \in 1..Len(backlog') : backlog'[k] = backlog[k + 1] /\ k + 1 \in 1..Len(backlog)
  BY <1>1
<1>3. Head(backlog) \in Conns /\ Head(backlog) \notin Accepted /\ Head(backlog) \in Queued
  <2>1. 1 \in 1..Len(backlog)
    BY <1>2
  <2> QED BY <1>1, <1>2, <2>1 DEF Queued
<1>4. \A k \in 1..Len(backlog') : backlog'[k] # Head(backlog)
  BY <1>1, <1>2
<1>5. \A j, k \in 1..Len(backlog') : backlog'[j] = backlog'[k] => j = k
  BY <1>1, <1>2
<1>6. \A k \in 1..Len(backlog') : backlog'[k] \notin Accepted
  BY <1>1, <1>2
<1>7. Queued' \subseteq Queued
  BY <1>2 DEF Queued
<1> QED BY <1>2, <1>3, <1>4, <1>5, <1>6, <1>7

(* got_connection() *)
LEMMA GotConnectionIInv ==
    ASSUME IInv, NEW n \in Conns, GotConnection(n)
    PROVE  IInv'
<1>1. /\ n \notin Accepted /\ n \in Queued /\ Queued' \subseteq Queued
      /\ backlog' \in Seq(Conns)
      /\ \A j, k \in 1..Len(backlog') : backlog'[j] = backlog'[k] => j = k
      /\ \A k \in 1..Len(backlog') : backlog'[k] \notin Accepted \cup {n}
  BY TailOfBacklog DEF IInv, GotConnection
<1>2. ConnectInv'
  BY ConnectUnchanged DEF IInv, GotConnection
<1>3. /\ listening /\ listening'
      /\ UNCHANGED <<cs, cc, permit_readonly>>
  BY DEF GotConnection, cvars
<1>4. SUFFICES /\ Accepted' \subseteq Accepted \cup {n}
               /\ ListenType'
               /\ \A m \in Conns : sheld'[m] = Exactly(IF m \in Accepted' THEN ConnObjects ELSE {})
  <2>1. ConnsAreNew'
    <3>1. cs' = "CONNECTING" => cc' \in Unused'
      BY <1>1, <1>3, <1>4 DEF IInv, ConnsAreNew, Unused
    <3> QED BY <1>1, <1>4, <3>1 DEF ConnsAreNew
  <2>2. ConnsAreReachable'
    BY <1>3, <1>4 DEF ConnsAreReachable, ConnObjects
  <2> QED BY <1>2, <1>4, <2>1, <2>2 DEF IInv
<1>5. CASE UNCHANGED <<current, readonly, sheld>>
  <2>1. Accepted' = Accepted
    BY <1>5 DEF Accepted
  <2> QED BY <1>3, <1>5, <2>1 DEF IInv, ListenType, ConnsAreReachable
<1> DEFINE s == Killed({current})
           h == Acquire(s[n], ConnObjects)
           N == {current} \ {NoConn}
<1>6. \A m \in Conns : s[m] = Exactly(IF m \in Accepted \ N THEN ConnObjects ELSE {})
  <2>1. N \in SUBSET Accepted
    BY DEF Accepted
  <2>2. s = Killed(N)
    BY ConnAssumption DEF Killed
  <2> HIDE DEF s, N
  <2> QED BY <2>1, <2>2, KilledExactly
<1>7. h = Exactly(ConnObjects)
  <2>1. s[n] = Exactly({})
    BY <1>1, <1>6
  <2>2. Acquire(Exactly({}), ConnObjects) = Exactly({} \cup ConnObjects)
    BY AcquireExactly
  <2>3. {} \cup ConnObjects = ConnObjects
    OBVIOUS
  <2> QED BY <2>1, <2>2, <2>3
<1>8. Accepted \ N = readonly /\ NoConn \notin Conns /\ s = [m \in Conns |-> s[m]]
  BY ConnAssumption DEF Accepted, Killed, IInv, ListenType
<1>9. CASE /\ sheld' = [s EXCEPT ![n] = h]
           /\ current' = IF permit_readonly THEN NoConn ELSE n
           /\ readonly' = IF permit_readonly THEN readonly \cup {n} ELSE {}
  <2>1. Accepted' = readonly \cup {n}
    BY <1>8, <1>9 DEF Accepted, IInv, ListenType
  <2>2. ListenType'
    <3>1. DOMAIN sheld' = Conns
      BY <1>8, <1>9
    <3> QED BY <1>3, <1>9, <3>1 DEF IInv, ListenType
  <2>3. ASSUME NEW m \in Conns
        PROVE  sheld'[m] = Exactly(IF m \in Accepted' THEN ConnObjects ELSE {})
    <3> HIDE DEF s, h
    <3>1. sheld'[m] = IF m = n THEN h ELSE s[m]
      BY <1>8, <1>9
    <3> QED BY <1>6, <1>7, <1>8, <2>1, <3>1
  <2>4. Accepted' \subseteq Accepted \cup {n}
    BY <2>1 DEF Accepted
  <2> QED BY <2>2, <2>3, <2>4
<1>10. CASE /\ sheld' = [s EXCEPT ![n] = TearDown(h, ~ permit_readonly)]
            /\ current' = NoConn
            /\ UNCHANGED readonly
  <2>1. Accepted' = readonly /\ n \notin readonly
    BY <1>1, <1>10 DEF Accepted
  <2>2. ListenType'
    <3>1. DOMAIN sheld' = Conns
      BY <1>8, <1>10
    <3> QED BY <1>3, <1>10, <3>1 DEF IInv, ListenType
  <2>3. TearDown(h, ~ permit_readonly) = Exactly({})
    <3>1. PICK r : r = ~ permit_readonly
      OBVIOUS
    <3>2. r \in BOOLEAN
      BY <3>1
    <3> HIDE DEF h
    <3>3. h \in Failing(Exactly({"fd"} \cup Reading(r) \cup Writer))
      BY <1>7, <3>1 DEF ConnObjects, Failing
    <3>4. TearDown(h, r) = Exactly({})
      BY <3>2, <3>3, FailingTornDown
    <3> QED BY <3>1, <3>4
  <2>4. ASSUME NEW m \in Conns
        PROVE  sheld'[m] = Exactly(IF m \in Accepted' THEN ConnObjects ELSE {})
    <3> HIDE DEF s, h
    <3>1. sheld'[m] = IF m = n THEN TearDown(h, ~ permit_readonly) ELSE s[m]
      BY <1>8, <1>10
    <3> QED BY <1>6, <1>8, <2>1, <2>3, <3>1
  <2>5. Accepted' \subseteq Accepted \cup {n}
    BY <2>1 DEF Accepted
  <2> QED BY <2>2, <2>4, <2>5
<1> QED BY <1>5, <1>9, <1>10 DEF GotConnection

(* conn_kill() *)
LEMMA ConnKillIInv ==
    ASSUME IInv, NEW n \in Conns, ConnKill(n)
    PROVE  IInv'
<1>1. Accepted' = Accepted \ {n}
  BY ConnAssumption DEF ConnKill, Accepted
<1>2. ConnectInv'
  BY ConnectUnchanged DEF IInv, ConnKill
<1>3. ListenType'
  BY DEF IInv, ListenType, ConnKill
<1>4. UNCHANGED <<cs, cc, permit_readonly, listening, backlog>>
  BY DEF ConnKill, cvars
<1>5. ConnsAreNew'
  BY <1>1, <1>4 DEF IInv, ConnsAreNew, Unused, Queued
<1>6. ConnsAreReachable'
  <2>1. PICK h \in Failing(sheld[n]) : sheld' = [sheld EXCEPT ![n] = TearDown(h, ~ permit_readonly)]
    BY DEF ConnKill
  <2>2. PICK r : r = ~ permit_readonly
    OBVIOUS
  <2>3. r \in BOOLEAN
    BY <2>2
  <2>4. sheld[n] = Exactly({"fd"} \cup Reading(r) \cup Writer)
    BY <2>2 DEF IInv, ConnsAreReachable, ConnKill, ConnObjects
  <2>5. TearDown(h, r) = Exactly({})
    BY <2>1, <2>3, <2>4, FailingTornDown
  <2>6. sheld' = [sheld EXCEPT ![n] = Exactly({})]
    BY <2>1, <2>2, <2>5
  <2>7. ConnObjects' = ConnObjects
    BY <1>4 DEF ConnObjects
  <2>8. \A m \in Conns : sheld'[m] = Exactly(IF m \in Accepted' THEN ConnObjects' ELSE {})
    <3>1. TAKE m \in Conns
    <3>2. CASE m = n
      BY <1>1, <2>6, <3>2 DEF IInv, ListenType
    <3>3. CASE m # n
      BY <1>1, <2>6, <2>7, <3>3 DEF IInv, ConnsAreReachable
    <3> QED BY <3>2, <3>3
  <2>9. ~ listening' => Accepted' = {}
    BY <1>1, <1>4 DEF IInv, ConnsAreReachable
  <2> QED BY <2>8, <2>9 DEF ConnsAreReachable
<1> QED BY <1>2, <1>3, <1>5, <1>6 DEF IInv

---------------------------------------------------------------------------
(* Every step of both ends preserves the invariant. *)
LEMMA Inductive == IInv /\ [Next]_vars => IInv'
<1> SUFFICES ASSUME IInv, [Next]_vars PROVE IInv'
  OBVIOUS
<1>1. CASE UNCHANGED vars
  <2>1. ConnectInv'
    BY <1>1, ConnectUnchanged DEF IInv, vars
  <2>2. ListenType' /\ ConnsAreReachable' /\ Accepted' = Accepted
    BY <1>1, ListenUnchanged DEF IInv, vars
  <2>3. ConnsAreNew'
    <3>1. UNCHANGED <<cs, cc, backlog>>
      BY <1>1 DEF vars, cvars
    <3>2. cs' = "CONNECTING" => cc' \in Unused
      BY <3>1 DEF IInv, ConnsAreNew
    <3> QED BY <2>2, <3>1, <3>2, SameBacklog DEF IInv
  <2> QED BY <2>1, <2>2, <2>3 DEF IInv
<1> QED
  BY <1>1, StartIInv, ConnectPolloutIInv, TimeoutExpiredIInv, IoErrorIInv, StopIInv,
     ListenRegisterIInv, ListenUnregisterIInv, GotConnectionIInv, ConnKillIInv DEF Next

(* The invariant holds of every behaviour. *)
LEMMA Invariance == Spec => []IInv
BY InitIInv, Inductive, PTL DEF Spec

(* dgp_connect_start(), try_connect(), io_error() and dgp_connect_stop(),  *)
(* however they follow each other, register and unregister exactly what    *)
(* the state of dgp_connect owns.                                          *)
THEOREM ConnectingEnd == Spec => []ConnectHoldsItsState
<1>1. IInv => ConnectHoldsItsState
  BY DEF IInv, ConnectInv
<1> QED BY Invariance, <1>1, PTL

(* A peer never has two adj_rib_ins or two listeners at the listening end, *)
(* whatever connections replace each other, and no conn is left that the   *)
(* entry or the socket does not lead to.                                   *)
THEOREM ListeningEnd == Spec => []ConnsAreReachable
<1>1. IInv => ConnsAreReachable
  BY DEF IInv
<1> QED BY Invariance, <1>1, PTL
=============================================================================
