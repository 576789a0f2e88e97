------------------------- MODULE DirectPeersProofs -------------------------
(***************************************************************************)
(* Proofs about the directly connected peers (module DirectPeers), for any *)
(* configuration of entries and limits and any finite number of            *)
(* client_conns.                                                           *)
(***************************************************************************)
EXTENDS DirectPeers, FiniteSetTheorems, TLAPS

(* The connections that are up for entry e. *)
Of(e) == {c \in Up(Conns) : tle[c] = e}

(* The list s has the conns S, each once. *)
ListOf(s, S) ==
    /\ s \in Seq(Conns)
    /\ {s[n] : n \in 1..Len(s)} = S
    /\ \A m, n \in 1..Len(s) : s[m] = s[n] => m = n
    /\ Len(s) = Cardinality(S)

TypeInv ==
    /\ registered \subseteq Entries
    /\ st \in [Conns -> {"FREE", "TLS_HANDSHAKE", "KEY_ID_VERIFIED", "CONNECTED"}]
    /\ tle \in [Conns -> Entries \cup {NULL}]
    /\ id \in [Conns -> KeyIds \cup {NULL}]
    /\ lecs \in [Entries -> Seq(Conns)]
    /\ num \in [Entries -> Int]
    /\ cec \in [Outgoing -> KeyIds \cup {NULL}]

(* LecsMatchConns, which says nothing of the order and the repetitions in  *)
(* a list; that no conn is in a list twice is what makes removing one      *)
(* element of the list remove the conn.                                    *)
Lists ==
    \A e \in Entries : ListOf(lecs[e], Of(e)) /\ num[e] = Cardinality(Of(e))

IInv == TypeInv /\ Lists /\ LimitKept /\ NoStaleEntry /\ PeersMatchConns

---------------------------------------------------------------------------
(* Lists of connections.                                                   *)

(* The empty list. *)
LEMMA ListOfNone == ListOf(<<>>, {})
BY FS_EmptySet DEF ListOf

(* iv_list_del() *)
LEMMA ListOfUnlinked ==
    ASSUME NEW s, NEW S, IsFiniteSet(S), ListOf(s, S), NEW c
    PROVE  ListOf(Unlink(s, c), S \ {c})
<1>1. CASE c \notin S
  <2>1. Unlink(s, c) = s
    BY <1>1 DEF Unlink, ListOf
  <2>2. S \ {c} = S
    BY <1>1
  <2> QED BY <2>1, <2>2
<1>2. CASE c \in S
  <2> DEFINE m == CHOOSE n \in 1..Len(s) : s[n] = c
             t == [n \in 1..(Len(s) - 1) |-> s[IF n < m THEN n ELSE n + 1]]
  <2>1. /\ s \in Seq(Conns) /\ Len(s) \in Nat
        /\ \A n \in 1..Len(s) : s[n] \in Conns
        /\ \A j, k \in 1..Len(s) : s[j] = s[k] => j = k
    BY DEF ListOf
  <2>2. \E n \in 1..Len(s) : s[n] = c
    BY <1>2 DEF ListOf
  <2>3. m \in 1..Len(s) /\ s[m] = c
    BY <2>2
  <2>4. Unlink(s, c) = t
    BY <2>2 DEF Unlink
  <2> HIDE DEF m
  <2>5. Len(s) - 1 \in Nat
    BY <2>1, <2>3
  <2>6. \A n \in 1..(Len(s) - 1) : (IF n < m THEN n ELSE n + 1) \in (1..Len(s)) \ {m}
    BY <2>1, <2>3
  <2>7. t \in Seq(Conns) /\ Len(t) = Len(s) - 1
    BY <2>1, <2>5, <2>6
  <2>8. \A n \in 1..Len(t) : t[n] = s[IF n < m THEN n ELSE n + 1]
    BY <2>7
  <2> HIDE DEF t
  <2>9. \A j, k \in 1..Len(t) : t[j] = t[k] => j = k
    BY <2>1, <2>3, <2>5, <2>6, <2>7, <2>8
  <2>10. ASSUME NEW n \in 1..Len(t) PROVE t[n] \in S \ {c}
    <3> DEFINE k == IF n < m THEN n ELSE n + 1
    <3>1. k \in (1..Len(s)) \ {m} /\ t[n] = s[k]
      BY <2>6, <2>7, <2>8
    <3> HIDE DEF k
    <3>2. s[k] \in S /\ s[k] # c
      BY <2>1, <2>3, <3>1 DEF ListOf
    <3> QED BY <3>1, <3>2
  <2>11. ASSUME NEW d \in S \ {c} PROVE \E n \in 1..Len(t) : t[n] = d
    <3>1. PICK k \in 1..Len(s) : s[k] = d
      BY DEF ListOf
    <3>2. k # m
      BY <2>3, <3>1
    <3> DEFINE n == IF k < m THEN k ELSE k - 1
    <3>3. n \in 1..Len(t) /\ (IF n < m THEN n ELSE n + 1) = k
      BY <2>1, <2>3, <2>7, <3>2
    <3> HIDE DEF n
    <3> QED BY <2>8, <3>1, <3>3
  <2>12. {t[n] : n \in 1..Len(t)} = S \ {c}
    BY <2>10, <2>11
  <2>13. Len(t) = Cardinality(S \ {c})
    BY <1>2, <2>7, FS_RemoveElement DEF ListOf
  <2> QED BY <2>4, <2>7, <2>9, <2>12, <2>13 DEF ListOf
<1> QED BY <1>1, <1>2

(* iv_list_add_tail() *)
LEMMA ListOfAppended ==
    ASSUME NEW s, NEW S, IsFiniteSet(S), ListOf(s, S), NEW c \in Conns, c \notin S
    PROVE  ListOf(Append(s, c), S \cup {c})
<1> DEFINE t == Append(s, c)
<1>1. s \in Seq(Conns) /\ Len(s) \in Nat /\ \A n \in 1..Len(s) : s[n] \in S
  BY DEF ListOf
<1>2. /\ t \in Seq(Conns) /\ Len(t) = Len(s) + 1
      /\ \A n \in 1..Len(t) : t[n] = IF n = Len(s) + 1 THEN c ELSE s[n]
  BY <1>1
<1> HIDE DEF t
<1>3. {t[n] : n \in 1..Len(t)} = S \cup {c}
  <2>1. ASSUME NEW n \in 1..Len(t) PROVE t[n] \in S \cup {c}
    BY <1>1, <1>2
  <2>2. ASSUME NEW d \in S PROVE \E n \in 1..Len(t) : t[n] = d
    <3>1. PICK n \in 1..Len(s) : s[n] = d
      BY DEF ListOf
    <3>2. n \in 1..Len(t) /\ n # Len(s) + 1
      BY <1>1, <1>2
    <3> QED BY <1>2, <3>1, <3>2
  <2>3. \E n \in 1..Len(t) : t[n] = c
    <3>1. Len(s) + 1 \in 1..Len(t)
      BY <1>1, <1>2
    <3> QED BY <1>2, <3>1
  <2> QED BY <2>1, <2>2, <2>3
<1>4. \A m, n \in 1..Len(t) : t[m] = t[n] => m = n
  BY <1>1, <1>2 DEF ListOf
<1>5. Len(t) = Cardinality(S \cup {c})
  <2>1. Cardinality(S \cup {c}) = Cardinality(S) + 1
    BY FS_AddElement
  <2>2. Len(s) = Cardinality(S)
    BY DEF ListOf
  <2> QED BY <1>2, <2>1, <2>2
<1>6. ListOf(t, S \cup {c})
  BY <1>2, <1>3, <1>4, <1>5 DEF ListOf
<1> QED BY <1>6 DEF t

(* The connections of an entry are finitely many. *)
LEMMA OfFinite ==
    ASSUME NEW e
    PROVE  IsFiniteSet(Of(e)) /\ Cardinality(Of(e)) \in Nat
<1>1. Of(e) \in SUBSET Conns
  BY DEF Of, Up
<1>2. IsFiniteSet(Of(e))
  BY <1>1, FS_Subset, KeyAssumption
<1> QED BY <1>2, FS_CardinalityType

(* num_connections after lec_destroy() of the conns C. *)
LEMMA FewerCounts ==
    ASSUME Lists, NEW C \in SUBSET Conns, NEW e \in Entries
    PROVE  Fewer(C)[e] = Cardinality(Of(e) \ C) /\ Cardinality(Of(e) \ C) \in Nat
<1>1. {c \in Up(C) : tle[c] = e} = Of(e) \cap C
  BY DEF Of, Up
<1>2. IsFiniteSet(Of(e))
  BY OfFinite
<1>3. /\ IsFiniteSet(Of(e) \ C)
      /\ Cardinality(Of(e) \ C) = Cardinality(Of(e)) - Cardinality(Of(e) \cap C)
  BY <1>2, FS_Difference
<1>4. Fewer(C)[e] = num[e] - Cardinality(Of(e) \cap C)
  BY <1>1 DEF Fewer
<1> QED BY <1>3, <1>4, FS_CardinalityType DEF Lists

(* The invariant the run checks. *)
LEMMA ListsMatch == Lists => LecsMatchConns
BY DEF Lists, LecsMatchConns, ListOf, Of

---------------------------------------------------------------------------
(* Initially there is nothing. *)
LEMMA InitIInv == Init => IInv
<1> SUFFICES ASSUME Init PROVE IInv
  OBVIOUS
<1>1. Up(Conns) = {} /\ \A e : Of(e) = {}
  BY DEF Init, Up, Of
<1>2. TypeInv
  BY DEF Init, TypeInv
<1>3. Lists
  BY <1>1, ListOfNone, FS_EmptySet DEF Init, Lists
<1>4. LimitKept
  BY ConfAssumption DEF Init, LimitKept
<1>5. NoStaleEntry
  BY DEF Init, NoStaleEntry
<1>6. PeersMatchConns
  BY <1>1 DEF Init, PeersMatchConns, Ids, Outs
<1> QED BY <1>2, <1>3, <1>4, <1>5, <1>6 DEF IInv

(* The peers left when the conns C are gone. *)
LEMMA PeersLeft ==
    ASSUME IInv, ~ aborted, NEW C \in SUBSET Conns
    PROVE  /\ PeersWithout(C) = Ids(Up(Conns) \ C) \cup {cec[k] : k \in Outs}
           /\ MyPeersWithout(C) = Ids({c \in Up(Conns) \ C : tle[c] \notin DbOnly})
                                    \cup {cec[k] : k \in Outs \ DbOnly}
<1>1. /\ \A c, d \in Up(Conns) : id[c] = id[d] => c = d
      /\ \A c \in Up(Conns), k \in Outs : id[c] # cec[k]
      /\ direct_peers = Ids(Up(Conns)) \cup {cec[k] : k \in Outs}
      /\ mypeers = Ids({c \in Up(Conns) : tle[c] \notin DbOnly})
                     \cup {cec[k] : k \in Outs \ DbOnly}
  BY DEF IInv, PeersMatchConns
<1>2. Up(C) = Up(Conns) \cap C
  BY DEF Up
<1>3. PeersWithout(C) = Ids(Up(Conns) \ C) \cup {cec[k] : k \in Outs}
  BY <1>1, <1>2 DEF PeersWithout, Ids
<1>4. MyPeersWithout(C) = Ids({c \in Up(Conns) \ C : tle[c] \notin DbOnly})
                            \cup {cec[k] : k \in Outs \ DbOnly}
  BY <1>1, <1>2 DEF MyPeersWithout, Ids
<1> QED BY <1>3, <1>4

(* What is left after lec_destroy() and client_conn_kill() of the conns C. *)
LEMMA DropProps ==
    ASSUME IInv, ~ aborted, NEW C \in SUBSET Conns, Drop(C), UNCHANGED cec
    PROVE  /\ st' \in [Conns -> {"FREE", "TLS_HANDSHAKE", "KEY_ID_VERIFIED", "CONNECTED"}]
           /\ \A c \in Conns : st'[c] = IF c \in C THEN "FREE" ELSE st[c]
           /\ UNCHANGED <<tle, id>>
           /\ num' \in [Entries -> Int]
           /\ \A e \in Entries : /\ Of(e)' = Of(e) \ C
                                 /\ num'[e] = Cardinality(Of(e) \ C)
           /\ PeersMatchConns'
<1>1. /\ st' \in [Conns -> {"FREE", "TLS_HANDSHAKE", "KEY_ID_VERIFIED", "CONNECTED"}]
      /\ \A c \in Conns : st'[c] = IF c \in C THEN "FREE" ELSE st[c]
      /\ UNCHANGED <<tle, id, aborted>>
  BY DEF Drop, Freed, IInv, TypeInv
<1>2. Up(Conns)' = Up(Conns) \ C
  BY <1>1 DEF Up
<1>3. \A e \in Entries : Of(e)' = Of(e) \ C
  BY <1>1, <1>2 DEF Of
<1>4. \A e \in Entries : num'[e] = Cardinality(Of(e) \ C) /\ num'[e] \in Int
  BY FewerCounts DEF IInv, Drop
<1>5. num' \in [Entries -> Int]
  <2>1. num' = [e \in Entries |-> num'[e]]
    BY DEF Drop, Fewer
  <2> QED BY <1>4, <2>1
<1>6. PeersMatchConns'
  <2>1. /\ \A c, d \in Up(Conns) : id[c] = id[d] => c = d
        /\ \A c \in Up(Conns), k \in Outs : id[c] # cec[k]
        /\ \A j, k \in Outs : cec[j] = cec[k] => j = k
    BY DEF IInv, PeersMatchConns
  <2>2. Outs' = Outs /\ UNCHANGED <<cec, id, tle>>
    BY <1>1 DEF Outs
  <2>3. /\ direct_peers' = Ids(Up(Conns) \ C) \cup {cec[k] : k \in Outs}
        /\ mypeers' = Ids({c \in Up(Conns) \ C : tle[c] \notin DbOnly})
                         \cup {cec[k] : k \in Outs \ DbOnly}
    BY PeersLeft DEF Drop
  <2> QED BY <1>2, <2>1, <2>2, <2>3 DEF PeersMatchConns, Ids
<1> QED BY <1>1, <1>3, <1>4, <1>5, <1>6

(* A list can only get shorter when conns are dropped. *)
LEMMA DroppedWithinLimit ==
    ASSUME IInv, NEW C, NEW e \in Entries, NEW s, ListOf(s, Of(e) \ C)
    PROVE  Len(s) <= Limit[e]
<1>1. IsFiniteSet(Of(e)) /\ Cardinality(Of(e)) \in Nat
  BY OfFinite
<1>2. Cardinality(Of(e) \ C) <= Cardinality(Of(e)) /\ Cardinality(Of(e) \ C) \in Nat
  BY <1>1, FS_Subset, FS_CardinalityType
<1>3. Len(s) = Cardinality(Of(e) \ C) /\ Len(lecs[e]) = Cardinality(Of(e))
  BY DEF ListOf, IInv, Lists
<1>4. Len(lecs[e]) <= Limit[e] /\ Limit[e] \in Nat
  BY ConfAssumption DEF IInv, LimitKept
<1> QED BY <1>1, <1>2, <1>3, <1>4

(* connection_lost(), rx_timeout() and the like; and handshake_done() of a *)
(* connection that is refused.                                             *)
LEMMA ConnLostIInv ==
    ASSUME IInv, ~ aborted, NEW c \in Conns, Drop({c}), lecs' = Without(c),
           UNCHANGED <<listening, registered, cec>>
    PROVE  IInv'
<1>1. {c} \in SUBSET Conns
  OBVIOUS
<1>2. /\ st' \in [Conns -> {"FREE", "TLS_HANDSHAKE", "KEY_ID_VERIFIED", "CONNECTED"}]
      /\ \A d \in Conns : st'[d] = IF d = c THEN "FREE" ELSE st[d]
      /\ UNCHANGED <<tle, id>>
      /\ num' \in [Entries -> Int]
      /\ \A e \in Entries : /\ Of(e)' = Of(e) \ {c}
                            /\ num'[e] = Cardinality(Of(e) \ {c})
      /\ PeersMatchConns'
  BY <1>1, DropProps
<1>3. \A e \in Entries : ListOf(lecs'[e], Of(e) \ {c})
  <2> TAKE e \in Entries
  <2>1. lecs'[e] = Unlink(lecs[e], c)
    BY DEF Without
  <2>2. ListOf(lecs[e], Of(e)) /\ IsFiniteSet(Of(e))
    BY OfFinite DEF IInv, Lists
  <2> QED BY <2>1, <2>2, ListOfUnlinked
<1>4. lecs' = [e \in Entries |-> lecs'[e]]
  BY DEF Without
<1>5. TypeInv'
  BY <1>2, <1>3, <1>4 DEF IInv, TypeInv, ListOf
<1>6. Lists'
  BY <1>2, <1>3 DEF Lists, ListOf
<1>7. LimitKept'
  BY <1>3, DroppedWithinLimit DEF LimitKept
<1>8. NoStaleEntry'
  BY <1>2 DEF IInv, NoStaleEntry
<1> QED BY <1>2, <1>5, <1>6, <1>7, <1>8 DEF IInv

(* stop_conf_listen_entry() *)
LEMMA EntryUnregisterIInv ==
    ASSUME IInv, NEW e \in Entries, EntryUnregister(e)
    PROVE  IInv'
<1> DEFINE C == OfEntry(e)
<1>1. C \in SUBSET Conns
  BY DEF OfEntry
<1>2. /\ st' \in [Conns -> {"FREE", "TLS_HANDSHAKE", "KEY_ID_VERIFIED", "CONNECTED"}]
      /\ \A d \in Conns : st'[d] = IF d \in C THEN "FREE" ELSE st[d]
      /\ UNCHANGED <<tle, id>>
      /\ num' \in [Entries -> Int]
      /\ \A f \in Entries : /\ Of(f)' = Of(f) \ C
                            /\ num'[f] = Cardinality(Of(f) \ C)
      /\ PeersMatchConns'
  <2>1. Drop(C) /\ ~ aborted /\ UNCHANGED cec
    BY DEF EntryUnregister
  <2> HIDE DEF C
  <2> QED BY <1>1, <2>1, DropProps
<1>3. \A f \in Entries : Of(f) \ C = IF f = e THEN {} ELSE Of(f)
  BY DEF OfEntry, Of, Up
<1>4. lecs' = [lecs EXCEPT ![e] = <<>>]
  BY DEF EntryUnregister
<1>5. \A f \in Entries : ListOf(lecs'[f], Of(f) \ C)
  <2> TAKE f \in Entries
  <2>1. lecs'[f] = IF f = e THEN <<>> ELSE lecs[f]
    BY <1>4 DEF IInv, TypeInv
  <2> QED BY <1>3, <2>1, ListOfNone DEF IInv, Lists
<1>6. TypeInv'
  <2>1. lecs' \in [Entries -> Seq(Conns)]
    BY <1>4 DEF IInv, TypeInv
  <2>2. registered' \subseteq Entries /\ UNCHANGED cec
    BY DEF IInv, TypeInv, EntryUnregister
  <2> HIDE DEF C
  <2> QED BY <1>2, <2>1, <2>2 DEF IInv, TypeInv
<1>7. Lists'
  <2> HIDE DEF C
  <2> QED BY <1>2, <1>5 DEF Lists, ListOf
<1>8. LimitKept'
  <2> HIDE DEF C
  <2> QED BY <1>5, DroppedWithinLimit DEF LimitKept
<1>9. NoStaleEntry'
  BY <1>2 DEF IInv, NoStaleEntry, EntryUnregister, OfEntry
<1> QED BY <1>2, <1>6, <1>7, <1>8, <1>9 DEF IInv

(* stop_conf_listening_socket() *)
LEMMA SocketUnregisterIInv ==
    ASSUME IInv, SocketUnregister
    PROVE  IInv'
<1> DEFINE C == {c \in Conns : st[c] = "TLS_HANDSHAKE"} \cup UNION {OfEntry(e) : e \in registered}
<1>1. C \in SUBSET Conns
  BY DEF OfEntry
<1>2. /\ st' \in [Conns -> {"FREE", "TLS_HANDSHAKE", "KEY_ID_VERIFIED", "CONNECTED"}]
      /\ \A d \in Conns : st'[d] = IF d \in C THEN "FREE" ELSE st[d]
      /\ UNCHANGED <<tle, id>>
      /\ num' \in [Entries -> Int]
      /\ \A f \in Entries : /\ Of(f)' = Of(f) \ C
                            /\ num'[f] = Cardinality(Of(f) \ C)
      /\ PeersMatchConns'
  <2>1. Drop(C) /\ ~ aborted /\ UNCHANGED cec
    BY DEF SocketUnregister
  <2> HIDE DEF C
  <2> QED BY <1>1, <2>1, DropProps
<1>3. \A d \in Conns : d \in C \/ st[d] = "FREE"
  BY DEF IInv, NoStaleEntry, TypeInv, OfEntry
<1>4. \A f \in Entries : Of(f) \ C = {} /\ (f \in registered \/ Of(f) = {})
  BY <1>3 DEF IInv, NoStaleEntry, Of, Up
<1>5. lecs' = [e \in Entries |-> IF e \in registered THEN <<>> ELSE lecs[e]]
  BY DEF SocketUnregister
<1>6. \A f \in Entries : ListOf(lecs'[f], Of(f) \ C)
  BY <1>4, <1>5, ListOfNone DEF IInv, Lists
<1>7. TypeInv'
  BY <1>2, <1>5 DEF IInv, TypeInv, SocketUnregister
<1>8. Lists'
  <2> HIDE DEF C
  <2> QED BY <1>2, <1>6 DEF Lists, ListOf
<1>9. LimitKept'
  <2> HIDE DEF C
  <2> QED BY <1>6, DroppedWithinLimit DEF LimitKept
<1>10. NoStaleEntry'
  BY <1>2, <1>3 DEF NoStaleEntry, SocketUnregister
<1> QED BY <1>2, <1>7, <1>8, <1>9, <1>10 DEF IInv

(* A connection that is not up changes state, and is not up then. *)
LEMMA NotUpIInv ==
    ASSUME IInv, NEW c \in Conns, st[c] # "CONNECTED",
           NEW q \in {"TLS_HANDSHAKE", "KEY_ID_VERIFIED"}, st' = [st EXCEPT ![c] = q],
           tle' \in [Conns -> Entries \cup {NULL}], id' \in [Conns -> KeyIds \cup {NULL}],
           \A d \in Conns \ {c} : tle'[d] = tle[d] /\ id'[d] = id[d],
           q = "KEY_ID_VERIFIED" => tle'[c] \in registered,
           listening, UNCHANGED <<listening, registered, lecs, num, cec, pvars>>
    PROVE  IInv'
<1>1. /\ st' \in [Conns -> {"FREE", "TLS_HANDSHAKE", "KEY_ID_VERIFIED", "CONNECTED"}]
      /\ st'[c] = q /\ \A d \in Conns \ {c} : st'[d] = st[d]
  BY DEF IInv, TypeInv
<1>2. TypeInv'
  BY <1>1 DEF IInv, TypeInv
<1>3. /\ Up(Conns)' = Up(Conns) /\ c \notin Up(Conns) /\ Up(Conns) \subseteq Conns
      /\ \A d \in Up(Conns) : tle'[d] = tle[d] /\ id'[d] = id[d]
  BY <1>1 DEF Up
<1>4. \A e : Of(e)' = Of(e)
  BY <1>3 DEF Of
<1>5. Lists' /\ LimitKept'
  BY <1>4 DEF IInv, Lists, LimitKept, ListOf
<1>6. NoStaleEntry'
  BY <1>1 DEF IInv, NoStaleEntry
<1>7. PeersMatchConns'
  <2>1. Outs' = Outs /\ UNCHANGED <<cec, direct_peers, mypeers, aborted>>
    BY DEF Outs, pvars
  <2>2. /\ Ids(Up(Conns))' = Ids(Up(Conns))
        /\ Ids({d \in Up(Conns) : tle[d] \notin DbOnly})' = Ids({d \in Up(Conns) : tle[d] \notin DbOnly})
    BY <1>3 DEF Ids
  <2>3. CASE aborted
    BY <2>1, <2>3 DEF PeersMatchConns
  <2>4. CASE ~ aborted
    <3>1. /\ \A a, b \in Up(Conns) : id[a] = id[b] => a = b
          /\ \A a \in Up(Conns), k \in Outs : id[a] # cec[k]
          /\ \A j, k \in Outs : cec[j] = cec[k] => j = k
          /\ direct_peers = Ids(Up(Conns)) \cup {cec[k] : k \in Outs}
          /\ mypeers = Ids({a \in Up(Conns) : tle[a] \notin DbOnly})
                         \cup {cec[k] : k \in Outs \ DbOnly}
      BY <2>4 DEF IInv, PeersMatchConns
    <3>2. /\ \A a, b \in Up(Conns)' : id'[a] = id'[b] => a = b
          /\ \A a \in Up(Conns)', k \in Outs' : id'[a] # cec'[k]
      BY <1>3, <2>1, <3>1
    <3>3. /\ {cec'[k] : k \in Outs'} = {cec[k] : k \in Outs}
          /\ {cec'[k] : k \in Outs' \ DbOnly} = {cec[k] : k \in Outs \ DbOnly}
      BY <2>1
    <3>4. direct_peers' = direct_peers /\ mypeers' = mypeers
      BY <2>1
    <3>5. direct_peers' = Ids(Up(Conns))' \cup {cec'[k] : k \in Outs'}
      BY <2>2, <3>1, <3>3, <3>4
    <3>6. mypeers' = Ids({d \in Up(Conns) : tle[d] \notin DbOnly})' \cup {cec'[k] : k \in Outs' \ DbOnly}
      BY <2>2, <3>1, <3>3, <3>4
    <3>7. \A j, k \in Outs' : cec'[j] = cec'[k] => j = k
      BY <2>1, <3>1
    <3> QED BY <3>2, <3>5, <3>6, <3>7 DEF PeersMatchConns
  <2> QED BY <2>3, <2>4
<1> QED BY <1>2, <1>5, <1>6, <1>7 DEF IInv

(* got_connection() *)
LEMMA GotConnectionIInv ==
    ASSUME IInv, NEW c \in Conns, GotConnection(c)
    PROVE  IInv'
<1>1. /\ st[c] = "FREE" /\ listening /\ st' = [st EXCEPT ![c] = "TLS_HANDSHAKE"]
      /\ UNCHANGED <<listening, registered, tle, id, lecs, num, cec, pvars>>
  BY DEF GotConnection
<1>2. tle' \in [Conns -> Entries \cup {NULL}] /\ id' \in [Conns -> KeyIds \cup {NULL}]
  BY <1>1 DEF IInv, TypeInv
<1> QED BY <1>1, <1>2, NotUpIInv

(* verify_key_ids() *)
LEMMA VerifyKeyIdsIInv ==
    ASSUME IInv, NEW c \in Conns, NEW ids \in Presented, VerifyKeyIds(c, ids)
    PROVE  IInv'
<1>1. PICK e \in Matches(ids) :
        /\ st' = [st EXCEPT ![c] = "KEY_ID_VERIFIED"]
        /\ tle' = [tle EXCEPT ![c] = e]
        /\ id' = [id EXCEPT ![c] = ids[1]]
  BY DEF VerifyKeyIds
<1>2. e \in registered /\ e \in Entries
  BY DEF Matches, IInv, TypeInv
<1>3. ids[1] \in KeyIds
  BY KeyAssumption
<1>4. st[c] = "TLS_HANDSHAKE" /\ UNCHANGED <<listening, registered, lecs, num, cec, pvars>>
  BY DEF VerifyKeyIds
<1>5. listening
  BY <1>4 DEF IInv, NoStaleEntry
<1>6. /\ tle' \in [Conns -> Entries \cup {NULL}] /\ id' \in [Conns -> KeyIds \cup {NULL}]
      /\ tle'[c] \in registered
      /\ \A d \in Conns \ {c} : tle'[d] = tle[d] /\ id'[d] = id[d]
  BY <1>1, <1>2, <1>3 DEF IInv, TypeInv
<1> QED BY <1>1, <1>4, <1>5, <1>6, NotUpIInv

(* cle_new_conn() of c for entry e, which destroys the connections old,    *)
(* none or the entry's newest.                                             *)
NewConn(c, e, newest, old) ==
    /\ e = tle[c]
    /\ newest = lecs[e][Len(lecs[e])]
    /\ old = IF Limit[e] = num[e] THEN {newest} ELSE {}
    /\ id[c] \notin direct_peers
    /\ st' = [d \in Conns |-> IF d = c THEN "CONNECTED"
                              ELSE IF d \in old THEN "FREE" ELSE st[d]]
    /\ lecs' = [IF old = {} THEN lecs ELSE Without(newest) EXCEPT ![e] = Append(@, c)]
    /\ num' = [Fewer(old) EXCEPT ![e] = @ + 1]
    /\ AddPeer(PeersWithout(old), MyPeersWithout(old), id[c], e \in DbOnly)
    /\ UNCHANGED <<tle, id, listening, registered, cec>>

(* It keeps the lists, the limit and the peers right. *)
LEMMA NewConnIInv ==
    ASSUME IInv, ~ aborted, NEW c \in Conns, st[c] = "KEY_ID_VERIFIED",
           NEW e, NEW newest, NEW old, NewConn(c, e, newest, old)
    PROVE  IInv'
<1>id. /\ e = tle[c] /\ newest = lecs[e][Len(lecs[e])]
       /\ old = IF Limit[e] = num[e] THEN {newest} ELSE {}
       /\ id[c] \notin direct_peers
       /\ UNCHANGED <<tle, id, listening, registered, cec>>
  BY DEF NewConn
<1>st. st' = [d \in Conns |-> IF d = c THEN "CONNECTED"
                              ELSE IF d \in old THEN "FREE" ELSE st[d]]
  BY DEF NewConn
<1>lecs. lecs' = [IF old = {} THEN lecs ELSE Without(newest) EXCEPT ![e] = Append(@, c)]
  BY DEF NewConn
<1>num. num' = [Fewer(old) EXCEPT ![e] = @ + 1]
  BY DEF NewConn
<1>add. AddPeer(PeersWithout(old), MyPeersWithout(old), id[c], e \in DbOnly)
  BY DEF NewConn
<1>1. e \in registered /\ e \in Entries /\ listening
  BY <1>id DEF IInv, NoStaleEntry, TypeInv
<1>2. Limit[e] \in Nat \ {0} /\ Len(lecs[e]) <= Limit[e]
  BY <1>1, ConfAssumption DEF IInv, LimitKept
<1>3. ListOf(lecs[e], Of(e)) /\ num[e] = Cardinality(Of(e)) /\ Len(lecs[e]) = num[e]
  BY <1>1 DEF IInv, Lists, ListOf
<1>4. old \in SUBSET Of(e) /\ old \in SUBSET Conns /\ c \notin old /\ c \notin Up(Conns)
  <2>1. CASE Limit[e] = num[e]
    <3>1. Len(lecs[e]) \in 1..Len(lecs[e])
      BY <1>2, <1>3, <2>1
    <3>2. newest \in Of(e)
      BY <1>id, <1>3, <3>1 DEF ListOf
    <3> QED BY <1>id, <2>1, <3>2 DEF Of, Up
  <2>2. CASE Limit[e] # num[e]
    BY <1>id, <2>2 DEF Up
  <2> QED BY <2>1, <2>2
<1>5. Up(Conns)' = (Up(Conns) \ old) \cup {c}
  BY <1>st, <1>4 DEF Up
<1>6. \A f \in Entries : Of(f)' = IF f = e THEN (Of(e) \ old) \cup {c} ELSE Of(f)
  BY <1>id, <1>4, <1>5 DEF Of
<1>7. \A f \in Entries : /\ IsFiniteSet(Of(f) \ old) /\ Cardinality(Of(f) \ old) \in Nat
                         /\ Fewer(old)[f] = Cardinality(Of(f) \ old)
  BY <1>4, OfFinite, FewerCounts, FS_Difference DEF IInv
<1>8. \A f \in Entries : f # e => Of(f) \ old = Of(f)
  BY <1>4 DEF Of
<1> DEFINE kept == IF old = {} THEN lecs ELSE Without(newest)
<1>9. \A f \in Entries : ListOf(kept[f], Of(f) \ old)
  <2> TAKE f \in Entries
  <2>1. CASE old = {}
    BY <2>1 DEF IInv, Lists
  <2>2. CASE old # {}
    <3>1. old = {newest} /\ kept[f] = Unlink(lecs[f], newest)
      BY <1>id, <2>2 DEF Without
    <3>2. ListOf(lecs[f], Of(f)) /\ IsFiniteSet(Of(f))
      BY OfFinite DEF IInv, Lists
    <3> HIDE DEF kept
    <3> QED BY <3>1, <3>2, ListOfUnlinked
  <2> QED BY <2>1, <2>2
<1>10. DOMAIN kept = Entries
  BY DEF Without, IInv, TypeInv
<1> HIDE DEF kept
<1>11. \A f \in Entries : lecs'[f] = IF f = e THEN Append(kept[e], c) ELSE kept[f]
  BY <1>lecs, <1>1, <1>10 DEF kept
<1>12. \A f \in Entries : ListOf(lecs'[f], Of(f)')
  <2> TAKE f \in Entries
  <2>1. CASE f = e
    <3>1. c \notin Of(e) \ old
      BY <1>4 DEF Of
    <3>2. ListOf(Append(kept[e], c), (Of(e) \ old) \cup {c})
      BY <1>1, <1>7, <1>9, <3>1, ListOfAppended
    <3> QED BY <1>6, <1>11, <2>1, <3>2
  <2>2. CASE f # e
    <3>1. ListOf(kept[f], Of(f) \ old) /\ lecs'[f] = kept[f]
      BY <1>9, <1>11, <2>2
    <3> QED BY <1>6, <1>8, <2>2, <3>1
  <2> QED BY <2>1, <2>2
<1>13. \A f \in Entries : num'[f] = IF f = e THEN Cardinality(Of(e) \ old) + 1 ELSE Cardinality(Of(f))
  <2>1. DOMAIN Fewer(old) = Entries
    BY DEF Fewer
  <2> QED BY <1>num, <1>1, <1>7, <1>8, <2>1
<1>14. Cardinality((Of(e) \ old) \cup {c}) = Cardinality(Of(e) \ old) + 1
  <2>1. c \notin Of(e) \ old
    BY <1>4 DEF Of
  <2> QED BY <1>1, <1>7, <2>1, FS_AddElement
<1>15. Lists'
  <2>1. \A f \in Entries : num'[f] = Cardinality(Of(f)')
    BY <1>6, <1>13, <1>14
  <2> QED BY <1>12, <2>1 DEF Lists, ListOf
<1>16. LimitKept'
  <2>1. \A f \in Entries : Len(lecs'[f]) = Cardinality(Of(f)')
    BY <1>12 DEF ListOf
  <2>2. Cardinality(Of(e) \ old) + 1 <= Limit[e]
    <3>1. CASE Limit[e] = num[e]
      <4>1. old = {newest} /\ newest \in Of(e) /\ IsFiniteSet(Of(e))
        BY <1>id, <1>4, <3>1, OfFinite
      <4>2. Cardinality(Of(e) \ {newest}) = Cardinality(Of(e)) - 1
        BY <4>1, FS_RemoveElement
      <4>3. Cardinality(Of(e) \ old) = Limit[e] - 1
        BY <1>3, <3>1, <4>1, <4>2
      <4> QED BY <1>2, <4>3
    <3>2. CASE Limit[e] # num[e]
      <4>1. Of(e) \ old = Of(e) /\ Cardinality(Of(e)) \in Nat
        BY <1>id, <3>2, OfFinite
      <4>2. Cardinality(Of(e)) <= Limit[e] /\ Cardinality(Of(e)) # Limit[e]
        BY <1>2, <1>3, <3>2
      <4>3. \A a, b \in Nat : a <= b /\ a # b => a + 1 <= b
        OBVIOUS
      <4>4. Cardinality(Of(e)) + 1 <= Limit[e]
        BY <1>2, <4>1, <4>2, <4>3
      <4> QED BY <4>1, <4>4
    <3> QED BY <3>1, <3>2
  <2>3. \A f \in Entries : f # e => Len(lecs'[f]) <= Limit[f]
    <3> TAKE f \in Entries
    <3> HAVE f # e
    <3>1. Len(lecs'[f]) = Len(lecs[f])
      BY <1>6, <2>1 DEF IInv, Lists, ListOf
    <3> QED BY <3>1 DEF IInv, LimitKept
  <2> QED BY <1>6, <1>14, <2>1, <2>2, <2>3 DEF LimitKept
<1>17. TypeInv'
  <2>1. st' \in [Conns -> {"FREE", "TLS_HANDSHAKE", "KEY_ID_VERIFIED", "CONNECTED"}]
    BY <1>st DEF IInv, TypeInv
  <2>2. num' \in [Entries -> Int]
    <3>1. \A f \in Entries : num'[f] \in Int
      <4> TAKE f \in Entries
      <4>1. Cardinality(Of(f) \ old) \in Int /\ Cardinality(Of(f) \ old) + 1 \in Int
        BY <1>7
      <4>2. num'[f] \in {Cardinality(Of(f) \ old) + 1, Cardinality(Of(f) \ old)}
        BY <1>8, <1>13, Zenon
      <4> QED BY <4>1, <4>2
    <3>2. num' = [f \in Entries |-> num'[f]]
      BY <1>num DEF Fewer
    <3> QED BY <3>1, <3>2
  <2>3. lecs' \in [Entries -> Seq(Conns)]
    <3>1. \A f \in Entries : lecs'[f] \in Seq(Conns)
      BY <1>12 DEF ListOf
    <3>2. lecs' = [f \in Entries |-> lecs'[f]]
      BY <1>lecs, <1>10 DEF kept
    <3> QED BY <3>1, <3>2
  <2> QED BY <1>id, <2>1, <2>2, <2>3 DEF IInv, TypeInv
<1>18. NoStaleEntry'
  BY <1>id, <1>st, <1>1 DEF IInv, NoStaleEntry
<1>19. PeersMatchConns'
  <2>1. /\ \A a, b \in Up(Conns) : id[a] = id[b] => a = b
        /\ \A a \in Up(Conns), k \in Outs : id[a] # cec[k]
        /\ \A j, k \in Outs : cec[j] = cec[k] => j = k
        /\ direct_peers = Ids(Up(Conns)) \cup {cec[k] : k \in Outs}
        /\ mypeers = Ids({a \in Up(Conns) : tle[a] \notin DbOnly})
                       \cup {cec[k] : k \in Outs \ DbOnly}
    BY DEF IInv, PeersMatchConns
  <2>2. Outs' = Outs
    BY <1>id DEF Outs
  <2>3. /\ PeersWithout(old) = Ids(Up(Conns) \ old) \cup {cec[k] : k \in Outs}
        /\ MyPeersWithout(old) = Ids({a \in Up(Conns) \ old : tle[a] \notin DbOnly})
                                   \cup {cec[k] : k \in Outs \ DbOnly}
    BY <1>4, PeersLeft
  <2>4. direct_peers' = Ids((Up(Conns) \ old) \cup {c}) \cup {cec[k] : k \in Outs}
    <3>1. Ids((Up(Conns) \ old) \cup {c}) = Ids(Up(Conns) \ old) \cup {id[c]}
      BY DEF Ids
    <3> QED BY <1>add, <2>3, <3>1 DEF AddPeer
  <2>5. mypeers' = Ids({a \in (Up(Conns) \ old) \cup {c} : tle[a] \notin DbOnly})
                     \cup {cec[k] : k \in Outs \ DbOnly}
    <3> DEFINE A == {a \in Up(Conns) \ old : tle[a] \notin DbOnly}
               B == {a \in (Up(Conns) \ old) \cup {c} : tle[a] \notin DbOnly}
    <3>1. CASE e \in DbOnly
      <4>1. B = A
        BY <1>id, <3>1
      <4>2. mypeers' = MyPeersWithout(old)
        BY <1>add, <3>1 DEF AddPeer
      <4> HIDE DEF A, B
      <4> QED BY <2>3, <4>1, <4>2 DEF A, B
    <3>2. CASE e \notin DbOnly
      <4>1. B = A \cup {c}
        BY <1>id, <3>2
      <4>2. mypeers' = MyPeersWithout(old) \cup {id[c]}
        BY <1>add, <3>2 DEF AddPeer
      <4>3. Ids(A \cup {c}) = Ids(A) \cup {id[c]}
        BY DEF Ids
      <4>4. MyPeersWithout(old) = Ids(A) \cup {cec[k] : k \in Outs \ DbOnly}
        BY <2>3
      <4>5. mypeers' = Ids(B) \cup {cec[k] : k \in Outs \ DbOnly}
        <5> HIDE DEF A, B
        <5> QED BY <4>1, <4>2, <4>3, <4>4
      <4> QED BY <4>5
    <3> QED BY <3>1, <3>2
  <2>6. (\A a \in Up(Conns) : id[c] # id[a]) /\ (\A k \in Outs : id[c] # cec[k])
    BY <1>id, <2>1 DEF Ids
  <2> QED BY <1>id, <1>5, <2>1, <2>2, <2>4, <2>5, <2>6 DEF PeersMatchConns, Ids
<1> QED BY <1>15, <1>16, <1>17, <1>18, <1>19 DEF IInv

(* handshake_done() *)
LEMMA HandshakeDoneIInv ==
    ASSUME IInv, NEW c \in Conns, HandshakeDone(c)
    PROVE  IInv'
<1>1. ~ aborted /\ st[c] = "KEY_ID_VERIFIED" /\ UNCHANGED <<listening, registered, cec>>
  BY DEF HandshakeDone
<1>2. CASE Drop({c}) /\ lecs' = Without(c)
  BY <1>1, <1>2, ConnLostIInv
<1>3. CASE ~ (Drop({c}) /\ lecs' = Without(c))
  <2> DEFINE e == tle[c]
             newest == lecs[e][Len(lecs[e])]
             old == IF Limit[e] = num[e] THEN {newest} ELSE {}
  <2>1. NewConn(c, e, newest, old)
    BY <1>1, <1>3 DEF HandshakeDone, NewConn
  <2> QED BY <1>1, <2>1, NewConnIInv
<1> QED BY <1>2, <1>3

(* start_conf_listen_entry(), of an entry that has no connections. *)
LEMMA EntryRegisterIInv ==
    ASSUME IInv, NEW e \in Entries, EntryRegister(e)
    PROVE  IInv'
<1>1. /\ listening /\ e \notin registered
      /\ registered' = registered \cup {e}
      /\ num' = [num EXCEPT ![e] = 0] /\ lecs' = [lecs EXCEPT ![e] = <<>>]
      /\ UNCHANGED <<listening, st, tle, id, cec, direct_peers, mypeers, aborted>>
  BY DEF EntryRegister, cvars, pvars
<1>2. Up(Conns)' = Up(Conns) /\ \A f : Of(f)' = Of(f)
  BY <1>1 DEF Up, Of
<1>3. Of(e) = {}
  BY <1>1 DEF IInv, NoStaleEntry, Of, Up
<1>4. TypeInv'
  <2>1. lecs' \in [Entries -> Seq(Conns)]
    BY <1>1 DEF IInv, TypeInv
  <2> QED BY <1>1, <2>1 DEF IInv, TypeInv
<1>5. \A f \in Entries : /\ lecs'[f] = IF f = e THEN <<>> ELSE lecs[f]
                         /\ num'[f] = IF f = e THEN 0 ELSE num[f]
  BY <1>1 DEF IInv, TypeInv
<1>6. Lists'
  <2>1. ASSUME NEW f \in Entries
        PROVE  ListOf(lecs'[f], Of(f)) /\ num'[f] = Cardinality(Of(f))
    BY <1>3, <1>5, ListOfNone, FS_EmptySet DEF IInv, Lists
  <2> QED BY <1>2, <2>1 DEF Lists, ListOf
<1>7. LimitKept'
  BY <1>5, ConfAssumption DEF IInv, LimitKept
<1>8. NoStaleEntry'
  BY <1>1 DEF IInv, NoStaleEntry
<1>9. PeersMatchConns'
  BY <1>1, <1>2 DEF IInv, PeersMatchConns, Ids, Outs
<1> QED BY <1>4, <1>6, <1>7, <1>8, <1>9 DEF IInv

(* start_conf_listening_socket() *)
LEMMA SocketRegisterIInv ==
    ASSUME IInv, SocketRegister
    PROVE  IInv'
<1>1. listening' /\ UNCHANGED <<registered, st, tle, id, lecs, num, cec, direct_peers, mypeers, aborted>>
  BY DEF SocketRegister, cvars, pvars
<1>2. Up(Conns)' = Up(Conns) /\ \A f : Of(f)' = Of(f)
  BY <1>1 DEF Up, Of
<1>3. TypeInv' /\ LimitKept' /\ NoStaleEntry'
  BY <1>1 DEF IInv, TypeInv, LimitKept, NoStaleEntry
<1>4. Lists'
  BY <1>1, <1>2 DEF IInv, Lists, ListOf
<1>5. PeersMatchConns'
  BY <1>1, <1>2 DEF IInv, PeersMatchConns, Ids, Outs
<1> QED BY <1>3, <1>4, <1>5 DEF IInv

(* The incoming connections are not concerned by the outgoing ones. *)
LEMMA IncomingUnchanged ==
    ASSUME IInv, UNCHANGED <<listening, registered, cvars, lecs, num>>,
           cec' \in [Outgoing -> KeyIds \cup {NULL}]
    PROVE  TypeInv' /\ Lists' /\ LimitKept' /\ NoStaleEntry' /\ Up(Conns)' = Up(Conns)
<1>1. UNCHANGED <<st, tle, id>>
  BY DEF cvars
<1>2. Up(Conns)' = Up(Conns) /\ \A f : Of(f)' = Of(f)
  BY <1>1 DEF Up, Of
<1>3. TypeInv' /\ LimitKept' /\ NoStaleEntry'
  BY <1>1 DEF IInv, TypeInv, LimitKept, NoStaleEntry
<1>4. Lists'
  BY <1>2 DEF IInv, Lists, ListOf
<1> QED BY <1>2, <1>3, <1>4

(* cce_new_conn(), unless it aborts. *)
LEMMA CceNewConnIInv ==
    ASSUME IInv, NEW k \in Outgoing, NEW i \in KeyIds, CceNewConn(k, i)
    PROVE  IInv'
<1>1. /\ ~ aborted /\ cec[k] = NULL
      /\ cec' = [cec EXCEPT ![k] = i]
      /\ AddPeer(direct_peers, mypeers, i, k \in DbOnly)
      /\ UNCHANGED <<listening, registered, cvars, lecs, num>>
  BY DEF CceNewConn
<1>2. /\ cec' \in [Outgoing -> KeyIds \cup {NULL}]
      /\ cec'[k] = i /\ \A j \in Outgoing \ {k} : cec'[j] = cec[j]
  BY <1>1 DEF IInv, TypeInv
<1>3. TypeInv' /\ Lists' /\ LimitKept' /\ NoStaleEntry' /\ Up(Conns)' = Up(Conns)
  BY <1>1, <1>2, IncomingUnchanged
<1>4. PeersMatchConns'
  <2> SUFFICES ASSUME ~ aborted' PROVE PeersMatchConns'
    BY DEF PeersMatchConns
  <2>1. i \notin direct_peers /\ direct_peers' = direct_peers \cup {i}
    BY <1>1 DEF AddPeer
  <2>2. mypeers' = IF k \in DbOnly THEN mypeers ELSE mypeers \cup {i}
    BY <1>1 DEF AddPeer
  <2>3. UNCHANGED <<id, tle>>
    BY <1>1 DEF cvars
  <2>4. /\ Outs' = Outs \cup {k} /\ k \notin Outs /\ k \in Outgoing
        /\ Outs \subseteq Outgoing
    BY <1>1, <1>2, KeyAssumption DEF Outs
  <2>5. {cec'[j] : j \in Outs'} = {cec[j] : j \in Outs} \cup {i}
    BY <1>2, <2>4
  <2>6. {cec'[j] : j \in Outs' \ DbOnly}
          = IF k \in DbOnly THEN {cec[j] : j \in Outs \ DbOnly}
            ELSE {cec[j] : j \in Outs \ DbOnly} \cup {i}
    BY <1>2, <2>4
  <2>7. /\ \A c, d \in Up(Conns) : id[c] = id[d] => c = d
        /\ \A c \in Up(Conns), j \in Outs : id[c] # cec[j]
        /\ \A j, m \in Outs : cec[j] = cec[m] => j = m
        /\ direct_peers = Ids(Up(Conns)) \cup {cec[j] : j \in Outs}
        /\ mypeers = Ids({c \in Up(Conns) : tle[c] \notin DbOnly})
                       \cup {cec[j] : j \in Outs \ DbOnly}
    BY <1>1 DEF IInv, PeersMatchConns
  <2>8. \A c \in Up(Conns) : id[c] # i
    BY <2>1, <2>7 DEF Ids
  <2>9. \A c \in Up(Conns)', j \in Outs' : id'[c] # cec'[j]
    BY <1>2, <1>3, <2>3, <2>4, <2>7, <2>8
  <2>10. /\ Ids(Up(Conns))' = Ids(Up(Conns))
         /\ Ids({c \in Up(Conns) : tle[c] \notin DbOnly})' = Ids({c \in Up(Conns) : tle[c] \notin DbOnly})
    BY <1>3, <2>3 DEF Ids
  <2>11. direct_peers' = Ids(Up(Conns))' \cup {cec'[j] : j \in Outs'}
    BY <2>1, <2>5, <2>7, <2>10
  <2>12. mypeers' = Ids({c \in Up(Conns) : tle[c] \notin DbOnly})' \cup {cec'[j] : j \in Outs' \ DbOnly}
    BY <2>2, <2>6, <2>7, <2>10
  <2>13. \A j \in Outs : cec[j] # i
    BY <2>1, <2>7
  <2>14. \A j, m \in Outs' : cec'[j] = cec'[m] => j = m
    BY <1>2, <2>4, <2>7, <2>13
  <2> QED BY <1>3, <2>3, <2>7, <2>9, <2>11, <2>12, <2>14 DEF PeersMatchConns
<1> QED BY <1>3, <1>4 DEF IInv

(* cec_destroy() *)
LEMMA CecDestroyIInv ==
    ASSUME IInv, NEW k \in Outgoing, CecDestroy(k)
    PROVE  IInv'
<1>1. /\ ~ aborted /\ cec[k] # NULL
      /\ cec' = [cec EXCEPT ![k] = NULL]
      /\ direct_peers' = direct_peers \ {cec[k]}
      /\ mypeers' = IF k \in DbOnly THEN mypeers ELSE mypeers \ {cec[k]}
      /\ UNCHANGED <<listening, registered, cvars, lecs, num, aborted>>
  BY DEF CecDestroy
<1>2. /\ cec' \in [Outgoing -> KeyIds \cup {NULL}]
      /\ cec'[k] = NULL /\ \A j \in Outgoing \ {k} : cec'[j] = cec[j]
  BY <1>1 DEF IInv, TypeInv
<1>3. TypeInv' /\ Lists' /\ LimitKept' /\ NoStaleEntry' /\ Up(Conns)' = Up(Conns)
  BY <1>1, <1>2, IncomingUnchanged
<1>4. PeersMatchConns'
  <2>1. UNCHANGED <<id, tle>>
    BY <1>1 DEF cvars
  <2>2. Outs' = Outs \ {k} /\ k \in Outs /\ Outs \subseteq Outgoing
    BY <1>1, <1>2 DEF Outs
  <2>3. /\ \A c, d \in Up(Conns) : id[c] = id[d] => c = d
        /\ \A c \in Up(Conns), j \in Outs : id[c] # cec[j]
        /\ \A j, m \in Outs : cec[j] = cec[m] => j = m
        /\ direct_peers = Ids(Up(Conns)) \cup {cec[j] : j \in Outs}
        /\ mypeers = Ids({c \in Up(Conns) : tle[c] \notin DbOnly})
                       \cup {cec[j] : j \in Outs \ DbOnly}
    BY <1>1 DEF IInv, PeersMatchConns
  <2>4. {cec'[j] : j \in Outs'} = {cec[j] : j \in Outs} \ {cec[k]}
    BY <1>2, <2>2, <2>3
  <2>5. {cec'[j] : j \in Outs' \ DbOnly} = {cec[j] : j \in Outs \ DbOnly} \ {cec[k]}
    BY <1>2, <2>2, <2>3
  <2>6. k \in DbOnly => cec[k] \notin {cec[j] : j \in Outs \ DbOnly}
    BY <2>2, <2>3
  <2>7. cec[k] \notin Ids(Up(Conns)) /\ cec[k] \notin Ids({c \in Up(Conns) : tle[c] \notin DbOnly})
    BY <2>2, <2>3 DEF Ids
  <2>8. /\ Ids(Up(Conns))' = Ids(Up(Conns))
        /\ Ids({c \in Up(Conns) : tle[c] \notin DbOnly})' = Ids({c \in Up(Conns) : tle[c] \notin DbOnly})
    BY <1>3, <2>1 DEF Ids
  <2>9. direct_peers' = Ids(Up(Conns))' \cup {cec'[j] : j \in Outs'}
    BY <1>1, <2>3, <2>4, <2>7, <2>8
  <2>10. mypeers' = Ids({c \in Up(Conns) : tle[c] \notin DbOnly})' \cup {cec'[j] : j \in Outs' \ DbOnly}
    BY <1>1, <2>3, <2>5, <2>6, <2>7, <2>8
  <2>11. /\ \A c \in Up(Conns)', j \in Outs' : id'[c] # cec'[j]
         /\ \A j, m \in Outs' : cec'[j] = cec'[m] => j = m
    BY <1>2, <1>3, <2>1, <2>2, <2>3
  <2> QED BY <1>3, <2>1, <2>3, <2>9, <2>10, <2>11 DEF PeersMatchConns
<1> QED BY <1>3, <1>4 DEF IInv

---------------------------------------------------------------------------
(* Every step preserves the invariant. *)
LEMMA Inductive == IInv /\ [Next]_vars => IInv'
<1> SUFFICES ASSUME IInv, [Next]_vars PROVE IInv'
  OBVIOUS
<1>1. CASE UNCHANGED vars
  <2>1. UNCHANGED <<listening, registered, st, tle, id, cvars, lecs, num, cec, direct_peers, mypeers, aborted>>
    BY <1>1 DEF vars, cvars, pvars
  <2>2. TypeInv' /\ Lists' /\ LimitKept' /\ NoStaleEntry' /\ Up(Conns)' = Up(Conns)
    BY <2>1, IncomingUnchanged DEF IInv, TypeInv
  <2>3. PeersMatchConns'
    BY <2>1, <2>2 DEF IInv, PeersMatchConns, Ids, Outs
  <2> QED BY <2>2, <2>3 DEF IInv
<1>2. ASSUME NEW c \in Conns, ConnLost(c) PROVE IInv'
  BY <1>2, ConnLostIInv DEF ConnLost
<1>3. ASSUME NEW e \in Entries, EntryRegister(e) \/ EntryUnregister(e) PROVE IInv'
  BY <1>3, EntryRegisterIInv, EntryUnregisterIInv
<1>4. ASSUME NEW c \in Conns, GotConnection(c) \/ HandshakeDone(c) PROVE IInv'
  BY <1>4, GotConnectionIInv, HandshakeDoneIInv
<1>5. ASSUME NEW c \in Conns, NEW ids \in Presented, VerifyKeyIds(c, ids) PROVE IInv'
  BY <1>5, VerifyKeyIdsIInv
<1>6. ASSUME NEW k \in Outgoing, NEW i \in KeyIds, CceNewConn(k, i) PROVE IInv'
  BY <1>6, CceNewConnIInv
<1>7. ASSUME NEW k \in Outgoing, CecDestroy(k) PROVE IInv'
  BY <1>7, CecDestroyIInv
<1>8. CASE SocketRegister \/ SocketUnregister
  BY <1>8, SocketRegisterIInv, SocketUnregisterIInv
<1> QED BY <1>1, <1>2, <1>3, <1>4, <1>5, <1>6, <1>7, <1>8 DEF Next

(* The invariant holds of every behaviour. *)
LEMMA Invariance == Spec => []IInv
BY InitIInv, Inductive, PTL DEF Spec

(* cle->connections and num_connections follow the client_conns through    *)
(* every order of handshakes, losses, evictions and unregistrations.       *)
THEOREM ListsFollow == Spec => []LecsMatchConns
<1>1. IInv => LecsMatchConns
  BY ListsMatch DEF IInv
<1> QED BY Invariance, <1>1, PTL

(* cle_new_conn()'s test for equality with conn_limit is enough to keep to *)
(* the limit, since num_connections is exact.                              *)
THEOREM ConnectionLimit == Spec => []LimitKept
<1>1. IInv => LimitKept
  BY DEF IInv
<1> QED BY Invariance, <1>1, PTL

(* No client_conn has a listen entry, and none exists at all, that has     *)
(* been unregistered: a handshake never ends in a stale cle_new_conn().    *)
THEOREM EntriesOutlive == Spec => []NoStaleEntry
<1>1. IInv => NoStaleEntry
  BY DEF IInv
<1> QED BY Invariance, <1>1, PTL

(* direct_peers and the PEER attributes of the node's LSA are those of the *)
(* connections that are up, in both directions, for as long as the daemon  *)
(* does not abort on a duplicate outgoing connection.                      *)
THEOREM PeersFollow == Spec => []PeersMatchConns
<1>1. IInv => PeersMatchConns
  BY DEF IInv
<1> QED BY Invariance, <1>1, PTL
=============================================================================
