--------------------------- MODULE ReceiverProofs ---------------------------
(***************************************************************************)
(* Proofs of the safety properties of module Receiver for every value of   *)
(* its constants.                                                          *)
(*                                                                         *)
(* The inductive invariant has a part that each group satisfies by itself  *)
(* (GoodGroup), a part that relates a group to the last cleanup            *)
(* (FreshGroup), a part that relates two groups (no address in common) and *)
(* a part on the loop's times.  The lemmas follow the same order: what     *)
(* each operation does to one group, then each action, then the theorems.  *)
(***************************************************************************)
EXTENDS Receiver, FiniteSetTheorems, TLAPS

\* No two connections of a group have the same address.
DistinctLinks(G) == \A c, d \in G.conns : c.addr = d.addr => c = d

\* What every group satisfies on its own.
GoodGroup(G) ==
  /\ G \in ConnectionGroup
  /\ DistinctLinks(G)
  /\ IsFiniteSet(G.conns) /\ Cardinality(G.conns) <= MAX_CONNS_PER_GROUP
  /\ G.sock => G.dataSeen
  /\ G.established => G.sock
  /\ G.info = IF G.sock THEN get_client_addresses(G) ELSE {}
  /\ \A c \in G.conns : Len(c.recv) < RECV_ACK_INT

(***************************************************************************)
(* A group after the cleanup of time run: nothing in it was overdue then.  *)
(***************************************************************************)
FreshConn(c, run) ==
  /\ c.lastRcvd + CONN_TIMEOUT >= run
  /\ c.recStart > 0 => c.recStart + RECOVERY_CHANCE_PERIOD >= run

FreshGroup(G, run) ==
  /\ \A c \in G.conns : FreshConn(c, run)
  /\ G.conns = {} =>
       G.created + (IF G.dataSeen THEN GROUP_TIMEOUT
                                  ELSE PENDING_GROUP_TIMEOUT) >= run

\* No address answers for two groups.
Exclusive ==
  \A g, h \in DOMAIN groups :
    \A a \in Addr : Claims(groups[g], a) /\ Claims(groups[h], a) => g = h

GroupTable ==
  /\ nextId \in Nat \ {0}
  /\ DOMAIN groups \subseteq 1 .. nextId - 1
  /\ IsFiniteSet(DOMAIN groups)
  /\ Cardinality(DOMAIN groups) <= MAX_GROUPS
  /\ \A g \in DOMAIN groups : GoodGroup(groups[g]) /\ FreshGroup(groups[g], lastRun)
  /\ Exclusive

Times ==
  /\ lastRun \in Nat /\ ts \in Nat /\ clock \in Nat
  /\ ts > 0 /\ lastRun <= ts /\ ts <= clock
  /\ phase \in {"wait", "events"}
  /\ phase = "wait" /\ DOMAIN groups # {} => ts < lastRun + CLEANUP_PERIOD

Entries ==
  /\ DOMAIN entries \subseteq Ip
  /\ \A i \in DOMAIN entries : entries[i] \in Limiter!Entry

IInv == GroupTable /\ Times /\ Entries
-----------------------------------------------------------------------------
(***************************************************************************)
(* Operations on one connection.                                           *)
(***************************************************************************)
LEMMA NewConnectionType ==
  ASSUME NEW a \in Addr, NEW t \in Nat
  PROVE  /\ NewConnection(a, t) \in Connection
         /\ NewConnection(a, t).addr = a
         /\ Len(NewConnection(a, t).recv) < RECV_ACK_INT
         /\ NewConnection(a, t).lastRcvd = t
         /\ NewConnection(a, t).recStart = 0
  BY RegistryConstants DEF NewConnection, Connection

LEMMA HeardType ==
  ASSUME NEW c \in Connection, NEW t \in Nat
  PROVE  /\ Heard(c, t) \in Connection
         /\ Heard(c, t).addr = c.addr
         /\ Heard(c, t).recv = c.recv
         /\ Heard(c, t).lastRcvd = t
         /\ Heard(c, t).recStart \in {c.recStart, t}
  BY Zenon DEF Heard, Connection

LEMMA RegisterPacketType ==
  ASSUME NEW c \in Connection, NEW sn \in Sn, Len(c.recv) < RECV_ACK_INT
  PROVE  /\ register_packet(c, sn) \in Connection
         /\ register_packet(c, sn).addr = c.addr
         /\ register_packet(c, sn).lastRcvd = c.lastRcvd
         /\ register_packet(c, sn).recStart = c.recStart
         /\ Len(register_packet(c, sn).recv) < RECV_ACK_INT
<1> DEFINE r == IF Len(c.recv) + 1 = RECV_ACK_INT THEN <<>> ELSE Append(c.recv, sn)
<1>1. c.recv \in Seq(Sn) /\ RECV_ACK_INT \in Nat \ {0}
  BY RegistryConstants DEF Connection
<1>2. r \in Seq(Sn) /\ Len(r) < RECV_ACK_INT
  BY <1>1
<1>3. register_packet(c, sn) = [c EXCEPT !.recv = r]
  BY DEF register_packet
<1> HIDE DEF r
<1> QED
  BY <1>2, <1>3 DEF Connection

LEMMA SettleRecoveryType ==
  ASSUME NEW c \in Connection, NEW t \in Nat
  PROVE  /\ SettleRecovery(c, t) \in Connection
         /\ SettleRecovery(c, t).addr = c.addr
         /\ SettleRecovery(c, t).recv = c.recv
         /\ SettleRecovery(c, t).lastRcvd = c.lastRcvd
         /\ \/ SettleRecovery(c, t).recStart = 0
            \/ /\ SettleRecovery(c, t).recStart = c.recStart
               /\ c.recStart > 0 => c.recStart + RECOVERY_CHANCE_PERIOD >= t
<1>1. CASE RecoveryOver(c, t)
  <2>1. SettleRecovery(c, t) = [c EXCEPT !.recStart = 0]
    BY <1>1 DEF SettleRecovery
  <2> QED
    BY <2>1 DEF Connection
<1>2. CASE ~RecoveryOver(c, t)
  <2>1. SettleRecovery(c, t) = c
    BY <1>2 DEF SettleRecovery
  <2>2. c.recStart \in Nat /\ RECOVERY_CHANCE_PERIOD \in Nat
    BY RegistryConstants DEF Connection
  <2>3. c.recStart > 0 => c.recStart + RECOVERY_CHANCE_PERIOD >= t
    BY <1>2, <2>2 DEF RecoveryOver
  <2> QED
    BY <2>1, <2>3
<1> QED
  BY <1>1, <1>2
-----------------------------------------------------------------------------
(***************************************************************************)
(* Operations on one group.  H is good, has the addresses A and the        *)
(* last_address l: what the callers need to know of a changed group.       *)
(***************************************************************************)
Becomes(H, A, l) ==
  GoodGroup(H) /\ get_client_addresses(H) = A /\ H.lastAddr = l

LEMMA NewGroupGood ==
  ASSUME NEW a \in Addr, NEW t \in Nat
  PROVE  Becomes(NewGroup(a, t), {}, a)
<1>1. NewGroup(a, t) \in ConnectionGroup /\ NewGroup(a, t).lastAddr = a
  BY DEF NewGroup, ConnectionGroup
<1>2. /\ NewGroup(a, t).conns = {} /\ ~NewGroup(a, t).sock
      /\ ~NewGroup(a, t).established /\ NewGroup(a, t).info = {}
  BY DEF NewGroup
<1>3. get_client_addresses(NewGroup(a, t)) = {}
  BY <1>2 DEF get_client_addresses
<1> QED
  BY <1>1, <1>2, <1>3, FS_EmptySet, RegistryConstants
  DEF Becomes, GoodGroup, DistinctLinks

\* Replacing a connection by one with its address.
LEMMA WithConnGood ==
  ASSUME NEW G, GoodGroup(G), NEW c \in G.conns,
         NEW d \in Connection, d.addr = c.addr, Len(d.recv) < RECV_ACK_INT
  PROVE  /\ Becomes(WithConn(G, c, d), get_client_addresses(G), G.lastAddr)
         /\ WithConn(G, c, d).conns = (G.conns \ {c}) \cup {d}
         /\ WithConn(G, c, d).dataSeen = G.dataSeen
         /\ WithConn(G, c, d).created = G.created
<1> DEFINE C == (G.conns \ {c}) \cup {d}
           H == [G EXCEPT !.conns = C]
<1>1. WithConn(G, c, d) = H
  BY DEF WithConn
<1>2. G \in ConnectionGroup /\ G.conns \in SUBSET Connection
  BY DEF GoodGroup, ConnectionGroup
<1>3. C \in SUBSET Connection
  BY <1>2
<1>4. IsFiniteSet(C) /\ Cardinality(C) <= MAX_CONNS_PER_GROUP
  <2>1. IsFiniteSet(G.conns) /\ Cardinality(G.conns) <= MAX_CONNS_PER_GROUP
    BY DEF GoodGroup
  <2>2. /\ IsFiniteSet(G.conns \ {c})
        /\ Cardinality(G.conns \ {c}) = Cardinality(G.conns) - 1
    BY <2>1, FS_RemoveElement, Zenon
  <2>3. /\ IsFiniteSet(C)
        /\ Cardinality(C) \in {Cardinality(G.conns \ {c}), Cardinality(G.conns \ {c}) + 1}
    BY <2>2, FS_AddElement
  <2> QED
    BY <2>1, <2>2, <2>3, FS_CardinalityType, RegistryConstants
<1>5. {e.addr : e \in C} = {e.addr : e \in G.conns}
  OBVIOUS
<1>6. \A e, f \in C : e.addr = f.addr => e = f
  BY DEF GoodGroup, DistinctLinks
<1>7. \A e \in C : Len(e.recv) < RECV_ACK_INT
  BY DEF GoodGroup
<1> HIDE DEF C
<1>8. /\ H \in ConnectionGroup /\ H.conns = C /\ H.sock = G.sock
      /\ H.dataSeen = G.dataSeen /\ H.established = G.established
      /\ H.info = G.info /\ H.lastAddr = G.lastAddr /\ H.created = G.created
  BY <1>2, <1>3 DEF ConnectionGroup
<1> HIDE DEF H
<1>9. get_client_addresses(H) = get_client_addresses(G)
  BY <1>5, <1>8, Zenon DEF get_client_addresses
<1>10. GoodGroup(H)
  BY <1>4, <1>6, <1>7, <1>8, <1>9 DEF GoodGroup, DistinctLinks
<1> QED
  BY <1>1, <1>8, <1>9, <1>10 DEF Becomes, C

LEMMA StreamingGood ==
  ASSUME NEW G, GoodGroup(G), NEW a \in Addr
  PROVE  /\ Becomes(Streaming(G, a), get_client_addresses(G), a)
         /\ Streaming(G, a).dataSeen
         /\ Streaming(G, a).conns = G.conns
         /\ Streaming(G, a).created = G.created
         /\ Streaming(G, a).naks = G.naks
<1> DEFINE H == Streaming(G, a)
<1>1. /\ H \in ConnectionGroup /\ H.conns = G.conns /\ H.sock = G.sock
      /\ H.dataSeen /\ H.established = G.established /\ H.created = G.created
      /\ H.info = G.info /\ H.lastAddr = a /\ H.naks = G.naks
  BY Zenon DEF GoodGroup, ConnectionGroup, Streaming
<1> HIDE DEF H
<1>2. get_client_addresses(H) = get_client_addresses(G)
  BY <1>1 DEF get_client_addresses
<1>3. GoodGroup(H)
  BY <1>1, <1>2 DEF GoodGroup, DistinctLinks
<1> QED
  BY <1>1, <1>2, <1>3 DEF Becomes, H

LEMMA EnsureSocketGood ==
  ASSUME NEW G, GoodGroup(G), G.dataSeen
  PROVE  /\ Becomes(ensure_group_socket(G), get_client_addresses(G), G.lastAddr)
         /\ ensure_group_socket(G).conns = G.conns
         /\ ensure_group_socket(G).created = G.created
         /\ ensure_group_socket(G).dataSeen
<1>1. CASE G.sock
  BY <1>1 DEF ensure_group_socket, Becomes
<1>2. CASE ~G.sock
  <2> DEFINE S == [G EXCEPT !.sock = TRUE]
             H == [S EXCEPT !.info = get_client_addresses(S)]
  <2>1. /\ S \in ConnectionGroup /\ S.conns = G.conns /\ S.sock
        /\ S.dataSeen = G.dataSeen /\ S.established = G.established
        /\ S.lastAddr = G.lastAddr /\ S.created = G.created
    BY Zenon DEF GoodGroup, ConnectionGroup
  <2>2. ensure_group_socket(G) = H
    BY <1>2, <2>1 DEF ensure_group_socket, write_socket_info_file
  <2> HIDE DEF S
  <2>3. get_client_addresses(S) \in SUBSET Addr
    BY <2>1 DEF get_client_addresses, ConnectionGroup, Connection
  <2>4. /\ H \in ConnectionGroup /\ H.conns = G.conns /\ H.sock
        /\ H.dataSeen = G.dataSeen /\ H.established = G.established
        /\ H.lastAddr = G.lastAddr /\ H.info = get_client_addresses(S)
        /\ H.created = G.created
    BY <2>1, <2>3, Zenon DEF ConnectionGroup
  <2> HIDE DEF H
  <2>5. /\ get_client_addresses(H) = get_client_addresses(G)
        /\ get_client_addresses(S) = get_client_addresses(G)
    BY <2>1, <2>4 DEF get_client_addresses
  <2>6. GoodGroup(H)
    BY <2>4, <2>5 DEF GoodGroup, DistinctLinks
  <2> QED
    BY <2>2, <2>4, <2>5, <2>6 DEF Becomes
<1> QED
  BY <1>1, <1>2

\* write_socket_info_file makes the file current, whatever it held.
LEMMA WriteInfoGood ==
  ASSUME NEW G \in ConnectionGroup
  PROVE  LET H == write_socket_info_file(G) IN
         /\ H \in ConnectionGroup /\ H.conns = G.conns /\ H.sock = G.sock
         /\ H.dataSeen = G.dataSeen /\ H.established = G.established
         /\ H.lastAddr = G.lastAddr /\ H.created = G.created
         /\ H.info = IF G.sock THEN get_client_addresses(G) ELSE {}
<1> DEFINE i == IF G.sock THEN get_client_addresses(G) ELSE {}
<1>1. i \in SUBSET Addr
  BY DEF get_client_addresses, ConnectionGroup, Connection
<1>2. write_socket_info_file(G) = [G EXCEPT !.info = i]
  BY DEF write_socket_info_file
<1> HIDE DEF i
<1>3. /\ [G EXCEPT !.info = i] \in ConnectionGroup
      /\ \A f \in {"conns", "sock", "dataSeen", "established", "lastAddr", "created"} :
           [G EXCEPT !.info = i][f] = G[f]
      /\ [G EXCEPT !.info = i].info = i
  BY <1>1 DEF ConnectionGroup
<1> QED
  BY <1>2, <1>3 DEF i

\* The group that REG2 registers address a with.
Joined(G, a, t) == [write_socket_info_file(Admit(G, a, t)) EXCEPT !.lastAddr = a]

LEMMA JoinedGood ==
  ASSUME NEW G, GoodGroup(G), NEW a \in Addr, NEW t \in Nat,
         a \in get_client_addresses(G) \/ Cardinality(G.conns) < MAX_CONNS_PER_GROUP
  PROVE  /\ Becomes(Joined(G, a, t), get_client_addresses(G) \cup {a}, a)
         /\ Joined(G, a, t).conns \in {G.conns, G.conns \cup {NewConnection(a, t)}}
         /\ Joined(G, a, t).dataSeen = G.dataSeen
         /\ Joined(G, a, t).created = G.created
<1> DEFINE A == Admit(G, a, t)
           n == NewConnection(a, t)
           W == write_socket_info_file(A)
           J == Joined(G, a, t)
<1>1. G \in ConnectionGroup /\ G.conns \in SUBSET Connection
  BY DEF GoodGroup, ConnectionGroup
<1>2. n \in Connection /\ n.addr = a /\ Len(n.recv) < RECV_ACK_INT
  BY NewConnectionType
<1> HIDE DEF n
<1>3. /\ A \in ConnectionGroup /\ A.sock = G.sock /\ A.created = G.created
      /\ A.dataSeen = G.dataSeen /\ A.established = G.established
      /\ A.conns = IF a \in get_client_addresses(G) THEN G.conns ELSE G.conns \cup {n}
  BY <1>1, <1>2 DEF Admit, ConnectionGroup, n
<1>4. /\ IsFiniteSet(A.conns) /\ Cardinality(A.conns) <= MAX_CONNS_PER_GROUP
  <2>1. IsFiniteSet(G.conns) /\ Cardinality(G.conns) <= MAX_CONNS_PER_GROUP
    BY DEF GoodGroup
  <2>2. /\ IsFiniteSet(G.conns \cup {n})
        /\ Cardinality(G.conns \cup {n}) \in {Cardinality(G.conns), Cardinality(G.conns) + 1}
    BY <2>1, FS_AddElement
  <2> QED
    BY <1>3, <2>1, <2>2, FS_CardinalityType, RegistryConstants
<1>5. {c.addr : c \in A.conns} = {c.addr : c \in G.conns} \cup {a}
  BY <1>2, <1>3 DEF get_client_addresses
<1>6. \A c, d \in A.conns : c.addr = d.addr => c = d
  BY <1>2, <1>3 DEF GoodGroup, DistinctLinks, get_client_addresses
<1>7. \A c \in A.conns : Len(c.recv) < RECV_ACK_INT
  BY <1>2, <1>3 DEF GoodGroup
<1>8. A.conns \in {G.conns, G.conns \cup {n}}
  BY <1>3
<1> HIDE DEF A
<1>9. /\ W \in ConnectionGroup /\ W.conns = A.conns /\ W.sock = G.sock
      /\ W.dataSeen = G.dataSeen /\ W.established = G.established
      /\ W.info = IF G.sock THEN get_client_addresses(A) ELSE {}
      /\ W.created = G.created
  BY <1>3, WriteInfoGood
<1>10. J = [W EXCEPT !.lastAddr = a]
  BY DEF Joined, A
<1> HIDE DEF W, J
<1>11. /\ J \in ConnectionGroup /\ J.conns = W.conns /\ J.sock = W.sock
       /\ J.dataSeen = W.dataSeen /\ J.established = W.established
       /\ J.info = W.info /\ J.lastAddr = a /\ J.created = W.created
  BY <1>9, <1>10 DEF ConnectionGroup
<1>12. /\ get_client_addresses(J) = get_client_addresses(G) \cup {a}
       /\ get_client_addresses(J) = get_client_addresses(A)
  BY <1>5, <1>9, <1>11 DEF get_client_addresses
<1>13. GoodGroup(J)
  BY <1>4, <1>6, <1>7, <1>9, <1>11, <1>12, Zenon DEF GoodGroup, DistinctLinks
<1> QED
  BY <1>8, <1>9, <1>11, <1>12, <1>13 DEF Becomes, J, n

(***************************************************************************)
(* The cleanup of one group: the result is good and claims no new address; *)
(* if it is kept, it is fresh.                                             *)
(***************************************************************************)
LEMMA CleanGroupGood ==
  ASSUME NEW G, GoodGroup(G), NEW t \in Nat
  PROVE  LET H == CleanGroup(G, t) IN
         /\ GoodGroup(H)
         /\ get_client_addresses(H) \subseteq get_client_addresses(G)
         /\ H.lastAddr = G.lastAddr
         /\ ~Reapable(H, t) => FreshGroup(H, t)
<1> DEFINE alive == {c \in G.conns : ~conn_timed_out(c, t)}
           C == {SettleRecovery(c, t) : c \in alive}
           K == [G EXCEPT !.conns = C]
           H == CleanGroup(G, t)
<1>1. G \in ConnectionGroup /\ G.conns \in SUBSET Connection
  BY DEF GoodGroup, ConnectionGroup
<1>2. /\ C \in SUBSET Connection
      /\ \A e \in C : \E c \in alive : e = SettleRecovery(c, t) /\ e.addr = c.addr
  BY <1>1, SettleRecoveryType
<1>3. IsFiniteSet(C) /\ Cardinality(C) <= MAX_CONNS_PER_GROUP
  <2> DEFINE f == [c \in alive |-> SettleRecovery(c, t)]
  <2>1. IsFiniteSet(G.conns) /\ Cardinality(G.conns) <= MAX_CONNS_PER_GROUP
    BY DEF GoodGroup
  <2>2. IsFiniteSet(alive) /\ Cardinality(alive) <= Cardinality(G.conns)
    BY <2>1, FS_Subset
  <2>3. f \in Surjection(alive, C)
    BY DEF Surjection
  <2>4. IsFiniteSet(C) /\ Cardinality(C) <= Cardinality(alive)
    BY ONLY <2>2, <2>3, FS_Surjection
  <2> QED
    BY <2>1, <2>2, <2>4, FS_CardinalityType, RegistryConstants
<1>4. \A e, f \in C : e.addr = f.addr => e = f
  BY <1>2 DEF GoodGroup, DistinctLinks
<1>5. \A e \in C : Len(e.recv) < RECV_ACK_INT /\ FreshConn(e, t)
  <2> SUFFICES ASSUME NEW c \in alive
               PROVE  /\ Len(SettleRecovery(c, t).recv) < RECV_ACK_INT
                      /\ FreshConn(SettleRecovery(c, t), t)
    OBVIOUS
  <2>1. c \in Connection /\ Len(c.recv) < RECV_ACK_INT /\ ~conn_timed_out(c, t)
    BY <1>1 DEF GoodGroup
  <2>2. c.lastRcvd \in Nat /\ c.lastRcvd + CONN_TIMEOUT >= t
    BY <2>1, RegistryConstants DEF conn_timed_out, Connection
  <2> QED
    BY <2>1, <2>2, SettleRecoveryType DEF FreshConn
<1>6. {e.addr : e \in C} \subseteq {e.addr : e \in G.conns}
  BY <1>2
<1>7. alive = G.conns => {e.addr : e \in C} = {e.addr : e \in G.conns}
  BY <1>1, SettleRecoveryType
<1>8. H = IF alive = G.conns THEN K ELSE write_socket_info_file(K)
  BY DEF CleanGroup
<1> HIDE DEF C, alive
<1>9. /\ K \in ConnectionGroup /\ K.conns = C /\ K.sock = G.sock
      /\ K.dataSeen = G.dataSeen /\ K.established = G.established
      /\ K.info = G.info /\ K.lastAddr = G.lastAddr /\ K.created = G.created
  BY <1>1, <1>2 DEF ConnectionGroup
<1> HIDE DEF K, H
<1>10. /\ H \in ConnectionGroup /\ H.conns = C /\ H.sock = G.sock
       /\ H.dataSeen = G.dataSeen /\ H.established = G.established
       /\ H.lastAddr = G.lastAddr /\ H.created = G.created
       /\ \/ alive = G.conns /\ H.info = G.info
          \/ H.info = IF K.sock THEN get_client_addresses(K) ELSE {}
  BY <1>8, <1>9, WriteInfoGood
<1>11. /\ get_client_addresses(H) = {e.addr : e \in C}
       /\ get_client_addresses(K) = {e.addr : e \in C}
       /\ get_client_addresses(G) = {e.addr : e \in G.conns}
  BY <1>9, <1>10 DEF get_client_addresses
<1>12. H.info = IF H.sock THEN get_client_addresses(H) ELSE {}
  BY <1>7, <1>9, <1>10, <1>11, Zenon DEF GoodGroup
<1>13. GoodGroup(H)
  BY <1>3, <1>4, <1>5, <1>10, <1>12 DEF GoodGroup, DistinctLinks
<1>14. ~Reapable(H, t) => FreshGroup(H, t)
  <2>1. H.created \in Nat
    BY <1>10 DEF ConnectionGroup
  <2> QED
    BY <1>5, <1>10, <2>1, RegistryConstants DEF Reapable, FreshGroup
<1> QED
  BY <1>6, <1>10, <1>11, <1>13, <1>14 DEF H
-----------------------------------------------------------------------------
(***************************************************************************)
(* Steps of the whole table.  First those that only take away.             *)
(***************************************************************************)
LEMMA ShrinkStep ==
  ASSUME GroupTable, nextId' = nextId,
         DOMAIN groups' \subseteq DOMAIN groups,
         \A g \in DOMAIN groups' :
            /\ GoodGroup(groups'[g]) /\ FreshGroup(groups'[g], lastRun')
            /\ get_client_addresses(groups'[g]) \subseteq get_client_addresses(groups[g])
            /\ groups'[g].lastAddr = groups[g].lastAddr
  PROVE  GroupTable'
<1>1. IsFiniteSet(DOMAIN groups') /\ Cardinality(DOMAIN groups') <= MAX_GROUPS
  <2>1. IsFiniteSet(DOMAIN groups) /\ Cardinality(DOMAIN groups) <= MAX_GROUPS
    BY DEF GroupTable
  <2>2. /\ IsFiniteSet(DOMAIN groups')
        /\ Cardinality(DOMAIN groups') <= Cardinality(DOMAIN groups)
    BY <2>1, FS_Subset
  <2> QED
    BY <2>1, <2>2, FS_CardinalityType, RegistryConstants
<1>2. Exclusive'
  BY DEF GroupTable, Exclusive, Claims
<1> QED
  BY <1>1, <1>2 DEF GroupTable

LEMMA RemoveStep ==
  ASSUME GroupTable, nextId' = nextId, lastRun' = lastRun,
         NEW S \in SUBSET DOMAIN groups, groups' = [g \in S |-> groups[g]]
  PROVE  GroupTable'
<1>1. /\ DOMAIN groups' = S
      /\ \A g \in S : groups'[g] = groups[g]
  OBVIOUS
<1>2. \A g \in S : GoodGroup(groups[g]) /\ FreshGroup(groups[g], lastRun)
  BY DEF GroupTable
<1> QED
  BY <1>1, <1>2, ShrinkStep

\* Then those that replace a group g by one whose addresses are g's alone.
LEMMA ReplaceStep ==
  ASSUME GroupTable, nextId' = nextId, lastRun' = lastRun,
         NEW g \in DOMAIN groups, NEW H, NEW A, NEW l,
         Becomes(H, A, l), FreshGroup(H, lastRun),
         groups' = [groups EXCEPT ![g] = H],
         \A a \in A \cup {l} : \A h \in DOMAIN groups : Claims(groups[h], a) => h = g
  PROVE  GroupTable'
<1>1. /\ DOMAIN groups' = DOMAIN groups
      /\ \A h \in DOMAIN groups : groups'[h] = IF h = g THEN H ELSE groups[h]
  OBVIOUS
<1>2. \A h \in DOMAIN groups' : GoodGroup(groups'[h]) /\ FreshGroup(groups'[h], lastRun')
  BY <1>1 DEF GroupTable, Becomes
<1>3. \A a \in Addr : Claims(H, a) => a \in A \cup {l}
  BY DEF Becomes, Claims
<1>4. Exclusive'
  BY <1>1, <1>3 DEF GroupTable, Exclusive
<1> QED
  BY <1>1, <1>2, <1>4 DEF GroupTable

\* Under Exclusive, an address of g is g's alone.
LEMMA OwnAddress ==
  ASSUME GroupTable, NEW g \in DOMAIN groups,
         NEW a \in get_client_addresses(groups[g]) \cup {groups[g].lastAddr}
  PROVE  /\ a \in Addr
         /\ \A h \in DOMAIN groups : Claims(groups[h], a) => h = g
<1>1. groups[g] \in ConnectionGroup
  BY DEF GroupTable, GoodGroup
<1>2. a \in Addr /\ Claims(groups[g], a)
  BY <1>1 DEF get_client_addresses, Claims, ConnectionGroup, Connection
<1> QED
  BY <1>2 DEF GroupTable, Exclusive

(***************************************************************************)
(* A REG2 is let in only if its address is free or g's: the first group    *)
(* that answers for an address is the only one.                            *)
(***************************************************************************)
LEMMA NotElsewhere ==
  ASSUME GroupTable, NEW a \in Addr, NEW id \in DOMAIN groups,
         ~BelongsElsewhere(a, id)
  PROVE  \A h \in DOMAIN groups : Claims(groups[h], a) => h = id
<1> SUFFICES ASSUME NEW h \in DOMAIN groups, Claims(groups[h], a)
             PROVE  h = id
  OBVIOUS
<1>1. h \in Nat
  BY DEF GroupTable
<1>2. Claimants(a) = {h}
  BY DEF Claimants, GroupTable, Exclusive
<1>3. find_by_address(a, h)
  BY <1>1, <1>2 DEF find_by_address, IsFirst
<1> QED
  BY <1>3 DEF BelongsElsewhere
-----------------------------------------------------------------------------
LEMMA RegisterGroupStep ==
  ASSUME IInv, NEW a \in Addr, NEW reply, register_group(a, reply)
  PROVE  GroupTable'
<1>1. lastRun' = lastRun /\ ts \in Nat /\ lastRun \in Nat /\ lastRun <= ts
  BY DEF register_group, InRound, IInv, Times
<1>2. CASE UNCHANGED <<groups, nextId>>
  BY <1>1, <1>2 DEF IInv, GroupTable, Exclusive
<1>3. CASE \E room \in Rooms : groups' = [g \in room |-> groups[g]] /\ nextId' = nextId
  <2>1. \A room \in Rooms : room \in SUBSET DOMAIN groups
    BY DEF Rooms
  <2> QED
    BY <1>1, <1>3, <2>1, RemoveStep DEF IInv
<1>4. ASSUME NEW room \in Rooms,
             ~\E g \in room : Claims(groups[g], a),
             groups' = [g \in room \cup {nextId} |->
                          IF g = nextId THEN NewGroup(a, ts) ELSE groups[g]],
             nextId' = nextId + 1
      PROVE  GroupTable'
  <2> DEFINE N == NewGroup(a, ts)
  <2>1. /\ room \in SUBSET DOMAIN groups /\ IsFiniteSet(room)
        /\ Cardinality(room) < MAX_GROUPS
    <3>1. IsFiniteSet(DOMAIN groups) /\ Cardinality(DOMAIN groups) <= MAX_GROUPS
      BY DEF IInv, GroupTable
    <3>2. Cardinality(DOMAIN groups) \in Nat
      BY <3>1, FS_CardinalityType
    <3>3. CASE ~TableFull
      BY <3>1, <3>2, <3>3, RegistryConstants DEF Rooms, TableFull
    <3>4. CASE TableFull
      <4>1. PICK g \in Ghosts : room = DOMAIN groups \ {g}
        BY <3>4 DEF Rooms
      <4>2. g \in DOMAIN groups
        BY DEF Ghosts
      <4>3. /\ IsFiniteSet(room)
            /\ Cardinality(room) = Cardinality(DOMAIN groups) - 1
        BY <3>1, <4>1, <4>2, FS_RemoveElement
      <4> QED
        BY <3>1, <3>2, <4>1, <4>3, RegistryConstants
    <3> QED
      BY <3>3, <3>4
  <2>2. nextId \in Nat \ {0} /\ DOMAIN groups \subseteq 1 .. nextId - 1
    BY DEF IInv, GroupTable
  <2>3. nextId \notin room
    BY <2>1, <2>2
  <2>4. /\ DOMAIN groups' = room \cup {nextId}
        /\ groups'[nextId] = N
        /\ \A g \in room : groups'[g] = groups[g]
    BY <1>4, <2>3
  <2>5. Becomes(N, {}, a) /\ N.conns = {} /\ N.created = ts
    BY <1>1, NewGroupGood DEF NewGroup
  <2> HIDE DEF N
  <2>6. FreshGroup(N, lastRun)
    BY <1>1, <2>5, RegistryConstants DEF FreshGroup
  <2>7. \A g \in DOMAIN groups' : GoodGroup(groups'[g]) /\ FreshGroup(groups'[g], lastRun')
    BY <1>1, <2>1, <2>4, <2>5, <2>6 DEF IInv, GroupTable, Becomes
  <2>8. /\ IsFiniteSet(DOMAIN groups')
        /\ Cardinality(DOMAIN groups') <= MAX_GROUPS
    <3>1. /\ IsFiniteSet(room \cup {nextId})
          /\ Cardinality(room \cup {nextId}) = Cardinality(room) + 1
      BY <2>1, <2>3, FS_AddElement
    <3>2. Cardinality(room) \in Nat /\ MAX_GROUPS \in Nat
      BY <2>1, FS_CardinalityType, RegistryConstants
    <3> QED
      BY <2>1, <2>4, <3>1, <3>2
  <2>9. \A b \in Addr : Claims(N, b) => b = a
    BY <2>5 DEF Becomes, Claims
  <2>10. Exclusive'
    BY <1>4, <2>1, <2>4, <2>9 DEF IInv, GroupTable, Exclusive
  <2>11. nextId' \in Nat \ {0} /\ DOMAIN groups' \subseteq 1 .. nextId' - 1
    BY <1>4, <2>1, <2>2, <2>4
  <2> QED
    BY <2>7, <2>8, <2>10, <2>11 DEF GroupTable
<1> QED
  BY <1>2, <1>3, <1>4, Zenon DEF register_group

LEMMA RegisterConnectionStep ==
  ASSUME IInv, NEW a \in Addr, NEW id, NEW reply, register_connection(a, id, reply)
  PROVE  GroupTable'
<1>1. /\ lastRun' = lastRun /\ nextId' = nextId
      /\ ts \in Nat /\ lastRun \in Nat /\ lastRun <= ts
  BY DEF register_connection, InRound, IInv, Times
<1>2. CASE UNCHANGED groups
  BY <1>1, <1>2 DEF IInv, GroupTable, Exclusive
<1>3. CASE /\ id \in DOMAIN groups
           /\ ~BelongsElsewhere(a, id)
           /\ \/ a \in get_client_addresses(groups[id])
              \/ ~(Cardinality(groups[id].conns) >= MAX_CONNS_PER_GROUP)
           /\ groups' = [groups EXCEPT ![id] = Joined(groups[id], a, ts)]
  <2> DEFINE G == groups[id]
             J == Joined(G, a, ts)
  <2>1. GoodGroup(G) /\ FreshGroup(G, lastRun)
    BY <1>3 DEF IInv, GroupTable
  <2>2. a \in get_client_addresses(G) \/ Cardinality(G.conns) < MAX_CONNS_PER_GROUP
    BY <1>3, <2>1, FS_CardinalityType, RegistryConstants DEF GoodGroup
  <2>3. /\ Becomes(J, get_client_addresses(G) \cup {a}, a)
        /\ J.conns \in {G.conns, G.conns \cup {NewConnection(a, ts)}}
        /\ J.dataSeen = G.dataSeen /\ J.created = G.created
    <3> HIDE DEF G
    <3> QED
      BY <1>1, <2>1, <2>2, JoinedGood, Zenon
  <2> HIDE DEF J
  <2>4. FreshConn(NewConnection(a, ts), lastRun)
    BY <1>1, NewConnectionType, RegistryConstants DEF FreshConn
  <2>5. FreshGroup(J, lastRun)
    BY <2>1, <2>3, <2>4 DEF FreshGroup
  <2>6. \A b \in (get_client_addresses(G) \cup {a}) \cup {a} :
          \A h \in DOMAIN groups : Claims(groups[h], b) => h = id
    BY <1>3, OwnAddress, NotElsewhere DEF IInv
  <2>7. GroupTable /\ id \in DOMAIN groups /\ groups' = [groups EXCEPT ![id] = J]
    BY <1>3 DEF IInv, J
  <2> QED
    BY <1>1, <2>3, <2>5, <2>6, <2>7, ReplaceStep, Zenon
<1> QED
  BY <1>2, <1>3 DEF register_connection, Joined

(***************************************************************************)
(* The packets of a connection: the connection becomes d, heard now; the   *)
(* group becomes K, then gets its socket, or is removed.                   *)
(***************************************************************************)
LEMMA HeardStep ==
  ASSUME IInv, NEW g \in DOMAIN groups, NEW c \in groups[g].conns,
         NEW d \in Connection, d.addr = c.addr, Len(d.recv) < RECV_ACK_INT,
         d.lastRcvd = ts, d.recStart \in {c.recStart, ts}
  PROVE  LET W == WithConn(groups[g], c, d)
             K == Streaming(W, c.addr)
         IN  /\ Becomes(W, get_client_addresses(groups[g]), groups[g].lastAddr)
             /\ FreshGroup(W, lastRun)
             /\ Becomes(K, get_client_addresses(groups[g]), c.addr)
             /\ FreshGroup(K, lastRun)
             /\ K.dataSeen
             /\ K.conns # {}
             /\ c.addr \in get_client_addresses(groups[g])
<1> DEFINE G == groups[g]
           W == WithConn(G, c, d)
           K == Streaming(W, c.addr)
<1>1. GoodGroup(G) /\ FreshGroup(G, lastRun)
  BY DEF IInv, GroupTable
<1>2. /\ Becomes(W, get_client_addresses(G), G.lastAddr)
      /\ W.conns = (G.conns \ {c}) \cup {d}
  <2>1. c \in G.conns
    OBVIOUS
  <2> HIDE DEF G
  <2> QED
    BY <1>1, <2>1, WithConnGood
<1>3. c \in Connection /\ c.addr \in Addr
  BY <1>1 DEF GoodGroup, ConnectionGroup, Connection
<1> HIDE DEF W
<1>4. /\ Becomes(K, get_client_addresses(W), c.addr)
      /\ K.dataSeen /\ K.conns = W.conns
  BY <1>2, <1>3, StreamingGood DEF Becomes
<1> HIDE DEF K
<1>5. FreshConn(d, lastRun)
  <2>1. ts \in Nat /\ lastRun \in Nat /\ lastRun <= ts
    BY DEF IInv, Times
  <2>2. FreshConn(c, lastRun)
    BY <1>1 DEF FreshGroup
  <2> QED
    BY <2>1, <2>2, RegistryConstants DEF FreshConn
<1>6. FreshGroup(W, lastRun) /\ FreshGroup(K, lastRun)
  BY <1>1, <1>2, <1>4, <1>5 DEF FreshGroup
<1>7. c.addr \in get_client_addresses(G)
  BY DEF get_client_addresses
<1> QED
  BY <1>2, <1>4, <1>6, <1>7 DEF K, W, Becomes

LEMMA ForwardStep ==
  ASSUME IInv, nextId' = nextId, lastRun' = lastRun,
         NEW g \in DOMAIN groups, NEW K, NEW a,
         Becomes(K, get_client_addresses(groups[g]), a),
         a \in get_client_addresses(groups[g]),
         FreshGroup(K, lastRun), K.dataSeen,
         forward_to_srt_server(g, K)
  PROVE  GroupTable'
<1>1. CASE groups' = [groups EXCEPT ![g] = ensure_group_socket(K)]
  <2> DEFINE E == ensure_group_socket(K)
  <2>1. /\ Becomes(E, get_client_addresses(groups[g]), a)
        /\ E.conns = K.conns /\ E.created = K.created /\ E.dataSeen
    BY EnsureSocketGood DEF Becomes
  <2> HIDE DEF E
  <2>2. FreshGroup(E, lastRun)
    BY <2>1 DEF FreshGroup
  <2>3. \A b \in get_client_addresses(groups[g]) \cup {a} :
          \A h \in DOMAIN groups : Claims(groups[h], b) => h = g
    BY OwnAddress DEF IInv
  <2> QED
    BY <1>1, <2>1, <2>2, <2>3, ReplaceStep, Zenon DEF IInv, E
<1>2. CASE groups' = remove_group(g)
  BY <1>2, RemoveStep DEF remove_group, IInv
<1> QED
  BY <1>1, <1>2 DEF forward_to_srt_server

LEMMA PacketStep ==
  ASSUME IInv, NEW a \in Addr, process_single_packet(a)
  PROVE  GroupTable'
<1>0. PICK g \in DOMAIN groups : \E c \in groups[g].conns :
        \/ receive_keepalive(g, c)
        \/ \E sn \in Sn : receive_data(g, c, sn)
        \/ receive_control(g, c)
        \/ \E h \in Hash : receive_nak(g, c, h)
  BY DEF process_single_packet
<1>1. PICK c \in groups[g].conns :
        \/ receive_keepalive(g, c)
        \/ \E sn \in Sn : receive_data(g, c, sn)
        \/ receive_control(g, c)
        \/ \E h \in Hash : receive_nak(g, c, h)
  BY <1>0
<1>2. lastRun' = lastRun /\ nextId' = nextId /\ ts \in Nat
  BY DEF process_single_packet, InRound, IInv, Times
<1> DEFINE G == groups[g]
           d == Heard(c, ts)
           W == WithConn(G, c, d)
           K == Streaming(W, c.addr)
<1>3. c \in Connection /\ Len(c.recv) < RECV_ACK_INT
  BY DEF IInv, GroupTable, GoodGroup, ConnectionGroup
<1>4. /\ d \in Connection /\ d.addr = c.addr /\ Len(d.recv) < RECV_ACK_INT
      /\ d.lastRcvd = ts /\ d.recStart \in {c.recStart, ts}
  BY <1>2, <1>3, HeardType
<1> HIDE DEF d
<1>5. /\ Becomes(W, get_client_addresses(G), G.lastAddr) /\ FreshGroup(W, lastRun)
      /\ Becomes(K, get_client_addresses(G), c.addr) /\ FreshGroup(K, lastRun)
      /\ K.dataSeen /\ K.conns # {} /\ c.addr \in get_client_addresses(G)
  BY <1>4, HeardStep
<1>6. CASE receive_keepalive(g, c)
  <2>1. groups' = [groups EXCEPT ![g] = W]
    BY <1>6 DEF receive_keepalive, d
  <2>2. \A b \in get_client_addresses(G) \cup {G.lastAddr} :
          \A h \in DOMAIN groups : Claims(groups[h], b) => h = g
    BY OwnAddress DEF IInv
  <2>3. GroupTable
    BY DEF IInv
  <2> HIDE DEF W, K
  <2> QED
    BY <1>2, <1>5, <2>1, <2>2, <2>3, ReplaceStep, Zenon
<1>7. ASSUME NEW sn \in Sn, receive_data(g, c, sn)
      PROVE  GroupTable'
  <2> DEFINE e == register_packet(d, sn)
             P == Streaming(WithConn(G, c, e), c.addr)
  <2>1. /\ e \in Connection /\ e.addr = c.addr /\ Len(e.recv) < RECV_ACK_INT
        /\ e.lastRcvd = ts /\ e.recStart \in {c.recStart, ts}
    BY <1>4, RegisterPacketType
  <2> HIDE DEF e
  <2>2. /\ Becomes(P, get_client_addresses(G), c.addr) /\ FreshGroup(P, lastRun)
        /\ P.dataSeen /\ c.addr \in get_client_addresses(G)
    BY <2>1, HeardStep
  <2>3. forward_to_srt_server(g, P)
    BY <1>7 DEF receive_data, e, d
  <2> HIDE DEF P
  <2> QED
    BY <1>2, <2>2, <2>3, ForwardStep
<1>8. CASE receive_control(g, c)
  <2>1. forward_to_srt_server(g, K)
    BY <1>8 DEF receive_control, d
  <2> HIDE DEF K
  <2> QED
    BY <1>2, <1>5, <2>1, ForwardStep
<1>9. ASSUME NEW h \in Hash, receive_nak(g, c, h)
      PROVE  GroupTable'
  <2> DEFINE N == [K EXCEPT !.naks[h] = @ + 1]
  <2>1. \/ groups' = [groups EXCEPT ![g] = K]
        \/ forward_to_srt_server(g, N)
    BY <1>9 DEF receive_nak, d
  <2> HIDE DEF K
  <2>2. CASE groups' = [groups EXCEPT ![g] = K]
    <3>1. \A b \in get_client_addresses(G) \cup {c.addr} :
            \A i \in DOMAIN groups : Claims(groups[i], b) => i = g
      BY <1>5, OwnAddress DEF IInv
    <3>2. GroupTable
      BY DEF IInv
    <3> QED
      BY <1>2, <1>5, <2>2, <3>1, <3>2, ReplaceStep, Zenon
  <2>3. CASE forward_to_srt_server(g, N)
    <3>1. K \in ConnectionGroup
      BY <1>5 DEF Becomes, GoodGroup
    <3>2. /\ N \in ConnectionGroup /\ N.conns = K.conns /\ N.sock = K.sock
          /\ N.dataSeen = K.dataSeen /\ N.established = K.established
          /\ N.info = K.info /\ N.lastAddr = K.lastAddr /\ N.created = K.created
      BY <3>1 DEF ConnectionGroup
    <3> HIDE DEF N
    <3>3. get_client_addresses(N) = get_client_addresses(K)
      BY <3>2 DEF get_client_addresses
    <3>4. GoodGroup(N)
      BY <1>5, <3>2, <3>3 DEF Becomes, GoodGroup, DistinctLinks
    <3>5. Becomes(N, get_client_addresses(G), c.addr) /\ FreshGroup(N, lastRun)
      BY <1>5, <3>2, <3>3, <3>4 DEF Becomes, FreshGroup
    <3> QED
      BY <1>2, <1>5, <2>3, <3>2, <3>5, ForwardStep, Zenon
  <2> QED
    BY <2>1, <2>2, <2>3
<1> QED
  BY <1>1, <1>6, <1>7, <1>8, <1>9

LEMMA ServerStep ==
  ASSUME IInv, NEW g \in DOMAIN groups, NEW kind,
         groups[g].sock, handle_srt_data(g, kind)
  PROVE  GroupTable' /\ Entries' /\ clock' \in Nat /\ clock <= clock'
<1>1. lastRun' = lastRun /\ nextId' = nextId /\ clock \in Nat
  BY DEF handle_srt_data, InRound, IInv, Times
<1>2. CASE groups' = remove_group(g) /\ UNCHANGED <<entries, clock>>
  <2>1. GroupTable'
    BY <1>1, <1>2, RemoveStep DEF remove_group, IInv
  <2> QED
    BY <1>1, <1>2, <2>1 DEF IInv, Entries
<1>3. CASE groups' = [groups EXCEPT ![g].established = TRUE] /\ UNCHANGED <<entries, clock>>
  <2> DEFINE G == groups[g]
             H == [G EXCEPT !.established = TRUE]
  <2>1. GoodGroup(G) /\ FreshGroup(G, lastRun) /\ G \in ConnectionGroup
    BY DEF IInv, GroupTable, GoodGroup
  <2>2. /\ H \in ConnectionGroup /\ H.conns = G.conns /\ H.sock = G.sock
        /\ H.dataSeen = G.dataSeen /\ H.created = G.created
        /\ H.info = G.info /\ H.lastAddr = G.lastAddr
    BY <2>1, Zenon DEF ConnectionGroup
  <2>3. groups' = [groups EXCEPT ![g] = H]
    BY <1>3
  <2> HIDE DEF H
  <2>4. get_client_addresses(H) = get_client_addresses(G)
    BY <2>2 DEF get_client_addresses
  <2>5. GoodGroup(H)
    BY <2>1, <2>2, <2>4 DEF GoodGroup, DistinctLinks
  <2>6. Becomes(H, get_client_addresses(G), G.lastAddr) /\ FreshGroup(H, lastRun)
    BY <2>1, <2>2, <2>4, <2>5 DEF Becomes, FreshGroup
  <2>7. \A b \in get_client_addresses(G) \cup {G.lastAddr} :
          \A h \in DOMAIN groups : Claims(groups[h], b) => h = g
    BY OwnAddress DEF IInv
  <2>8. GroupTable'
    BY <1>1, <2>3, <2>6, <2>7, ReplaceStep, Zenon DEF IInv
  <2> QED
    BY <1>1, <1>3, <2>8 DEF IInv, Entries
<1>4. CASE /\ clock' \in clock .. MaxTime
           /\ Limiter!record_failure(IpOf[groups[g].lastAddr], clock')
           /\ groups' = remove_group(g)
  <2>1. GroupTable'
    BY <1>1, <1>4, RemoveStep DEF remove_group, IInv
  <2>2. clock' \in Nat /\ clock <= clock'
    BY <1>1, <1>4, ReceiverConstants
  <2>3. IpOf[groups[g].lastAddr] \in Ip
    BY ReceiverConstants DEF IInv, GroupTable, GoodGroup, ConnectionGroup
  <2>4. \A e \in Limiter!Entry : Limiter!Failed(e, clock') \in Limiter!Entry
    BY <2>2, ReceiverConstants DEF Limiter!Entry, Limiter!Failed
  <2>5. \A i \in Ip : Limiter!EntryOf(entries, i) \in Limiter!Entry
    BY DEF IInv, Entries, Limiter!EntryOf, Limiter!NoEntry, Limiter!Entry
  <2>6. Entries'
    BY <1>4, <2>3, <2>4, <2>5 DEF IInv, Entries, Limiter!record_failure
  <2> QED
    BY <2>1, <2>2, <2>6
<1>5. CASE UNCHANGED <<groups, entries, clock>>
  BY <1>1, <1>5 DEF IInv, GroupTable, Exclusive, Entries
<1> QED
  BY <1>2, <1>3, <1>4, <1>5 DEF handle_srt_data

LEMMA EndRoundStep ==
  ASSUME IInv, EndRound
  PROVE  IInv'
<1>1. /\ cleanup_inactive(ts) /\ Limiter!cleanup(ts)
      /\ phase' = "wait" /\ ts' = ts /\ clock' = clock
  BY DEF EndRound
<1>2. lastRun \in Nat /\ ts \in Nat /\ lastRun <= ts /\ ts > 0 /\ clock \in Nat /\ ts <= clock
  BY DEF IInv, Times
<1>3. GroupTable' /\ lastRun' \in Nat /\ lastRun' <= ts /\ ts < lastRun' + CLEANUP_PERIOD
  <2>1. CASE lastRun + CLEANUP_PERIOD > ts
    <3>1. UNCHANGED <<groups, lastRun, nextId>>
      BY <1>1, <2>1 DEF cleanup_inactive
    <3> QED
      BY <1>2, <2>1, <3>1, RegistryConstants DEF IInv, GroupTable, Exclusive
  <2>2. CASE ~(lastRun + CLEANUP_PERIOD > ts)
    <3>1. lastRun' = ts /\ nextId' = nextId /\ groups' = CleanGroups(ts)
      BY <1>1, <2>2 DEF cleanup_inactive
    <3>2. /\ DOMAIN groups' \subseteq DOMAIN groups
          /\ \A g \in DOMAIN groups' :
               /\ groups'[g] = CleanGroup(groups[g], ts)
               /\ ~Reapable(groups'[g], ts)
      BY <3>1 DEF CleanGroups
    <3>3. \A g \in DOMAIN groups' :
            /\ GoodGroup(groups'[g]) /\ FreshGroup(groups'[g], lastRun')
            /\ get_client_addresses(groups'[g]) \subseteq get_client_addresses(groups[g])
            /\ groups'[g].lastAddr = groups[g].lastAddr
      <4> SUFFICES ASSUME NEW g \in DOMAIN groups'
                   PROVE  /\ GoodGroup(groups'[g]) /\ FreshGroup(groups'[g], lastRun')
                          /\ get_client_addresses(groups'[g])
                               \subseteq get_client_addresses(groups[g])
                          /\ groups'[g].lastAddr = groups[g].lastAddr
        OBVIOUS
      <4>1. GoodGroup(groups[g])
        BY <3>2 DEF IInv, GroupTable
      <4> QED
        BY <1>2, <3>1, <3>2, <4>1, CleanGroupGood
    <3>4. GroupTable'
      BY <3>1, <3>2, <3>3, ShrinkStep DEF IInv
    <3> QED
      BY <1>2, <3>1, <3>4, RegistryConstants
  <2> QED
    BY <2>1, <2>2
<1>4. Entries'
  BY <1>1 DEF Limiter!cleanup, IInv, Entries
<1> QED
  BY <1>1, <1>2, <1>3, <1>4 DEF IInv, Times

LEMMA InvInit == Init => IInv
<1> SUFFICES ASSUME Init PROVE IInv
  OBVIOUS
<1>1. DOMAIN groups = {} /\ DOMAIN entries = {}
  BY DEF Init
<1>2. GroupTable
  <2>1. IsFiniteSet({}) /\ Cardinality({}) = 0 /\ MAX_GROUPS \in Nat /\ nextId = 1
    BY FS_EmptySet, RegistryConstants DEF Init
  <2>2. IsFiniteSet(DOMAIN groups) /\ Cardinality(DOMAIN groups) <= MAX_GROUPS
    BY <1>1, <2>1
  <2> QED
    BY <1>1, <2>1, <2>2 DEF GroupTable, Exclusive
<1>3. Times
  BY <1>1, ReceiverConstants DEF Init, Times
<1> QED
  BY <1>1, <1>2, <1>3 DEF IInv, Entries

LEMMA InvNext == IInv /\ [Next]_vars => IInv'
<1> SUFFICES ASSUME IInv, [Next]_vars PROVE IInv'
  OBVIOUS
<1>1. ASSUME InRound, clock' \in Nat, clock <= clock'
      PROVE  Times'
  BY <1>1 DEF IInv, Times, InRound
<1>2. ASSUME UNCHANGED <<entries, clock>>
      PROVE  Entries' /\ clock' \in Nat /\ clock <= clock'
  BY <1>2 DEF IInv, Entries, Times
<1>3. CASE EpollWait
  <2>1. GroupTable' /\ Entries'
    BY <1>3 DEF EpollWait, IInv, GroupTable, Exclusive, Entries
  <2>2. Times'
    BY <1>3, ReceiverConstants DEF EpollWait, IInv, Times
  <2> QED
    BY <2>1, <2>2 DEF IInv
<1>4. CASE EndRound
  BY <1>4, EndRoundStep
<1>5. ASSUME NEW a \in Addr, NEW reply, register_group(a, reply)
      PROVE  IInv'
  BY <1>1, <1>2, <1>5, RegisterGroupStep, Zenon DEF register_group, IInv
<1>6. ASSUME NEW a \in Addr, NEW id, NEW reply, register_connection(a, id, reply)
      PROVE  IInv'
  BY <1>1, <1>2, <1>6, RegisterConnectionStep DEF register_connection, IInv
<1>7. ASSUME NEW a \in Addr, process_single_packet(a)
      PROVE  IInv'
  BY <1>1, <1>2, <1>7, PacketStep DEF process_single_packet, IInv
<1>8. ASSUME NEW g \in DOMAIN groups, NEW kind, groups[g].sock, handle_srt_data(g, kind)
      PROVE  IInv'
  BY <1>1, <1>8, ServerStep DEF handle_srt_data, IInv
<1>9. CASE UNCHANGED vars
  BY <1>9 DEF vars, IInv, GroupTable, Exclusive, Times, Entries
<1> QED
  BY <1>3, <1>4, <1>5, <1>6, <1>7, <1>8, <1>9 DEF Next

LEMMA Invariance == Spec => []IInv
  BY InvInit, InvNext, PTL DEF Spec
-----------------------------------------------------------------------------
(***************************************************************************)
(* The variables of the receiver always have their types, and the numbers  *)
(* of groups are never reused.                                             *)
(***************************************************************************)
THEOREM TypeCorrect == Spec => []TypeOK
<1>1. IInv => TypeOK
  BY DEF IInv, GroupTable, GoodGroup, Times, Entries, TypeOK
<1> QED
  BY <1>1, Invariance, PTL

(***************************************************************************)
(* find_by_address is unambiguous: at most one group, and in it at most    *)
(* one connection, answers for an address.                                 *)
(***************************************************************************)
THEOREM LookupCorrect == Spec => []LookupUnambiguous
<1>1. IInv => LookupUnambiguous
  BY DEF IInv, GroupTable, Exclusive, GoodGroup, DistinctLinks, LookupUnambiguous
<1> QED
  BY <1>1, Invariance, PTL

\* Neither MAX_GROUPS nor MAX_CONNS_PER_GROUP is ever exceeded.
THEOREM LimitsCorrect == Spec => []WithinLimits
<1>1. IInv => WithinLimits
  BY DEF IInv, GroupTable, GoodGroup, WithinLimits
<1> QED
  BY <1>1, Invariance, PTL

\* Eviction and the short timeout never close a socket the epoll set knows.
THEOREM GhostsCorrect == Spec => []GhostsHaveNoSocket
<1>1. IInv => GhostsHaveNoSocket
  BY DEF IInv, GroupTable, GoodGroup, GhostsHaveNoSocket
<1> QED
  BY <1>1, Invariance, PTL

\* The socket info file always lists the connections of its group.
THEOREM InfoFileCorrect == Spec => []InfoFileCurrent
<1>1. IInv => InfoFileCurrent
  BY DEF IInv, GroupTable, GoodGroup, InfoFileCurrent
<1> QED
  BY <1>1, Invariance, PTL

\* The log of unacknowledged packets stays below RECV_ACK_INT entries.
THEOREM RecvLogCorrect == Spec => []RecvLogBounded
<1>1. IInv => RecvLogBounded
  BY DEF IInv, GroupTable, GoodGroup, RecvLogBounded
<1> QED
  BY <1>1, Invariance, PTL

(***************************************************************************)
(* Silent connections, unresolved recoveries and empty groups are gone     *)
(* within their timeout plus CLEANUP_PERIOD, however long the loop stalls. *)
(***************************************************************************)
THEOREM ReapingCorrect == Spec => []ReapedInTime
<1>1. IInv => ReapedInTime
  <2> SUFFICES ASSUME IInv, phase = "wait", NEW g \in DOMAIN groups
               PROVE  /\ \A c \in groups[g].conns :
                           /\ ts - c.lastRcvd < CONN_TIMEOUT + CLEANUP_PERIOD
                           /\ c.recStart > 0 =>
                                ts - c.recStart < RECOVERY_CHANCE_PERIOD + CLEANUP_PERIOD
                      /\ groups[g].conns = {} =>
                           ts - groups[g].created < CLEANUP_PERIOD +
                             (IF groups[g].dataSeen THEN GROUP_TIMEOUT
                                                    ELSE PENDING_GROUP_TIMEOUT)
    BY DEF ReapedInTime
  <2>1. ts \in Nat /\ lastRun \in Nat /\ ts < lastRun + CLEANUP_PERIOD
    BY DEF IInv, Times
  <2>2. groups[g] \in ConnectionGroup /\ FreshGroup(groups[g], lastRun)
    BY DEF IInv, GroupTable, GoodGroup
  <2>3. groups[g].created \in Nat /\ groups[g].conns \in SUBSET Connection
    BY <2>2 DEF ConnectionGroup
  <2>4. \A c \in groups[g].conns :
          c.lastRcvd \in Nat /\ c.recStart \in Nat /\ FreshConn(c, lastRun)
    BY <2>2, <2>3 DEF Connection, FreshGroup
  <2>5. {CLEANUP_PERIOD, GROUP_TIMEOUT, PENDING_GROUP_TIMEOUT, CONN_TIMEOUT,
         RECOVERY_CHANCE_PERIOD} \subseteq Nat
    BY RegistryConstants
  <2>6. ASSUME NEW c \in groups[g].conns
        PROVE  /\ ts - c.lastRcvd < CONN_TIMEOUT + CLEANUP_PERIOD
               /\ c.recStart > 0 =>
                    ts - c.recStart < RECOVERY_CHANCE_PERIOD + CLEANUP_PERIOD
    BY <2>1, <2>4, <2>5 DEF FreshConn
  <2>7. groups[g].conns = {} =>
          ts - groups[g].created < CLEANUP_PERIOD +
            (IF groups[g].dataSeen THEN GROUP_TIMEOUT ELSE PENDING_GROUP_TIMEOUT)
    BY <2>1, <2>2, <2>3, <2>5 DEF FreshGroup
  <2> QED
    BY <2>6, <2>7
<1> QED
  BY <1>1, Invariance, PTL
-----------------------------------------------------------------------------
(***************************************************************************)
(* The receiver implements the directory of bonds, and it never loses a    *)
(* live link except with its bond and to the bond's own traffic.           *)
(*                                                                         *)
(* First, what each action does to the table of groups, in one of six      *)
(* ways (Effect); then, what each way means for the directory and for the  *)
(* live links.  The invariant is IInv, with one addition: no connection    *)
(* was heard after the time of the round.                                  *)
(***************************************************************************)
\* The same links, each as it was or heard now, and a socket if there was one.
SameLinks(G, H) ==
  /\ G.sock => H.sock
  /\ get_client_addresses(H) = get_client_addresses(G)
  /\ \A c \in G.conns : \E d \in H.conns :
       d.addr = c.addr /\ d.lastRcvd \in {c.lastRcvd, ts}
  /\ \A d \in H.conns : d.lastRcvd = ts \/ \E c \in G.conns : d.lastRcvd = c.lastRcvd

\* The ways the table changes, or does not.
Same == groups' = groups /\ nextId' = nextId

Updated(g) ==
  /\ \E H : SameLinks(groups[g], H) /\ groups' = [groups EXCEPT ![g] = H]
  /\ nextId' = nextId

Removed(g) == groups' = remove_group(g) /\ nextId' = nextId

Entered(a, g) ==
  /\ \A h \in DOMAIN groups : a \notin get_client_addresses(groups[h])
  /\ ~(Cardinality(groups[g].conns) >= MAX_CONNS_PER_GROUP)
  /\ \E H : /\ H.conns = groups[g].conns \cup {NewConnection(a, ts)}
            /\ H.sock = groups[g].sock
            /\ groups' = [groups EXCEPT ![g] = H]
  /\ nextId' = nextId

Evicted == \E room \in Rooms : groups' = [g \in room |-> groups[g]] /\ nextId' = nextId

Opened ==
  /\ \E room \in Rooms : \E G :
       /\ G.conns = {}
       /\ groups' = [g \in room \cup {nextId} |-> IF g = nextId THEN G ELSE groups[g]]
  /\ nextId' = nextId + 1

Cleaned == groups' = CleanGroups(ts) /\ nextId' = nextId

Effect ==
  \/ Same \/ Evicted \/ Opened \/ Cleaned
  \/ \E g \in DOMAIN groups : Updated(g) \/ Removed(g) \/ \E a \in Addr : Entered(a, g)
-----------------------------------------------------------------------------
LEMMA RegisterGroupEffect ==
  ASSUME NEW a, NEW reply, register_group(a, reply)
  PROVE  Same \/ Evicted \/ Opened
<1>1. NewGroup(a, ts).conns = {}
  BY DEF NewGroup
<1>2. CASE UNCHANGED <<groups, nextId>>
  BY <1>2 DEF Same
<1>3. CASE \E room \in Rooms : groups' = [g \in room |-> groups[g]] /\ nextId' = nextId
  BY <1>3 DEF Evicted
<1>4. CASE \E room \in Rooms :
             /\ groups' = [g \in room \cup {nextId} |->
                             IF g = nextId THEN NewGroup(a, ts) ELSE groups[g]]
             /\ nextId' = nextId + 1
  BY <1>1, <1>4 DEF Opened
<1> QED
  BY <1>2, <1>3, <1>4, Zenon DEF register_group

LEMMA RegisterConnectionEffect ==
  ASSUME IInv, NEW a \in Addr, NEW id, NEW reply, register_connection(a, id, reply)
  PROVE  Same \/ \E g \in DOMAIN groups : Updated(g) \/ Entered(a, g)
<1>1. nextId' = nextId /\ ts \in Nat
  BY DEF register_connection, IInv, Times
<1>2. CASE UNCHANGED groups
  BY <1>1, <1>2 DEF Same
<1>3. CASE /\ id \in DOMAIN groups
           /\ ~BelongsElsewhere(a, id)
           /\ \/ a \in get_client_addresses(groups[id])
              \/ ~(Cardinality(groups[id].conns) >= MAX_CONNS_PER_GROUP)
           /\ groups' = [groups EXCEPT ![id] = Joined(groups[id], a, ts)]
  <2> DEFINE G == groups[id]
             J == Joined(G, a, ts)
  <2>1. GoodGroup(G) /\ G \in ConnectionGroup
    BY <1>3 DEF IInv, GroupTable, GoodGroup
  <2>2. /\ J.conns = IF a \in get_client_addresses(G) THEN G.conns
                     ELSE G.conns \cup {NewConnection(a, ts)}
        /\ J.sock = G.sock
    <3> DEFINE n == NewConnection(a, ts)
               A == Admit(G, a, ts)
    <3>1. n \in Connection
      BY <1>1, NewConnectionType
    <3> HIDE DEF n
    <3>2. /\ A \in ConnectionGroup /\ A.sock = G.sock
          /\ A.conns = IF a \in get_client_addresses(G) THEN G.conns ELSE G.conns \cup {n}
      BY <2>1, <3>1 DEF Admit, ConnectionGroup, n
    <3> HIDE DEF A
    <3>3. /\ write_socket_info_file(A) \in ConnectionGroup
          /\ write_socket_info_file(A).conns = A.conns
          /\ write_socket_info_file(A).sock = A.sock
      BY <3>2, WriteInfoGood
    <3>4. /\ J.conns = write_socket_info_file(A).conns
          /\ J.sock = write_socket_info_file(A).sock
      BY <3>3 DEF Joined, A, ConnectionGroup
    <3> QED
      BY <3>2, <3>3, <3>4 DEF n
  <2>3. groups' = [groups EXCEPT ![id] = J]
    BY <1>3
  <2> HIDE DEF J
  <2>4. CASE a \in get_client_addresses(G)
    <3>1. SameLinks(G, J)
      BY <2>2, <2>4 DEF SameLinks, get_client_addresses
    <3> QED
      BY <1>1, <1>3, <2>3, <3>1, Zenon DEF Updated
  <2>5. CASE a \notin get_client_addresses(G)
    <3>1. \A h \in DOMAIN groups : a \notin get_client_addresses(groups[h])
      <4>1. \A h \in DOMAIN groups : Claims(groups[h], a) => h = id
        BY <1>3, NotElsewhere DEF IInv
      <4> QED
        BY <2>5, <4>1 DEF Claims
    <3>2. J.conns = G.conns \cup {NewConnection(a, ts)} /\ J.sock = G.sock
      BY <2>2, <2>5
    <3> QED
      BY <1>1, <1>3, <2>3, <2>5, <3>1, <3>2, Zenon DEF Entered
  <2> QED
    BY <2>4, <2>5
<1> QED
  BY <1>2, <1>3 DEF register_connection, Joined

\* A group whose connection c became d, heard now.
LEMMA HeardEffect ==
  ASSUME NEW G, NEW c \in G.conns, NEW d, d.addr = c.addr, d.lastRcvd = ts,
         NEW H, H.conns = (G.conns \ {c}) \cup {d}, G.sock => H.sock
  PROVE  SameLinks(G, H)
<1>1. \A e \in G.conns : e = c \/ e \in H.conns
  OBVIOUS
<1>2. d \in H.conns /\ \A e \in H.conns : e = d \/ e \in G.conns
  OBVIOUS
<1>3. {e.addr : e \in H.conns} = {e.addr : e \in G.conns}
  BY <1>1, <1>2
<1>4. \A e \in G.conns : \E f \in H.conns :
        f.addr = e.addr /\ f.lastRcvd \in {e.lastRcvd, ts}
  BY <1>1, <1>2
<1> QED
  BY <1>2, <1>3, <1>4 DEF SameLinks, get_client_addresses

\* The same for what forward_to_srt_server leaves.
LEMMA ForwardEffect ==
  ASSUME NEW g \in DOMAIN groups, nextId' = nextId, NEW K, GoodGroup(K), K.dataSeen,
         NEW c \in groups[g].conns, NEW d, d.addr = c.addr, d.lastRcvd = ts,
         K.conns = (groups[g].conns \ {c}) \cup {d}, groups[g].sock => K.sock,
         forward_to_srt_server(g, K)
  PROVE  Updated(g) \/ Removed(g)
<1>1. ensure_group_socket(K).conns = K.conns
  BY EnsureSocketGood
<1>2. groups[g].sock => ensure_group_socket(K).sock
  BY DEF ensure_group_socket
<1>3. SameLinks(groups[g], ensure_group_socket(K))
  BY <1>1, <1>2, HeardEffect
<1> QED
  BY <1>3 DEF forward_to_srt_server, Updated, Removed

LEMMA PacketEffect ==
  ASSUME IInv, NEW a \in Addr, process_single_packet(a)
  PROVE  \E g \in DOMAIN groups : Claims(groups[g], a) /\ (Updated(g) \/ Removed(g))
<1>0. PICK g \in DOMAIN groups : \E c \in groups[g].conns :
        /\ c.addr = a
        /\ \/ receive_keepalive(g, c)
           \/ \E sn \in Sn : receive_data(g, c, sn)
           \/ receive_control(g, c)
           \/ \E h \in Hash : receive_nak(g, c, h)
  BY DEF process_single_packet, Source
<1>1. PICK c \in groups[g].conns :
        /\ c.addr = a
        /\ \/ receive_keepalive(g, c)
           \/ \E sn \in Sn : receive_data(g, c, sn)
           \/ receive_control(g, c)
           \/ \E h \in Hash : receive_nak(g, c, h)
  BY <1>0
<1>2. nextId' = nextId /\ ts \in Nat
  BY Zenon DEF process_single_packet, IInv, Times
<1> DEFINE G == groups[g]
           d == Heard(c, ts)
           W == WithConn(G, c, d)
           K == Streaming(W, c.addr)
<1>3. c \in Connection /\ Len(c.recv) < RECV_ACK_INT /\ GoodGroup(G)
  BY Zenon DEF IInv, GroupTable, GoodGroup, ConnectionGroup
<1>4. d \in Connection /\ d.addr = c.addr /\ Len(d.recv) < RECV_ACK_INT /\ d.lastRcvd = ts
  BY <1>2, <1>3, HeardType, Zenon
<1>5. c.addr \in Addr
  BY <1>3 DEF Connection
<1> HIDE DEF d
<1>6. ASSUME NEW e \in Connection, e.addr = c.addr, Len(e.recv) < RECV_ACK_INT
      PROVE  /\ WithConn(G, c, e).conns = (G.conns \ {c}) \cup {e}
             /\ WithConn(G, c, e).sock = G.sock
             /\ Streaming(WithConn(G, c, e), c.addr).sock = G.sock
             /\ GoodGroup(Streaming(WithConn(G, c, e), c.addr))
             /\ Streaming(WithConn(G, c, e), c.addr).dataSeen
             /\ Streaming(WithConn(G, c, e), c.addr).conns = (G.conns \ {c}) \cup {e}
  <2>1. /\ GoodGroup(WithConn(G, c, e))
        /\ WithConn(G, c, e).conns = (G.conns \ {c}) \cup {e}
    <3>1. /\ Becomes(WithConn(G, c, e), get_client_addresses(G), G.lastAddr)
          /\ WithConn(G, c, e).conns = (G.conns \ {c}) \cup {e}
      BY <1>3, <1>6, WithConnGood
    <3> QED
      BY <3>1, Zenon DEF Becomes
  <2>2. WithConn(G, c, e).sock = G.sock
    BY <1>3 DEF WithConn, GoodGroup, ConnectionGroup
  <2>3. Streaming(WithConn(G, c, e), c.addr).sock = WithConn(G, c, e).sock
    BY <2>1 DEF Streaming, GoodGroup, ConnectionGroup
  <2> QED
    BY <1>5, <2>1, <2>2, <2>3, StreamingGood, Zenon DEF Becomes
<1>7. /\ W.conns = (G.conns \ {c}) \cup {d} /\ K.conns = (G.conns \ {c}) \cup {d}
      /\ GoodGroup(K) /\ K.dataSeen /\ W.sock = G.sock /\ K.sock = G.sock
  BY <1>4, <1>6, Zenon
<1>8. CASE receive_keepalive(g, c)
  <2>1. groups' = [groups EXCEPT ![g] = W]
    BY <1>8 DEF receive_keepalive, d
  <2> HIDE DEF W
  <2>2. SameLinks(G, W)
    BY <1>4, <1>7, HeardEffect, Zenon
  <2> QED
    BY <1>1, <1>2, <2>1, <2>2, Zenon DEF Updated, Claims, get_client_addresses
<1>9. ASSUME NEW sn \in Sn, receive_data(g, c, sn)
      PROVE  Updated(g) \/ Removed(g)
  <2> DEFINE e == register_packet(d, sn)
             P == Streaming(WithConn(G, c, e), c.addr)
  <2>1. e \in Connection /\ e.addr = c.addr /\ Len(e.recv) < RECV_ACK_INT /\ e.lastRcvd = ts
    BY <1>4, RegisterPacketType, Zenon
  <2>2. forward_to_srt_server(g, P)
    BY <1>9 DEF receive_data, d
  <2> HIDE DEF e
  <2>3. /\ GoodGroup(P) /\ P.dataSeen /\ P.sock = G.sock
        /\ P.conns = (G.conns \ {c}) \cup {e}
    BY <1>6, <2>1
  <2> HIDE DEF P
  <2> QED
    BY <1>2, <2>1, <2>2, <2>3, ForwardEffect, Zenon
<1>10. CASE receive_control(g, c)
  <2>1. forward_to_srt_server(g, K)
    BY <1>10 DEF receive_control, d
  <2> HIDE DEF K
  <2>2. Updated(g) \/ Removed(g)
    BY <1>2, <1>4, <1>7, <2>1, ForwardEffect
  <2> QED
    BY <1>1, <2>2, Zenon DEF Claims, get_client_addresses
<1>11. ASSUME NEW h \in Hash, receive_nak(g, c, h)
       PROVE  Updated(g) \/ Removed(g)
  <2> DEFINE N == [K EXCEPT !.naks[h] = @ + 1]
  <2>1. \/ groups' = [groups EXCEPT ![g] = K]
        \/ forward_to_srt_server(g, N)
    BY <1>11 DEF receive_nak, d
  <2> HIDE DEF K
  <2>2. CASE groups' = [groups EXCEPT ![g] = K]
    <3>1. SameLinks(G, K)
      BY <1>4, <1>7, HeardEffect
    <3> QED
      BY <1>2, <2>2, <3>1, Zenon DEF Updated
  <2>3. CASE forward_to_srt_server(g, N)
    <3>1. K \in ConnectionGroup
      BY <1>7 DEF GoodGroup
    <3>2. /\ N \in ConnectionGroup /\ N.conns = K.conns /\ N.sock = K.sock
          /\ N.dataSeen = K.dataSeen /\ N.established = K.established
          /\ N.info = K.info /\ N.lastAddr = K.lastAddr /\ N.created = K.created
      BY <3>1 DEF ConnectionGroup
    <3> HIDE DEF N
    <3>3. get_client_addresses(N) = get_client_addresses(K)
      BY <3>2 DEF get_client_addresses
    <3>4. GoodGroup(N) /\ N.dataSeen /\ N.sock = G.sock /\ N.conns = (G.conns \ {c}) \cup {d}
      BY <1>7, <3>2, <3>3 DEF GoodGroup, DistinctLinks
    <3> QED
      BY <1>2, <1>4, <2>3, <3>4, ForwardEffect
  <2> QED
    BY <2>1, <2>2, <2>3
<1>12. Claims(groups[g], a)
  BY <1>1 DEF Claims, get_client_addresses
<1> QED
  BY <1>1, <1>8, <1>9, <1>10, <1>11, <1>12

LEMMA ServerEffect ==
  ASSUME NEW g \in DOMAIN groups, NEW kind, handle_srt_data(g, kind)
  PROVE  Same \/ Removed(g) \/ Updated(g)
<1>1. nextId' = nextId
  BY DEF handle_srt_data
<1>2. CASE groups' = remove_group(g)
  BY <1>1, <1>2 DEF Removed
<1>3. CASE groups' = [groups EXCEPT ![g].established = TRUE]
  <2>1. /\ [groups[g] EXCEPT !.established = TRUE].conns = groups[g].conns
        /\ [groups[g] EXCEPT !.established = TRUE].sock = groups[g].sock
    OBVIOUS
  <2>2. SameLinks(groups[g], [groups[g] EXCEPT !.established = TRUE])
    BY <2>1 DEF SameLinks, get_client_addresses
  <2> QED
    BY <1>1, <1>3, <2>2, Zenon DEF Updated
<1>4. CASE groups' = groups
  BY <1>1, <1>4 DEF Same
<1> QED
  BY <1>2, <1>3, <1>4 DEF handle_srt_data

LEMMA NextEffect ==
  ASSUME IInv, [Next]_vars
  PROVE  Effect
<1>1. CASE EpollWait
  BY <1>1 DEF EpollWait, Effect, Same
<1>2. CASE EndRound
  BY <1>2 DEF EndRound, cleanup_inactive, Effect, Same, Cleaned
<1>3. ASSUME NEW a \in Addr, NEW reply, register_group(a, reply)
      PROVE  Effect
  BY <1>3, RegisterGroupEffect DEF Effect
<1>4. ASSUME NEW a \in Addr, NEW id, NEW reply, register_connection(a, id, reply)
      PROVE  Effect
  BY <1>4, RegisterConnectionEffect DEF Effect
<1>5. ASSUME NEW a \in Addr, process_single_packet(a)
      PROVE  Effect
  BY <1>5, PacketEffect DEF Effect
<1>6. ASSUME NEW g \in DOMAIN groups, NEW kind, handle_srt_data(g, kind)
      PROVE  Effect
  BY <1>6, ServerEffect DEF Effect
<1>7. CASE UNCHANGED vars
  BY <1>7 DEF vars, Effect, Same
<1> QED
  BY <1>1, <1>2, <1>3, <1>4, <1>5, <1>6, <1>7 DEF Next
-----------------------------------------------------------------------------
(***************************************************************************)
(* What the ways the table changes mean for the directory.                 *)
(***************************************************************************)
LEMMA MembersAre ==
  /\ \A m : m \in Members <=>
       \E g \in DOMAIN groups : \E a \in get_client_addresses(groups[g]) : m = <<a, g>>
  /\ \A m : m \in Members' <=>
       \E g \in DOMAIN groups' : \E a \in get_client_addresses(groups'[g]) : m = <<a, g>>
BY DEF Members, get_client_addresses

\* The directory counts as the receiver does.
LEMMA SameCardinality == \A S : Directory!Cardinality(S) = Cardinality(S)
BY DEF Directory!Cardinality, Cardinality

\* Groups that stay as they are, or have the same addresses, keep their members.
LEMMA SameMembers ==
  ASSUME NEW S \in SUBSET DOMAIN groups, DOMAIN groups' = S,
         \A g \in S : get_client_addresses(groups'[g]) = get_client_addresses(groups[g])
  PROVE  Members' = {m \in Members : m[2] \in S}
<1> SUFFICES ASSUME NEW m
             PROVE  m \in Members' <=> m \in Members /\ m[2] \in S
  OBVIOUS
<1> QED
  BY MembersAre

LEMMA UpdatedKeeps ==
  ASSUME NEW g \in DOMAIN groups, Updated(g)
  PROVE  UNCHANGED <<DOMAIN groups, Members, nextId>>
<1>1. /\ DOMAIN groups' = DOMAIN groups /\ nextId' = nextId
      /\ \A h \in DOMAIN groups :
           get_client_addresses(groups'[h]) = get_client_addresses(groups[h])
  BY DEF Updated, SameLinks
<1>2. Members' = {m \in Members : m[2] \in DOMAIN groups}
  BY <1>1, SameMembers
<1>3. \A m \in Members : m[2] \in DOMAIN groups
  BY MembersAre
<1> QED
  BY <1>1, <1>2, <1>3

LEMMA RemovedCloses ==
  ASSUME NEW g \in DOMAIN groups, Removed(g)
  PROVE  Directory!Close(g)
<1>1. /\ DOMAIN groups' = DOMAIN groups \ {g} /\ nextId' = nextId
      /\ \A h \in DOMAIN groups' : groups'[h] = groups[h]
  BY DEF Removed, remove_group
<1>2. Members' = {m \in Members : m[2] \in DOMAIN groups \ {g}}
  BY <1>1, SameMembers
<1>3. \A m \in Members : m[2] \in DOMAIN groups
  BY MembersAre
<1> QED
  BY <1>1, <1>2, <1>3 DEF Directory!Close, Directory!LinksOf

\* As many pairs as a group has connections, at most.
LEMMA LinksCounted ==
  ASSUME NEW g \in DOMAIN groups, GoodGroup(groups[g]),
         ~(Cardinality(groups[g].conns) >= MAX_CONNS_PER_GROUP)
  PROVE  ~(Cardinality(Directory!LinksOf(g)) >= MAX_CONNS_PER_GROUP)
<1> DEFINE C == groups[g].conns
           L == Directory!LinksOf(g)
           f == [c \in C |-> <<c.addr, g>>]
<1>1. IsFiniteSet(C)
  BY DEF GoodGroup
<1>2. L = {<<c.addr, g>> : c \in C}
  BY MembersAre DEF Directory!LinksOf, get_client_addresses
<1>3. f \in Surjection(C, L)
  BY <1>2 DEF Surjection
<1>4. IsFiniteSet(L) /\ Cardinality(L) <= Cardinality(C)
  <2> HIDE DEF C, L, f
  <2> QED
    BY <1>1, <1>3, FS_Surjection
<1> QED
  BY <1>1, <1>4, FS_CardinalityType, RegistryConstants

LEMMA EnteredJoins ==
  ASSUME NEW g \in DOMAIN groups, GoodGroup(groups[g]), ts \in Nat,
         NEW a \in Addr, Entered(a, g)
  PROVE  Directory!Join(a, g)
<1>1. PICK H : /\ H.conns = groups[g].conns \cup {NewConnection(a, ts)}
               /\ groups' = [groups EXCEPT ![g] = H]
  BY Zenon DEF Entered
<1>2. NewConnection(a, ts).addr = a
  BY NewConnectionType
<1>3. get_client_addresses(H) = get_client_addresses(groups[g]) \cup {a}
  BY <1>1, <1>2 DEF get_client_addresses
<1>4. /\ DOMAIN groups' = DOMAIN groups /\ groups'[g] = H /\ nextId' = nextId
      /\ \A h \in DOMAIN groups : h # g => groups'[h] = groups[h]
  BY <1>1 DEF Entered
<1>5. Members' = Members \cup {<<a, g>>}
  <2> SUFFICES ASSUME NEW m
               PROVE  m \in Members' <=> m \in Members \/ m = <<a, g>>
    OBVIOUS
  <2> QED
    BY <1>3, <1>4, MembersAre
<1>6. \A m \in Members : m[1] # a
  BY MembersAre DEF Entered
<1>7. ~(Cardinality(Directory!LinksOf(g)) >= MAX_CONNS_PER_GROUP)
  BY LinksCounted DEF Entered
<1> QED
  BY <1>4, <1>5, <1>6, <1>7, SameCardinality DEF Directory!Join

\* The group that is evicted for room has no members.
LEMMA RoomMade ==
  ASSUME NEW room \in Rooms
  PROVE  /\ room \in SUBSET DOMAIN groups /\ Directory!MakesRoom(room)
         /\ \A m \in Members : m[2] \in room
<1>1. \A m \in Members : m[2] \in DOMAIN groups
  BY MembersAre
<1>2. CASE ~TableFull
  BY <1>1, <1>2, SameCardinality DEF Rooms, TableFull, Directory!MakesRoom
<1>3. CASE TableFull
  <2>1. PICK g \in Ghosts : room = DOMAIN groups \ {g}
    BY <1>3 DEF Rooms
  <2>2. g \in DOMAIN groups /\ get_client_addresses(groups[g]) = {}
    BY DEF Ghosts, get_client_addresses
  <2>3. \A m \in Members : m[2] # g
    BY <2>2, MembersAre
  <2> QED
    BY <1>1, <1>3, <2>1, <2>2, <2>3, SameCardinality
    DEF TableFull, Directory!MakesRoom, Directory!LinksOf
<1> QED
  BY <1>2, <1>3

LEMMA EvictedSweeps ==
  ASSUME Evicted
  PROVE  Directory!Sweep
<1>1. PICK room \in Rooms : groups' = [g \in room |-> groups[g]] /\ nextId' = nextId
  BY DEF Evicted
<1>2. room \in SUBSET DOMAIN groups /\ \A m \in Members : m[2] \in room
  BY RoomMade
<1>3. DOMAIN groups' = room /\ \A g \in room : groups'[g] = groups[g]
  BY <1>1
<1>4. Members' = {m \in Members : m[2] \in room}
  BY <1>2, <1>3, SameMembers
<1> QED
  BY <1>1, <1>2, <1>3, <1>4 DEF Directory!Sweep

LEMMA OpenedOpens ==
  ASSUME GroupTable, Opened
  PROVE  Directory!Open
<1>1. PICK room \in Rooms : \E G :
        /\ G.conns = {}
        /\ groups' = [g \in room \cup {nextId} |-> IF g = nextId THEN G ELSE groups[g]]
  BY DEF Opened
<1>2. PICK G :
        /\ G.conns = {}
        /\ groups' = [g \in room \cup {nextId} |-> IF g = nextId THEN G ELSE groups[g]]
  BY <1>1
<1>3. /\ room \in SUBSET DOMAIN groups /\ Directory!MakesRoom(room)
      /\ \A m \in Members : m[2] \in room
  BY RoomMade
<1>4. nextId \in Nat /\ nextId' = nextId + 1 /\ nextId \notin room
  BY <1>3 DEF GroupTable, Opened
<1>5. /\ DOMAIN groups' = room \cup {nextId}
      /\ get_client_addresses(groups'[nextId]) = {}
      /\ \A g \in room : groups'[g] = groups[g]
  BY <1>2, <1>4 DEF get_client_addresses
<1>6. Members' = Members
  <2> SUFFICES ASSUME NEW m
               PROVE  m \in Members' <=> m \in Members
    OBVIOUS
  <2> QED
    BY <1>3, <1>5, MembersAre
<1>7. (nextId - 1) + 1 = nextId /\ nextId' - 1 = (nextId - 1) + 1
  BY <1>4
<1> QED
  BY <1>3, <1>5, <1>6, <1>7 DEF Directory!Open

\* What the cleanup leaves of a group: its live connections, settled.
LEMMA CleanConns ==
  ASSUME NEW G \in ConnectionGroup, NEW t \in Nat
  PROVE  /\ \A c \in G.conns : ~conn_timed_out(c, t) =>
              \E d \in CleanGroup(G, t).conns : d.addr = c.addr /\ d.lastRcvd = c.lastRcvd
         /\ \A d \in CleanGroup(G, t).conns :
              \E c \in G.conns : d.addr = c.addr /\ d.lastRcvd = c.lastRcvd
         /\ CleanGroup(G, t).sock = G.sock
<1> DEFINE alive == {c \in G.conns : ~conn_timed_out(c, t)}
           C == {SettleRecovery(c, t) : c \in alive}
           K == [G EXCEPT !.conns = C]
<1>1. \A c \in G.conns : c \in Connection
  BY DEF ConnectionGroup
<1>2. \A c \in alive : /\ SettleRecovery(c, t) \in Connection
                       /\ SettleRecovery(c, t).addr = c.addr
                       /\ SettleRecovery(c, t).lastRcvd = c.lastRcvd
  BY <1>1, SettleRecoveryType
<1>3. CleanGroup(G, t) = IF alive = G.conns THEN K ELSE write_socket_info_file(K)
  BY DEF CleanGroup
<1>4. C \in SUBSET Connection
  BY <1>2
<1>5. /\ \A c \in alive : SettleRecovery(c, t) \in C
      /\ \A d \in C : \E c \in alive : d = SettleRecovery(c, t)
  OBVIOUS
<1> HIDE DEF C
<1>6. K \in ConnectionGroup /\ K.conns = C /\ K.sock = G.sock
  BY <1>4 DEF ConnectionGroup
<1> HIDE DEF K
<1>7. CleanGroup(G, t).conns = C /\ CleanGroup(G, t).sock = G.sock
  BY <1>3, <1>6, WriteInfoGood
<1> QED
  BY <1>2, <1>5, <1>7

\* A group with a live connection is not reaped.
LEMMA CleanedKeeps ==
  ASSUME IInv, Cleaned, NEW g \in DOMAIN groups, NEW c \in groups[g].conns,
         ~conn_timed_out(c, ts)
  PROVE  /\ g \in DOMAIN groups'
         /\ \E d \in groups'[g].conns : d.addr = c.addr /\ d.lastRcvd = c.lastRcvd
<1>1. groups[g] \in ConnectionGroup /\ ts \in Nat
  BY DEF IInv, GroupTable, GoodGroup, Times
<1>2. \E d \in CleanGroup(groups[g], ts).conns : d.addr = c.addr /\ d.lastRcvd = c.lastRcvd
  BY <1>1, CleanConns
<1>3. ~Reapable(CleanGroup(groups[g], ts), ts)
  BY <1>2 DEF Reapable
<1> QED
  BY <1>2, <1>3 DEF Cleaned, CleanGroups

LEMMA CleanedGroups ==
  ASSUME IInv, Cleaned
  PROVE  /\ DOMAIN groups' \subseteq DOMAIN groups
         /\ \A g \in DOMAIN groups' : \A d \in groups'[g].conns :
              \E c \in groups[g].conns : d.addr = c.addr /\ d.lastRcvd = c.lastRcvd
         /\ \A g \in DOMAIN groups' : groups'[g].sock = groups[g].sock
<1>1. /\ DOMAIN groups' \subseteq DOMAIN groups
      /\ \A g \in DOMAIN groups' : groups'[g] = CleanGroup(groups[g], ts)
  BY DEF Cleaned, CleanGroups
<1>2. ts \in Nat /\ \A g \in DOMAIN groups : groups[g] \in ConnectionGroup
  BY DEF IInv, GroupTable, GoodGroup, Times
<1> QED
  BY <1>1, <1>2, CleanConns

LEMMA CleanedSweeps ==
  ASSUME IInv, Cleaned
  PROVE  Directory!Sweep
<1>1. DOMAIN groups' \subseteq DOMAIN groups /\ nextId' = nextId
  BY CleanedGroups DEF Cleaned
<1>2. Members' \subseteq Members
  <2> SUFFICES ASSUME NEW g \in DOMAIN groups', NEW a \in get_client_addresses(groups'[g])
               PROVE  g \in DOMAIN groups /\ a \in get_client_addresses(groups[g])
    BY MembersAre
  <2> QED
    BY CleanedGroups DEF get_client_addresses
<1>3. \A m \in Members' : m[2] \in DOMAIN groups'
  BY MembersAre
<1>4. ASSUME NEW g \in DOMAIN groups, NEW c \in groups[g].conns,
             <<c.addr, g>> \notin Members'
      PROVE  c.addr \in Silent
  <2>1. CASE conn_timed_out(c, ts)
    BY <2>1 DEF Silent
  <2>2. CASE ~conn_timed_out(c, ts)
    <3>1. g \in DOMAIN groups' /\ c.addr \in get_client_addresses(groups'[g])
      BY <2>2, CleanedKeeps DEF get_client_addresses
    <3> QED
      BY <1>4, <3>1, MembersAre
  <2> QED
    BY <2>1, <2>2
<1>5. \A m \in Members \ Members' : m[1] \in Silent
  <2> SUFFICES ASSUME NEW m \in Members, m \notin Members'
               PROVE  m[1] \in Silent
    OBVIOUS
  <2>1. PICK g \in DOMAIN groups : \E a \in get_client_addresses(groups[g]) : m = <<a, g>>
    BY MembersAre
  <2>2. PICK c \in groups[g].conns : m = <<c.addr, g>>
    BY <2>1 DEF get_client_addresses
  <2> QED
    BY <1>4, <2>2
<1> QED
  BY <1>1, <1>2, <1>3, <1>5 DEF Directory!Sweep

LEMMA DirectoryStep ==
  ASSUME IInv, [Next]_vars
  PROVE  [Directory!Next]_(Directory!directory)
<1>1. Effect
  BY NextEffect
<1>2. CASE Same
  <2>1. UNCHANGED <<DOMAIN groups, Members, nextId>>
    BY <1>2 DEF Same, Members, get_client_addresses
  <2> QED
    BY <2>1 DEF Directory!directory
<1>3. CASE Evicted
  BY <1>3, EvictedSweeps DEF Directory!Next
<1>4. CASE Opened
  BY <1>4, OpenedOpens DEF IInv, Directory!Next
<1>5. CASE Cleaned
  BY <1>5, CleanedSweeps DEF Directory!Next
<1>6. ASSUME NEW g \in DOMAIN groups, Updated(g)
      PROVE  UNCHANGED Directory!directory
  BY <1>6, UpdatedKeeps DEF Directory!directory
<1>7. ASSUME NEW g \in DOMAIN groups, Removed(g)
      PROVE  Directory!Next
  BY <1>7, RemovedCloses DEF Directory!Next
<1>8. ASSUME NEW g \in DOMAIN groups, NEW a \in Addr, Entered(a, g)
      PROVE  Directory!Next
  <2>1. GoodGroup(groups[g]) /\ ts \in Nat
    BY DEF IInv, GroupTable, Times
  <2> QED
    BY <1>8, <2>1, EnteredJoins DEF Directory!Next
<1> QED
  BY <1>1, <1>2, <1>3, <1>4, <1>5, <1>6, <1>7, <1>8 DEF Effect

(***************************************************************************)
(* The receiver implements LinkDirectory: the initial table is the empty   *)
(* directory, and every handler and every end of a round maps to a step of *)
(* the directory or leaves it alone.                                       *)
(***************************************************************************)
THEOREM DirectoryCorrect == Spec => ImplementsDirectory
<1>1. Init => Directory!Init
  <2> SUFFICES ASSUME Init
               PROVE  DOMAIN groups = {} /\ Members = {} /\ nextId - 1 = 0
    BY DEF Directory!Init
  <2>1. DOMAIN groups = {} /\ nextId = 1
    BY DEF Init
  <2> QED
    BY <2>1, MembersAre
<1>2. IInv /\ [Next]_vars => [Directory!Next]_(Directory!directory)
  BY DirectoryStep
<1> QED
  BY <1>1, <1>2, Invariance, PTL DEF Spec, ImplementsDirectory, Directory!Spec
-----------------------------------------------------------------------------
(***************************************************************************)
(* Live links.  No connection was heard after the time of the round, so    *)
(* that hearing it now never sets it back.                                 *)
(***************************************************************************)
NotAhead == \A g \in DOMAIN groups : \A c \in groups[g].conns : c.lastRcvd <= ts

LEMMA HeardBefore ==
  ASSUME IInv, Effect, NEW g \in DOMAIN groups', NEW d \in groups'[g].conns
  PROVE  d.lastRcvd = ts \/ \E h \in DOMAIN groups : \E c \in groups[h].conns :
                                d.lastRcvd = c.lastRcvd
<1>1. CASE Same
  BY <1>1 DEF Same
<1>2. CASE Evicted
  <2>1. PICK room \in Rooms : groups' = [h \in room |-> groups[h]]
    BY <1>2 DEF Evicted
  <2> QED
    BY <2>1, RoomMade
<1>3. CASE Opened
  <2>1. PICK room \in Rooms : \E G :
          /\ G.conns = {}
          /\ groups' = [h \in room \cup {nextId} |-> IF h = nextId THEN G ELSE groups[h]]
    BY <1>3 DEF Opened
  <2>2. room \in SUBSET DOMAIN groups
    BY RoomMade
  <2>3. g # nextId /\ g \in room /\ groups'[g] = groups[g]
    BY <2>1
  <2> QED
    BY <2>2, <2>3
<1>4. CASE Cleaned
  BY <1>4, CleanedGroups
<1>5. ASSUME NEW h \in DOMAIN groups, Updated(h)
      PROVE  d.lastRcvd = ts \/ \E k \in DOMAIN groups : \E c \in groups[k].conns :
                                    d.lastRcvd = c.lastRcvd
  <2>1. PICK H : SameLinks(groups[h], H) /\ groups' = [groups EXCEPT ![h] = H]
    BY <1>5, Zenon DEF Updated
  <2>2. CASE g = h
    BY <2>1, <2>2 DEF SameLinks
  <2>3. CASE g # h
    BY <2>1, <2>3
  <2> QED
    BY <2>2, <2>3
<1>6. ASSUME NEW h \in DOMAIN groups, Removed(h)
      PROVE  \E k \in DOMAIN groups : \E c \in groups[k].conns : d.lastRcvd = c.lastRcvd
  BY <1>6 DEF Removed, remove_group
<1>7. ASSUME NEW h \in DOMAIN groups, NEW a \in Addr, Entered(a, h)
      PROVE  d.lastRcvd = ts \/ \E k \in DOMAIN groups : \E c \in groups[k].conns :
                                    d.lastRcvd = c.lastRcvd
  <2>1. PICK H : /\ H.conns = groups[h].conns \cup {NewConnection(a, ts)}
                 /\ groups' = [groups EXCEPT ![h] = H]
    BY <1>7, Zenon DEF Entered
  <2>2. NewConnection(a, ts).lastRcvd = ts
    BY DEF NewConnection
  <2>3. CASE g = h
    BY <2>1, <2>2, <2>3
  <2>4. CASE g # h
    BY <2>1, <2>4
  <2> QED
    BY <2>3, <2>4
<1> QED
  BY <1>1, <1>2, <1>3, <1>4, <1>5, <1>6, <1>7 DEF Effect

LEMMA NotAheadInvariant == Spec => []NotAhead
<1>1. Init => NotAhead
  BY DEF Init, NotAhead
<1>2. IInv /\ IInv' /\ NotAhead /\ [Next]_vars => NotAhead'
  <2> SUFFICES ASSUME IInv, IInv', NotAhead, [Next]_vars,
                      NEW g \in DOMAIN groups', NEW d \in groups'[g].conns
               PROVE  d.lastRcvd <= ts'
    BY DEF NotAhead
  <2>1. ts \in Nat /\ ts' \in Nat /\ ts <= ts'
    <3>1. ts \in Nat /\ ts' \in Nat /\ clock \in Nat /\ ts <= clock
      BY DEF IInv, Times
    <3>2. CASE EpollWait
      BY <3>1, <3>2, ReceiverConstants DEF EpollWait
    <3>3. CASE ts' = ts
      BY <3>1, <3>3
    <3> QED
      BY <3>2, <3>3
      DEF Next, vars, EndRound, register_group, register_connection,
          process_single_packet, handle_srt_data, InRound
  <2>2. d.lastRcvd = ts \/ \E h \in DOMAIN groups : \E c \in groups[h].conns :
                               d.lastRcvd = c.lastRcvd
    BY NextEffect, HeardBefore
  <2>3. d.lastRcvd <= ts
    BY <2>1, <2>2 DEF NotAhead
  <2>4. d.lastRcvd \in Nat
    BY Zenon DEF IInv, GroupTable, GoodGroup, ConnectionGroup, Connection
  <2> QED
    BY <2>1, <2>3, <2>4
<1> QED
  BY <1>1, <1>2, Invariance, PTL DEF Spec

\* Link c of group g is still there, and was heard no earlier.
Kept(g, c) ==
  g \in DOMAIN groups' /\ \E d \in groups'[g].conns : d.addr = c.addr /\ d.lastRcvd >= c.lastRcvd

\* The ways the table changes other than by removing g.
Spared(g) ==
  \/ Same \/ Evicted \/ Opened \/ Cleaned
  \/ \E h \in DOMAIN groups :
       \/ Updated(h)
       \/ Removed(h) /\ h # g
       \/ \E a \in Addr : Entered(a, h)

LEMMA LiveKept ==
  ASSUME IInv, NotAhead, NEW g \in DOMAIN groups, NEW c \in groups[g].conns,
         ~conn_timed_out(c, ts), Spared(g)
  PROVE  Kept(g, c)
<1>1. c.lastRcvd \in Nat /\ ts \in Nat /\ c.lastRcvd <= ts /\ c.lastRcvd >= c.lastRcvd
  <2>1. c \in Connection
    BY Zenon DEF IInv, GroupTable, GoodGroup, ConnectionGroup
  <2>2. c.lastRcvd \in Nat
    BY <2>1 DEF Connection
  <2>3. ts \in Nat /\ c.lastRcvd <= ts
    BY Zenon DEF IInv, Times, NotAhead
  <2> QED
    BY <2>2, <2>3
<1>2. CASE g \in DOMAIN groups' /\ groups'[g] = groups[g]
  BY <1>1, <1>2 DEF Kept
<1>3. CASE Same
  BY <1>2, <1>3 DEF Same
<1>4. ASSUME NEW room \in Rooms
      PROVE  g \in room
  <2>1. g \notin Ghosts
    BY DEF Ghosts
  <2> QED
    BY <1>4, <2>1 DEF Rooms
<1>5. CASE Evicted
  BY <1>2, <1>4, <1>5 DEF Evicted
<1>6. CASE Opened
  <2>1. nextId \in Nat /\ g \in 1 .. nextId - 1
    BY DEF IInv, GroupTable
  <2>2. g # nextId
    BY <2>1
  <2> QED
    BY <1>2, <1>4, <1>6, <2>2 DEF Opened
<1>7. CASE Cleaned
  BY <1>1, <1>7, CleanedKeeps DEF Kept
<1>8. ASSUME NEW h \in DOMAIN groups, Updated(h)
      PROVE  Kept(g, c)
  <2>1. PICK H : SameLinks(groups[h], H) /\ groups' = [groups EXCEPT ![h] = H]
    BY <1>8, Zenon DEF Updated
  <2>2. CASE g = h
    <3>1. \E d \in H.conns : d.addr = c.addr /\ d.lastRcvd \in {c.lastRcvd, ts}
      BY <2>1, <2>2 DEF SameLinks
    <3> QED
      BY <1>1, <2>1, <2>2, <3>1 DEF Kept
  <2>3. CASE g # h
    BY <1>2, <2>1, <2>3
  <2> QED
    BY <2>2, <2>3
<1>9. ASSUME NEW h \in DOMAIN groups, Removed(h), h # g
      PROVE  Kept(g, c)
  BY <1>2, <1>9 DEF Removed, remove_group
<1>10. ASSUME NEW h \in DOMAIN groups, NEW a \in Addr, Entered(a, h)
       PROVE  Kept(g, c)
  <2>1. PICK H : /\ H.conns = groups[h].conns \cup {NewConnection(a, ts)}
                 /\ groups' = [groups EXCEPT ![h] = H]
    BY <1>10, Zenon DEF Entered
  <2>2. CASE g = h
    BY <1>1, <2>1, <2>2 DEF Kept
  <2>3. CASE g # h
    BY <1>2, <2>1, <2>3
  <2> QED
    BY <2>2, <2>3
<1> QED
  BY <1>3, <1>5, <1>6, <1>7, <1>8, <1>9, <1>10 DEF Spared

LEMMA LiveStep ==
  ASSUME IInv, NotAhead, Next, NEW g \in DOMAIN groups, NEW c \in groups[g].conns,
         ~conn_timed_out(c, ts)
  PROVE  Kept(g, c) \/ (g \notin DOMAIN groups' /\ LostToOwnTraffic(g))
<1>1. CASE EpollWait
  BY <1>1, LiveKept DEF EpollWait, Same, Spared
<1>2. CASE EndRound
  BY <1>2, LiveKept DEF EndRound, cleanup_inactive, Same, Cleaned, Spared
<1>3. ASSUME NEW a \in Addr, NEW reply, register_group(a, reply)
      PROVE  Kept(g, c)
  BY <1>3, RegisterGroupEffect, LiveKept DEF Spared
<1>4. ASSUME NEW a \in Addr, NEW id, NEW reply, register_connection(a, id, reply)
      PROVE  Kept(g, c)
  <2>1. Spared(g)
    BY <1>4, RegisterConnectionEffect DEF Spared
  <2> QED
    BY <2>1, LiveKept
<1>5. Removed(g) => g \notin DOMAIN groups'
  BY DEF Removed, remove_group
<1>6. ASSUME NEW a \in Addr, process_single_packet(a)
      PROVE  Kept(g, c) \/ (g \notin DOMAIN groups' /\ LostToOwnTraffic(g))
  <2>1. PICK h \in DOMAIN groups : Claims(groups[h], a) /\ (Updated(h) \/ Removed(h))
    BY <1>6, PacketEffect
  <2>2. CASE Removed(h) /\ h = g
    BY <1>5, <1>6, <2>1, <2>2 DEF LostToOwnTraffic
  <2>3. CASE Updated(h) \/ (Removed(h) /\ h # g)
    <3>1. Spared(g)
      BY <2>3 DEF Spared
    <3> QED
      BY <3>1, LiveKept
  <2> QED
    BY <2>1, <2>2, <2>3
<1>7. ASSUME NEW h \in DOMAIN groups, NEW kind \in ServerPackets, handle_srt_data(h, kind)
      PROVE  Kept(g, c) \/ (g \notin DOMAIN groups' /\ LostToOwnTraffic(g))
  <2>1. Same \/ Removed(h) \/ Updated(h)
    BY <1>7, ServerEffect
  <2>2. CASE Removed(h) /\ h = g
    BY <1>5, <1>7, <2>2 DEF LostToOwnTraffic
  <2>3. CASE Same \/ Updated(h) \/ (Removed(h) /\ h # g)
    <3>1. Spared(g)
      BY <2>3 DEF Spared
    <3> QED
      BY <3>1, LiveKept
  <2> QED
    BY <2>1, <2>2, <2>3
<1> QED
  BY <1>1, <1>2, <1>3, <1>4, <1>6, <1>7, Zenon DEF Next

(***************************************************************************)
(* A link heard within CONN_TIMEOUT is lost only with its group, and the   *)
(* group only to its own traffic: no registration of another client, no    *)
(* eviction and no cleanup ever takes it.                                  *)
(***************************************************************************)
THEOREM LiveLinksCorrect == Spec => LiveLinksSurvive
<1> DEFINE A == \A g \in DOMAIN groups : \A c \in groups[g].conns :
                  ~conn_timed_out(c, ts) =>
                    IF g \in DOMAIN groups'
                    THEN \E d \in groups'[g].conns :
                           d.addr = c.addr /\ d.lastRcvd >= c.lastRcvd
                    ELSE LostToOwnTraffic(g)
<1>1. IInv /\ NotAhead /\ [Next]_vars => [A]_vars
  <2> SUFFICES ASSUME IInv, NotAhead, Next
               PROVE  A
    OBVIOUS
  <2> QED
    BY LiveStep DEF Kept
<1> QED
  BY <1>1, Invariance, NotAheadInvariant, PTL DEF Spec, LiveLinksSurvive
=============================================================================
