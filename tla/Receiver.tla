------------------------------ MODULE Receiver ------------------------------
(***************************************************************************)
(* srtla_rec: one thread that waits for events, handles the packets of the *)
(* clients (SRTLAHandler) and of the SRT server (SRTHandler), and does its *)
(* periodic work at the end of every round (receiver_main.cpp).            *)
(*                                                                         *)
(* A handler is one action.  The argument reply of the registration        *)
(* handlers is the packet they answer with, NoReply when the send fails    *)
(* in a way the handler notices.  The order of the handlers in a round is  *)
(* free here; module EventLoop adds the epoll events and batches.          *)
(***************************************************************************)
EXTENDS ConnectionRegistry

CONSTANTS
  Ip, IpOf,                 \* source IPs and the IP of an address
  AUTH_FAIL_THRESHOLD, AUTH_FAIL_WINDOW, AUTH_FAIL_COOLDOWN,
  MAX_REPEATS,              \* NakDeduplicator: repeats let through
  ServerPackets,            \* kinds of packets the SRT server sends
  StartTime, MaxTime,       \* bounds of the clock
  MaxIds                    \* bound on the groups ever registered

VARIABLES
  entries,      \* the AuthRateLimiter's map
  ts,           \* the time the main loop read in this round
  clock,        \* the last time read from the monotonic clock
  phase         \* "wait": in epoll_wait, "events": handling a round

vars == <<groups, nextId, lastRun, entries, ts, clock, phase>>

Limiter == INSTANCE AuthRateLimiter

ServerPacketKinds == {"short", "ack", "nak", "reject", "shutdown", "other"}

ASSUME ReceiverConstants ==
  /\ IpOf \in [Addr -> Ip]
  /\ ServerPackets \subseteq ServerPacketKinds
  /\ {AUTH_FAIL_THRESHOLD, AUTH_FAIL_WINDOW, AUTH_FAIL_COOLDOWN}
        \subseteq Nat \ {0}
  /\ MAX_REPEATS \in Nat /\ MaxTime \in Nat /\ MaxIds \in Nat
  /\ StartTime \in Nat \ {0}

\* What a registration handler may answer.
NoReply == [type |-> "none"]
REG_ERR == [type |-> "REG_ERR"]
REG_NGP == [type |-> "REG_NGP"]
REG3 == [type |-> "REG3"]
REG2(g) == [type |-> "REG2", id |-> g]

Init ==
  /\ groups = [g \in {} |-> {}]
  /\ nextId = 1
  /\ lastRun = 0
  /\ entries = [i \in {} |-> {}]
  /\ ts = StartTime
  /\ clock = StartTime
  /\ phase = "wait"

\* The handlers run between two epoll_waits and leave the loop's state alone.
InRound == phase = "events" /\ UNCHANGED <<lastRun, ts, phase>>
-----------------------------------------------------------------------------
(***************************************************************************)
(* REG1.  Refusals, in the order of the code: throttled source; full table *)
(* without a ghost to evict; address already claimed.  The eviction comes  *)
(* before the last test and before the send that can fail: room is the set *)
(* of groups left by it.                                                   *)
(***************************************************************************)
\* A mutant of TableFull: one group too many.
TableFull_oneMore == Cardinality(DOMAIN groups) > MAX_GROUPS

TableFull == Cardinality(DOMAIN groups) >= MAX_GROUPS

Rooms ==
  IF TableFull THEN {DOMAIN groups \ {g} : g \in {h \in Ghosts : IsOldestGhost(h)}}
               ELSE {DOMAIN groups}

register_group(a, reply) ==
  /\ InRound
  /\ UNCHANGED <<entries, clock>>
  /\ IF Limiter!is_blocked(IpOf[a], ts) \/ Rooms = {}
     THEN reply = REG_ERR /\ UNCHANGED <<groups, nextId>>
     ELSE \E room \in Rooms :
       IF \E g \in room : Claims(groups[g], a)
       THEN /\ reply = REG_ERR
            /\ groups' = [g \in room |-> groups[g]]
            /\ nextId' = nextId
       ELSE \/ /\ reply = NoReply
               /\ groups' = [g \in room |-> groups[g]]
               /\ nextId' = nextId
            \/ /\ nextId <= MaxIds
               /\ reply = REG2(nextId)
               /\ groups' = [g \in room \cup {nextId} |->
                               IF g = nextId THEN NewGroup(a, ts) ELSE groups[g]]
               /\ nextId' = nextId + 1

(***************************************************************************)
(* REG2.  An address that answers for another group is refused (never, in  *)
(* the mutant).  A registered address gets another REG3 and keeps its      *)
(* connection as it is; its last_received is not refreshed.                *)
(***************************************************************************)
BelongsElsewhere_never(a, id) == FALSE

BelongsElsewhere(a, id) ==
  \E g \in DOMAIN groups : find_by_address(a, g) /\ g # id

Admit(G, a, t) ==
  IF a \in get_client_addresses(G) THEN G
  ELSE [G EXCEPT !.conns = @ \cup {NewConnection(a, t)}]

register_connection(a, id, reply) ==
  /\ InRound
  /\ UNCHANGED <<entries, clock, nextId>>
  /\ \/ /\ id \notin DOMAIN groups
        /\ reply = REG_NGP
        /\ UNCHANGED groups
     \/ /\ id \in DOMAIN groups
        /\ BelongsElsewhere(a, id)
        /\ reply = REG_ERR
        /\ UNCHANGED groups
     \/ /\ id \in DOMAIN groups
        /\ ~BelongsElsewhere(a, id)
        /\ LET G == groups[id] IN
           IF /\ a \notin get_client_addresses(G)
              /\ Cardinality(G.conns) >= MAX_CONNS_PER_GROUP
           THEN reply = REG_ERR /\ UNCHANGED groups
           ELSE \/ reply = NoReply /\ UNCHANGED groups
                \/ /\ reply = REG3
                   /\ groups' = [groups EXCEPT ![id] =
                        [write_socket_info_file(Admit(G, a, ts))
                           EXCEPT !.lastAddr = a]]
-----------------------------------------------------------------------------
(***************************************************************************)
(* Any other packet from a client is dropped (a stuttering step, left out) *)
(* unless its source is a connection's address: find_by_address returns    *)
(* the group g and its connection c.                                       *)
(***************************************************************************)
Source(a, g, c) ==
  find_by_address(a, g) /\ c \in groups[g].conns /\ c.addr = a

\* The connection after a packet; one heard after its timeout recovers.
Heard(c, t) ==
  [c EXCEPT !.lastRcvd = t,
            !.recStart = IF @ = 0 /\ conn_timed_out(c, t) THEN t ELSE @]

\* The group with its connection c replaced by d.
WithConn(G, c, d) == [G EXCEPT !.conns = (@ \ {c}) \cup {d}]

\* A mutant of Streaming: the group is not promoted.
Streaming_unmarked(G, a) == [G EXCEPT !.lastAddr = a]

\* SRT traffic promotes the group and moves its last_address.
Streaming(G, a) == [G EXCEPT !.dataSeen = TRUE, !.lastAddr = a]

(***************************************************************************)
(* What a connection keeps after register_packet: nothing when sn is the   *)
(* last of a batch of RECV_ACK_INT, which goes out as an SRTLA ACK and is  *)
(* forgotten even if that send fails.  The mutant compares before adding.  *)
(***************************************************************************)
register_packet_late(c, sn) ==
  [c EXCEPT !.recv = IF Len(@) = RECV_ACK_INT THEN <<>> ELSE Append(@, sn)]

register_packet(c, sn) ==
  [c EXCEPT !.recv = IF Len(@) + 1 = RECV_ACK_INT THEN <<>> ELSE Append(@, sn)]

\* ensure_group_socket when each of its steps succeeds.
ensure_group_socket(G) ==
  IF G.sock THEN G ELSE write_socket_info_file([G EXCEPT !.sock = TRUE])

(***************************************************************************)
(* forward_to_srt_server, G being the group so far: the packet is sent, or *)
(* dropped on a transient error; or the group is removed because the send  *)
(* or a step of the socket's creation failed.                              *)
(***************************************************************************)
forward_to_srt_server(g, G) ==
  \/ groups' = [groups EXCEPT ![g] = ensure_group_socket(G)]
  \/ groups' = remove_group(g)

(***************************************************************************)
(* A NAK payload is let through the first time and at most MAX_REPEATS     *)
(* times more, when SUPPRESS_MS have passed since the last time (free here *)
(* since ts is in seconds; module NakDedup has the milliseconds).          *)
(***************************************************************************)
MayPassNak(G, h) == G.naks[h] <= MAX_REPEATS

MaySuppressNak(G, h) == G.naks[h] > 0

(***************************************************************************)
(* The rest of process_single_packet, for each kind of packet: a keepalive *)
(* (echoed) or a packet too short for SRT; SRT data; another SRT control   *)
(* packet; a NAK, suppressed or not.                                       *)
(***************************************************************************)
receive_keepalive(g, c) ==
  groups' = [groups EXCEPT ![g] = WithConn(@, c, Heard(c, ts))]

receive_data(g, c, sn) ==
  forward_to_srt_server(g,
    Streaming(WithConn(groups[g], c, register_packet(Heard(c, ts), sn)), c.addr))

receive_control(g, c) ==
  forward_to_srt_server(g,
    Streaming(WithConn(groups[g], c, Heard(c, ts)), c.addr))

receive_nak(g, c, h) ==
  LET G == Streaming(WithConn(groups[g], c, Heard(c, ts)), c.addr)
  IN  \/ /\ MaySuppressNak(G, h)
         /\ groups' = [groups EXCEPT ![g] = G]
      \/ /\ MayPassNak(G, h)
         /\ forward_to_srt_server(g, [G EXCEPT !.naks[h] = @ + 1])

process_single_packet(a) ==
  /\ InRound
  /\ UNCHANGED <<entries, clock, nextId>>
  /\ \E g \in DOMAIN groups : \E c \in groups[g].conns :
       /\ Source(a, g, c)
       /\ \/ receive_keepalive(g, c)
          \/ \E sn \in Sn : receive_data(g, c, sn)
          \/ receive_control(g, c)
          \/ \E h \in Hash : receive_nak(g, c, h)
-----------------------------------------------------------------------------
(***************************************************************************)
(* One packet from the SRT server, read from the socket of group g.  It is *)
(* relayed to the addresses Downstream names.  "short" is a failed read,   *)
(* the only outcome for a group without a socket.                          *)
(***************************************************************************)
Downstream(G, kind) ==
  CASE kind = "short" -> {}
    [] kind \in {"ack", "nak"} -> get_client_addresses(G)
    [] OTHER -> {G.lastAddr}

FailedAuth(G, kind) ==
  kind = "reject" \/ (kind = "shutdown" /\ ~G.established)

handle_srt_data(g, kind) ==
  /\ InRound
  /\ groups[g].sock \/ kind = "short"
  /\ nextId' = nextId
  /\ \/ /\ kind = "short"
        /\ groups' = remove_group(g)
        /\ UNCHANGED <<entries, clock>>
     \/ /\ kind = "ack"
        /\ groups' = [groups EXCEPT ![g].established = TRUE]
        /\ UNCHANGED <<entries, clock>>
     \/ /\ FailedAuth(groups[g], kind)
        /\ clock' \in clock .. MaxTime
        /\ Limiter!record_failure(IpOf[groups[g].lastAddr], clock')
        /\ groups' = remove_group(g)
     \/ /\ kind \notin {"short", "ack"} /\ ~FailedAuth(groups[g], kind)
        /\ UNCHANGED <<groups, entries, clock>>
-----------------------------------------------------------------------------
\* epoll_wait returns, sooner or later, and the loop reads the clock.
EpollWait ==
  /\ phase = "wait"
  /\ phase' = "events"
  /\ clock' \in clock .. MaxTime
  /\ ts' = clock'
  /\ UNCHANGED <<groups, nextId, lastRun, entries>>

\* The periodic work at the end of a round.
EndRound ==
  /\ phase = "events"
  /\ phase' = "wait"
  /\ cleanup_inactive(ts)
  /\ Limiter!cleanup(ts)
  /\ UNCHANGED <<ts, clock>>

Replies == {NoReply, REG_ERR, REG_NGP, REG3} \cup {REG2(g) : g \in 1 .. nextId}

Next ==
  \/ EpollWait
  \/ EndRound
  \/ \E a \in Addr :
       \/ \E reply \in Replies : register_group(a, reply)
       \/ \E id \in 1 .. nextId, reply \in Replies :
            register_connection(a, id, reply)
       \/ process_single_packet(a)
  \/ \E g \in DOMAIN groups, kind \in ServerPackets :
       groups[g].sock /\ handle_srt_data(g, kind)

Spec == Init /\ [][Next]_vars

-----------------------------------------------------------------------------
\* Types.  A group's number is below nextId, so numbers are never reused.
TypeOK ==
  /\ nextId \in Nat \ {0}
  /\ DOMAIN groups \subseteq 1 .. nextId - 1
  /\ \A g \in DOMAIN groups : groups[g] \in ConnectionGroup
  /\ DOMAIN entries \subseteq Ip
  /\ \A i \in DOMAIN entries : entries[i] \in Limiter!Entry
  /\ lastRun \in Nat /\ ts \in Nat /\ clock \in Nat
  /\ phase \in {"wait", "events"}

(***************************************************************************)
(* At most one group, and in it at most one connection, answers for an     *)
(* address.  What find_by_address returns therefore does not depend on the *)
(* order of its loops, and no packet is credited to, or relayed into, two  *)
(* streams.  The code only ever compares a new address with the first      *)
(* group that answers for it.                                              *)
(***************************************************************************)
LookupUnambiguous ==
  /\ \A g, h \in DOMAIN groups :
       \A a \in Addr : Claims(groups[g], a) /\ Claims(groups[h], a) => g = h
  /\ \A g \in DOMAIN groups :
       \A c, d \in groups[g].conns : c.addr = d.addr => c = d

(***************************************************************************)
(* The table and each group stay within their limits, whatever mix of      *)
(* evictions, refusals and failed sends (the broadcast in handle_srt_data  *)
(* has room for MAX_CONNS_PER_GROUP messages).                             *)
(***************************************************************************)
WithinLimits ==
  /\ Cardinality(DOMAIN groups) <= MAX_GROUPS
  /\ \A g \in DOMAIN groups :
       Cardinality(groups[g].conns) <= MAX_CONNS_PER_GROUP

(***************************************************************************)
(* A group that may be evicted, or that the short timeout reaps, has no    *)
(* socket in the epoll set: those removals, unlike the others, leave no    *)
(* event pointer behind.  An established group is never one of them.       *)
(***************************************************************************)
GhostsHaveNoSocket ==
  \A g \in DOMAIN groups :
    /\ groups[g].sock => groups[g].dataSeen
    /\ groups[g].established => groups[g].sock

(***************************************************************************)
(* The socket info file of a group with a socket lists the addresses of    *)
(* its connections, after every registration, timeout and socket creation. *)
(***************************************************************************)
InfoFileCurrent ==
  \A g \in DOMAIN groups :
    groups[g].info = IF groups[g].sock THEN get_client_addresses(groups[g])
                                       ELSE {}

(***************************************************************************)
(* Nothing outlives its timeout by more than the throttle of the cleanup:  *)
(* whenever the loop waits, a silent connection, an empty group and a      *)
(* recovery are younger than their timeout plus CLEANUP_PERIOD.            *)
(***************************************************************************)
ReapedInTime ==
  phase = "wait" =>
    \A g \in DOMAIN groups :
      /\ \A c \in groups[g].conns :
           /\ ts - c.lastRcvd < CONN_TIMEOUT + CLEANUP_PERIOD
           /\ c.recStart > 0 =>
                ts - c.recStart < RECOVERY_CHANCE_PERIOD + CLEANUP_PERIOD
      /\ groups[g].conns = {} =>
           ts - groups[g].created < CLEANUP_PERIOD +
             (IF groups[g].dataSeen THEN GROUP_TIMEOUT ELSE PENDING_GROUP_TIMEOUT)

(***************************************************************************)
(* Between packets a connection holds fewer than RECV_ACK_INT unsent       *)
(* acknowledgements: recv_log_ never overflows, no number is dropped by    *)
(* the "defensive reset", and a full batch is never left lying.            *)
(***************************************************************************)
RecvLogBounded ==
  \A g \in DOMAIN groups : \A c \in groups[g].conns : Len(c.recv) < RECV_ACK_INT

(***************************************************************************)
(* A connection heard within CONN_TIMEOUT is lost only with its group, and *)
(* its group is then lost to its own traffic (a failed forward, a failed   *)
(* read or a rejection by the SRT server): never to another client's       *)
(* registration and never to the cleanup.                                  *)
(***************************************************************************)
LostToOwnTraffic(g) ==
  \/ \E kind \in ServerPackets : handle_srt_data(g, kind)
  \/ \E a \in Addr : process_single_packet(a) /\ Claims(groups[g], a)

LiveLinksSurvive ==
  [][\A g \in DOMAIN groups : \A c \in groups[g].conns :
       ~conn_timed_out(c, ts) =>
         IF g \in DOMAIN groups'
         THEN \E d \in groups'[g].conns :
                d.addr = c.addr /\ d.lastRcvd >= c.lastRcvd
         ELSE LostToOwnTraffic(g)]_vars
-----------------------------------------------------------------------------
(***************************************************************************)
(* The receiver implements the directory of bonds of module LinkDirectory: *)
(* groups are bonds, and connections are links by their addresses.  Every  *)
(* handler and every end of a round opens, joins, closes or sweeps bonds   *)
(* as that module allows, or leaves them alone.                            *)
(***************************************************************************)
Members == UNION {get_client_addresses(groups[g]) \X {g} : g \in DOMAIN groups}

Silent ==
  {c.addr : c \in {d \in UNION {groups[g].conns : g \in DOMAIN groups} : conn_timed_out(d, ts)}}

Directory ==
  INSTANCE LinkDirectory WITH
    Link <- Addr, MaxBonds <- MAX_GROUPS, MaxLinks <- MAX_CONNS_PER_GROUP,
    open <- DOMAIN groups, member <- Members, issued <- nextId - 1,
    silent <- Silent

ImplementsDirectory == Directory!Spec
-----------------------------------------------------------------------------
(***************************************************************************)
(* docs/HOW_IT_WORKS.md says of a recovery without further signs of life   *)
(* that "the attempt is abandoned and the connection is dropped".          *)
(***************************************************************************)
FailedRecoveryDrops ==
  [][EndRound /\ lastRun' # lastRun =>
       \A g \in DOMAIN groups \cap DOMAIN groups' : \A c \in groups[g].conns :
         RecoveryOver(c, ts) /\ c.lastRcvd <= c.recStart =>
           c.addr \notin get_client_addresses(groups'[g])]_vars
=============================================================================
