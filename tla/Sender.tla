------------------------------- MODULE Sender -------------------------------
(***************************************************************************)
(* srtla_send (sender.cpp): one thread that registers its links with the   *)
(* receiver, shares the packets of the SRT caller out among them, and      *)
(* looks after them about once a second.                                   *)
(*                                                                         *)
(* A handler is one action; the main loop's order of them is left free.    *)
(* A packet of the receiver that carries several numbers (SRTLA ACK, NAK)  *)
(* is as many packets of one number here.  Sends whose result the code     *)
(* ignores are left out, as is last_sent, which only keepalives use.       *)
(***************************************************************************)
EXTENDS SenderLink, Sequences

CONSTANTS
  Link,                     \* source addresses the ips file may list
  None,                     \* no link
  REG2_TIMEOUT, REG3_TIMEOUT, GLOBAL_TIMEOUT,
  MS,                       \* milliseconds in a second
  HOUSEKEEPING_INT,         \* in milliseconds
  Packets,                  \* kinds of packets the receiver sends
  Acks,                     \* numbers in SRT ACKs
  Addresses,                \* addresses the receiver's name resolves to
  StartTime, MaxTime,       \* bounds of the clock, in milliseconds
  MaxId,                    \* bound on the group ids the receiver hands out
  MaxInFlight,              \* bound on the packets in flight on a link
  MaxActive,                \* bound on active_connections between housekeepings
  MaxReloads                \* bound on the reloads of the ips file

PacketKinds ==
  {"REG_NGP", "REG2", "REG3", "SRT_ACK", "SRT_NAK", "SRTLA_ACK", "other"}

ASSUME SenderConstants ==
  /\ None \notin Link /\ IsFiniteSet(Link) /\ Link # {}
  /\ Packets \subseteq PacketKinds /\ Acks \subseteq Nat \ {0}
  /\ {MS, HOUSEKEEPING_INT, REG2_TIMEOUT, REG3_TIMEOUT, GLOBAL_TIMEOUT,
      Addresses} \subseteq Nat \ {0}
  /\ {MaxTime, MaxId, MaxInFlight, MaxActive, MaxReloads} \subseteq Nat
  /\ StartTime \in Nat /\ StartTime > MS * (CONN_TIMEOUT + 2)

VARIABLES
  conns,        \* the list of links, in its order
  link,         \* the conn_t of each link in the list
  pending,      \* pending_reg2_conn
  regTimeout,   \* pending_reg_timeout, in seconds
  active,       \* active_connections
  hasConnected,
  srtlaId,      \* the group id; 0 is the sender's own half alone
  now,          \* the last time read from the clock, in milliseconds
  lastRan, allFailedAt,   \* of connection_housekeeping, in milliseconds
  addrs,        \* resolved addresses left to try
  exited,
  reloads,      \* reloads so far
  idAt, activeAt  \* history: when srtlaId was set, when a link was last active

regVars == <<pending, regTimeout, srtlaId, idAt>>
hkVars == <<lastRan, allFailedAt, addrs, exited, activeAt>>
vars == <<conns, link, regVars, active, hasConnected, now, hkVars, reloads>>

Seconds(ms) == ms \div MS

Running == ~exited

\* The clock is read.
ReadClock == now' \in now .. MaxTime

\* The sequences that list the elements of S once each.
Orders(S) == {s \in [1 .. Cardinality(S) -> S] : {s[i] : i \in DOMAIN s} = S}

Init ==
  /\ conns \in UNION {Orders(S) : S \in SUBSET Link \ {{}}}
  /\ \E opened \in SUBSET {conns[i] : i \in DOMAIN conns} \ {{}} :
       link = [l \in {conns[i] : i \in DOMAIN conns} |->
                 open_socket(NewConn, l \in opened)]
  /\ pending = None /\ regTimeout = 0 /\ active = 0 /\ hasConnected = FALSE
  /\ srtlaId = 0 /\ now = StartTime /\ lastRan = 0 /\ allFailedAt = 0
  /\ addrs = Addresses /\ exited = FALSE /\ reloads = 0
  /\ idAt = 0 /\ activeAt = StartTime
-----------------------------------------------------------------------------
\* l is the first of the links S in the list.
IsFirst(l, S) ==
  l \in S /\ \E i \in DOMAIN conns : conns[i] = l /\ \A j \in 1 .. i - 1 : conns[j] \notin S

\* l has the best score of the links S, and is the first to have it.
IsBest(l, S) ==
  IsFirst(l, {k \in S : \A j \in S : Score(link[j]) <= Score(link[k])})

Usable(t) == {l \in DOMAIN link : ~conn_timed_out(link[l], t)}

(***************************************************************************)
(* A packet of the SRT caller: data numbered sn, or control (sn is Free).  *)
(* Without a usable link it is dropped.  A link that cannot send it is     *)
(* disabled until it is heard again.                                       *)
(***************************************************************************)
handle_srt_data(sn) ==
  /\ Running
  /\ ReadClock
  /\ \/ Usable(Seconds(now')) = {} /\ UNCHANGED link
     \/ \E l \in DOMAIN link :
          /\ IsBest(l, Usable(Seconds(now')))
          /\ \/ /\ sn = Free
                /\ UNCHANGED link
             \/ /\ sn # Free /\ link[l].fd /\ link[l].inFlight < MaxInFlight
                /\ link' = [link EXCEPT ![l] = reg_pkt(@, sn)]
             \/ link' = [link EXCEPT ![l].lastRcvd = 1]
  /\ UNCHANGED <<conns, regVars, active, hasConnected, hkVars, reloads>>
-----------------------------------------------------------------------------
\* The links after a packet on l that counts as a sign of life.
HeardOn(l) == [link EXCEPT ![l].lastRcvd = Seconds(now')]

\* The links of L that have sn in their log; the first in the list counts.
Senders(L, sn) == {l \in DOMAIN L : Hits(L[l], sn) # {}}

register_nak(L, sn) ==
  \/ Senders(L, sn) = {} /\ link' = L
  \/ \E k \in DOMAIN L : /\ IsFirst(k, Senders(L, sn))
                         /\ link' = [L EXCEPT ![k] = Nakked(@, sn)]

register_srtla_ack(L, sn) ==
  \/ /\ Senders(L, sn) = {}
     /\ link' = [l \in DOMAIN L |-> Credited(L[l])]
  \/ \E k \in DOMAIN L :
       /\ IsFirst(k, Senders(L, sn))
       /\ link' = [l \in DOMAIN L |->
                     Credited(IF l = k THEN Acked(L[l], sn) ELSE L[l])]

register_srt_ack(L, ack) ==
  link' = [l \in DOMAIN L |-> conn_register_srt_ack(L[l], ack)]

(***************************************************************************)
(* No group: register anew, unless a link is active or an exchange is      *)
(* under way.  The mutant does not wait for the exchange.                  *)
(***************************************************************************)
MayRegister_impatient(t) == active = 0 /\ pending = None

MayRegister(t) == active = 0 /\ pending = None /\ t > regTimeout

receive_ngp(l) ==
  /\ \/ UNCHANGED <<pending, regTimeout>>        \* not now, or REG1 not sent
     \/ /\ MayRegister(Seconds(now'))
        /\ pending' = l
        /\ regTimeout' = Seconds(now') + REG2_TIMEOUT
  /\ UNCHANGED <<srtlaId, idAt, link, active, hasConnected>>

\* The receiver's answer to REG1.
receive_reg2(l, id) ==
  /\ \/ UNCHANGED regVars            \* not awaited, or not the sender's half
     \/ /\ pending = l
        /\ srtlaId' = id /\ idAt' = Seconds(now')
        /\ pending' = None
        /\ regTimeout' = Seconds(now') + REG3_TIMEOUT
  /\ UNCHANGED <<link, active, hasConnected>>

receive_reg3(l) ==
  /\ active < MaxActive
  /\ link' = HeardOn(l)
  /\ hasConnected' = TRUE
  /\ active' = active + 1
  /\ UNCHANGED regVars

\* Everything else is a sign of life, a keepalive and REG_ERR included.
receive_traffic(l, kind) ==
  /\ CASE kind = "SRT_ACK" -> \E ack \in Acks : register_srt_ack(HeardOn(l), ack)
       [] kind = "SRT_NAK" -> \E sn \in Sn : register_nak(HeardOn(l), sn)
       [] kind = "SRTLA_ACK" -> \E sn \in Sn : register_srtla_ack(HeardOn(l), sn)
       [] kind = "other" -> link' = HeardOn(l)
  /\ UNCHANGED <<regVars, active, hasConnected>>

handle_srtla_data(l, kind) ==
  /\ Running
  /\ link[l].fd
  /\ ReadClock
  /\ \/ kind = "REG_NGP" /\ receive_ngp(l)
     \/ kind = "REG2" /\ \E id \in 1 .. MaxId : receive_reg2(l, id)
     \/ kind = "REG3" /\ receive_reg3(l)
     \/ kind \notin {"REG_NGP", "REG2", "REG3"} /\ receive_traffic(l, kind)
  /\ UNCHANGED <<conns, hkVars, reloads>>
-----------------------------------------------------------------------------
(***************************************************************************)
(* SIGHUP: the links are those the file lists now.  New ones go to the     *)
(* head of the list, and a pending registration ends with its link (in the *)
(* mutant it does not).                                                    *)
(***************************************************************************)
StillPending_always(F) == pending

StillPending(F) == IF pending \in F THEN pending ELSE None

\* The links in s come in the order of the list.
InListOrder(s) ==
  \A i, j \in DOMAIN s :
    i < j => \E p, q \in DOMAIN conns : p < q /\ conns[p] = s[i] /\ conns[q] = s[j]

update_conns(F) ==
  /\ Running
  /\ reloads < MaxReloads /\ reloads' = reloads + 1
  /\ \E fresh \in Orders(F \ DOMAIN link), kept \in Orders(F \cap DOMAIN link) :
       InListOrder(kept) /\ conns' = fresh \o kept
  /\ link' = [l \in F |-> IF l \in DOMAIN link THEN link[l] ELSE NewConn]
  /\ pending' = StillPending(F)
  /\ UNCHANGED <<regTimeout, srtlaId, idAt, active, hasConnected, now, hkVars>>

\* A mutant of FailedSince: a recovery does not end the outage.
FailedSince_sticky(live, ms) == IF allFailedAt = 0 THEN ms ELSE allFailedAt

\* When the outage began that all links are in, 0 if there is none.
FailedSince(live, ms) ==
  IF live # {} THEN 0 ELSE IF allFailedAt = 0 THEN ms ELSE allFailedAt

\* The end of connection_housekeeping: try the next address, or give up.
GiveUp(live, ms) ==
  LET since == FailedSince(live, ms)
      over  == since # 0 /\ ms > since + GLOBAL_TIMEOUT * MS
  IN  /\ exited' = (over /\ (hasConnected \/ addrs = 1))
      /\ addrs' = IF over /\ ~exited' THEN addrs - 1 ELSE addrs
      /\ allFailedAt' = IF over /\ ~exited' THEN 0 ELSE since

connection_housekeeping ==
  /\ Running
  /\ ReadClock
  /\ lastRan + HOUSEKEEPING_INT <= now'
  /\ lastRan' = now'
  /\ LET time   == Seconds(now')
         closed == {l \in DOMAIN link : ~link[l].fd}
         live   == Usable(time) \ closed
     IN  /\ pending' = IF time > regTimeout THEN None ELSE pending
         /\ \E opened \in SUBSET closed :
              link' = [l \in DOMAIN link |->
                         IF l \in closed THEN open_socket(link[l], l \in opened)
                         ELSE IF l \in live THEN link[l] ELSE Failed(link[l])]
         /\ active' = Cardinality(live)
         /\ GiveUp(live, now')
         /\ activeAt' = IF live = {} THEN activeAt ELSE now'
  /\ UNCHANGED <<conns, regTimeout, srtlaId, idAt, hasConnected, reloads>>

Next ==
  \/ connection_housekeeping
  \/ \E sn \in Sn \cup {Free} : handle_srt_data(sn)
  \/ \E l \in DOMAIN link, kind \in Packets : handle_srtla_data(l, kind)
  \/ \E F \in SUBSET Link : update_conns(F)

Spec == Init /\ [][Next]_vars
-----------------------------------------------------------------------------
TypeOK ==
  /\ link \in [DOMAIN link -> conn_t] /\ DOMAIN link \in SUBSET Link
  /\ conns \in Orders(DOMAIN link)
  /\ pending \in Link \cup {None} /\ srtlaId \in 0 .. MaxId
  /\ {regTimeout, active, lastRan, allFailedAt, reloads, idAt, activeAt} \subseteq Nat
  /\ now \in Nat /\ {hasConnected, exited} \subseteq BOOLEAN
  /\ addrs \in 1 .. Addresses

(***************************************************************************)
(* The window of a link stays between its bounds.  register_srtla_ack      *)
(* widens the window of the link that sent the packet before it looks      *)
(* whether that link is connected, and only then applies the maximum: the  *)
(* bound rests on a link that is not connected having no packet logged.    *)
(***************************************************************************)
WindowBounded ==
  \A l \in DOMAIN link : link[l].window \in WindowFloor .. WindowCeiling

(***************************************************************************)
(* in_flight_pkts never undercounts: it is at least the number of packets  *)
(* an acknowledgement can still find in the log, so the score of a link is *)
(* never better than its log justifies.                                    *)
(***************************************************************************)
InFlightCovers ==
  \A l \in DOMAIN link :
    Cardinality({i \in Scanned(link[l]) : link[l].log[i] \in Sn}) <= link[l].inFlight

(***************************************************************************)
(* The link that pending_reg2_conn points to is in the list and can send,  *)
(* whatever the ips file was changed to since REG1 went out on it.         *)
(***************************************************************************)
PendingListed ==
  pending # None => pending \in DOMAIN link /\ link[pending].fd

(***************************************************************************)
(* A group id stays for REG3_TIMEOUT: while the other links join a group,  *)
(* no further REG2 makes the sender abandon it.                            *)
(***************************************************************************)
GroupKept ==
  [][srtlaId' # srtlaId => idAt = 0 \/ Seconds(now') > idAt + REG3_TIMEOUT]_vars

(***************************************************************************)
(* The sender gives up only if no link was active for GLOBAL_TIMEOUT, and, *)
(* if it never connected, once every address had GLOBAL_TIMEOUT to answer. *)
(***************************************************************************)
ExitJustified ==
  exited =>
    /\ now > activeAt + GLOBAL_TIMEOUT * MS
    /\ ~hasConnected => now > StartTime + Addresses * GLOBAL_TIMEOUT * MS
=============================================================================
