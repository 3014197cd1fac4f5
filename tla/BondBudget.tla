----------------------------- MODULE BondBudget -----------------------------
(***************************************************************************)
(* How long srtla_send can be without contact to the receiver, for any     *)
(* number of links and faults and any timeouts.                            *)
(*                                                                         *)
(* The argument is an account of time.  Wait is the longest that the       *)
(* sender may have to wait between two attempts to register; an attempt    *)
(* that nothing disturbs ends, within the second, with a sign of life of   *)
(* the receiver.  So the time since all links failed, with what is left of *)
(* the wait under way, is never more than a Wait for each disturbance.     *)
(* Before the first one there is no outage to account for, once the bond   *)
(* began: that is what Calm says.                                          *)
(*                                                                         *)
(* This module has the account, what each step of the programs does, and   *)
(* that packets, rounds of the receiver and time keep the Budget and the   *)
(* calm; module BondProofs has connection_housekeeping, the invariant for  *)
(* every action, and the theorems.                                         *)
(***************************************************************************)
EXTENDS Bond, TLAPS

Wait == 1 + (IF REG2_TIMEOUT <= REG3_TIMEOUT THEN REG3_TIMEOUT ELSE REG2_TIMEOUT)

\* Endured so far: the faults, but for repeated packets that are still to come.
Endured == faults - Cardinality(late)

\* Seconds until the sender may register again.
Barred == IF regTimeout >= Now THEN (regTimeout - Now) + 1 ELSE 0

\* An outage that began at a and will last for n seconds more is not longer
\* than d disturbances can make it.
AffordAt(a, d, n) == (Now - a) + n <= Wait * d

Afford(n) == AffordAt(allFailedAt, Endured, n)

HeardSince(t) == \E l \in Link : link[l].lastRcvd >= t

\* A group of the table G that was registered in this second.
FreshIn(G, id) == id \in DOMAIN G /\ G[id].created = Now

Fresh(id) == FreshIn(groups, id)

IsReg1(p) == p.to = "receiver" /\ p.type = "REG1"
IsReg2(p) == p.to = "receiver" /\ p.type = "REG2"
IsAnswer(p) == p.to = "sender" /\ p.type = "REG2"
IsNoGroup(p) == p.to = "sender" /\ p.type = "REG_NGP"

\* Packets in which the sender sees a sign of life.
IsSign(p) == p.to = "sender" /\ p.type \in {"REG3", "REG_ERR", "KEEPALIVE"}

(***************************************************************************)
(* In a second without disturbances there is at most one REG1 or one       *)
(* answer to it on its way, on the link that pending_reg2_conn points to.  *)
(***************************************************************************)
Orderly ==
  \A p \in net :
    /\ IsReg1(p) => p.link = pending
    /\ IsAnswer(p) => /\ p.link = pending /\ Fresh(p.id)
                      /\ \A q \in net : ~IsReg1(q) /\ (IsAnswer(q) => q = p)

\* A packet that leads to a sign of life if nothing disturbs.
Promise(p) ==
  \/ IsSign(p)
  \/ (IsReg2(p) \/ IsNoGroup(p)) /\ Barred = 0 /\ pending = None /\ active = 0
  \/ IsReg1(p) \/ IsAnswer(p)
  \/ IsReg2(p) /\ Fresh(p.id) /\ pending = None

\* Before and after connection_housekeeping ran in this second.
Before ==
  \/ HeardSince(Now - 1)
  \/ Afford(Wait)
  \/ Afford(Barred) /\ \A p \in net : IsSign(p)

After ==
  \/ HeardSince(Now)
  \/ Afford(Wait)
  \/ Orderly /\ Barred > 0 /\ Afford(Barred)
  \/ Orderly /\ Afford(0) /\ \E p \in net : Promise(p)

Budget == ~dark /\ allFailedAt # 0 => IF lastRan = Now THEN After ELSE Before

(***************************************************************************)
(* A run that nothing disturbed yet.  At the Start nothing has been sent;  *)
(* in the Opening second the registration is under way; from then on the   *)
(* two programs stay Together on some link: the receiver Held its          *)
(* connection a second ago at most, and the keepalive of the second, its   *)
(* echo or the link's last_rcvd shows that the sender hears of it.         *)
(***************************************************************************)
Held(l, t) ==
  \E g \in DOMAIN groups :
    /\ R!find_by_address(l, g)
    /\ \E c \in groups[g].conns : c.addr = l /\ c.lastRcvd >= t

Together(l) ==
  /\ Held(l, Now - 1)
  /\ IF lastRan = Now
     THEN /\ send_keepalive(l) \in net \/ Held(l, Now)
          /\ \/ send_keepalive(l) \in net
             \/ \E p \in net : IsSign(p) /\ p.link = l
             \/ link[l].lastRcvd >= Now
     ELSE link[l].lastRcvd >= Now - 1

Start ==
  /\ lastRan # Now /\ net = {} /\ DOMAIN groups = {} /\ Barred = 0
  /\ \A l \in Link : link[l].lastRcvd = 0

Budding ==
  \A g \in DOMAIN groups :
    groups[g].conns = {} /\ groups[g].created = Now /\ \A h \in DOMAIN groups : h = g

Opening ==
  /\ lastRan = Now /\ Orderly /\ Budding
  /\ \A p \in net : p.to = "sender" => IsNoGroup(p) \/ IsAnswer(p)
  /\ \E p \in net : Promise(p)
  /\ (\E p \in net : IsReg1(p)) => DOMAIN groups = {}
  /\ DOMAIN groups # {} => pending # None \/ Barred > 0

Calm ==
  Endured = 0 =>
    /\ down = {} /\ DOMAIN entries = {}
    /\ \/ (Start \/ Opening) /\ ~hasConnected
       \/ \E l \in Link : Together(l)

\* What the account relies on.
Links ==
  /\ DOMAIN link = Link
  /\ \A l \in Link : /\ {"fd", "lastRcvd"} \subseteq DOMAIN link[l]
                     /\ link[l].fd = TRUE /\ link[l].lastRcvd \in Nat

Times ==
  /\ clock = Now /\ (phase = "events" => ts = Now) /\ phase \in {"wait", "events"}
  /\ regTimeout \in Nat /\ regTimeout <= Now + (Wait - 1)
  /\ allFailedAt \in Nat

Network ==
  /\ down \subseteq Link
  /\ \A p \in net : p.link \in Link \ down /\ (IsReg1(p) => p = send_reg1(p.link))
  /\ \A q \in late : /\ DOMAIN q = {"packet", "left"} /\ q.packet.link \in Link
                     /\ IsReg1(q.packet) => q.packet = send_reg1(q.packet.link)

Count ==
  /\ faults \in Nat
  /\ IsFiniteSet(late) /\ Cardinality(late) \in 0 .. faults

GoodConn(c) ==
  /\ {"addr", "lastRcvd", "recStart"} \subseteq DOMAIN c
  /\ c.addr \in Link /\ c.lastRcvd \in Nat

GoodGroup(G) ==
  /\ {"created", "conns", "info", "lastAddr"} \subseteq DOMAIN G
  /\ \A c \in G.conns : GoodConn(c)

GoodGroups ==
  /\ nextId \in Nat
  /\ \A g \in DOMAIN groups : g \in Nat /\ g < nextId /\ GoodGroup(groups[g])

Rest ==
  /\ pending \in Link \cup {None} /\ addrs = 1
  /\ GoodGroups
  /\ ~dark => down # Link /\ (exited => WornOut(faults))

IInv == Links /\ Times /\ Network /\ Count /\ Rest /\ Budget /\ Calm

-----------------------------------------------------------------------------
(***************************************************************************)
(* The account.                                                            *)
(***************************************************************************)
LEMMA Constants ==
  /\ Now \in Nat /\ GLOBAL_TIMEOUT \in Nat /\ GLOBAL_TIMEOUT <= Now - 3
  /\ CONN_TIMEOUT \in Nat \ {0} /\ CONN_TIMEOUT <= Now - 3
  /\ REG2_TIMEOUT \in Nat \ {0} /\ REG3_TIMEOUT \in Nat \ {0}
BY BondConstants

LEMMA WaitBounds ==
  Wait \in Nat \ {0} /\ REG2_TIMEOUT + 1 <= Wait /\ REG3_TIMEOUT + 1 <= Wait
BY Constants DEF Wait

LEMMA Product ==
  ASSUME NEW d \in Nat, NEW e \in Nat
  PROVE  /\ Wait * d \in Nat /\ Wait * e \in Nat
         /\ e <= d => Wait * e <= Wait * d
         /\ e < d => Wait * e + Wait <= Wait * d
<1>1. Wait \in Nat
  BY WaitBounds
<1>2. Wait * d \in Nat /\ Wait * e \in Nat
  BY <1>1
<1>3. ASSUME e <= d  PROVE  Wait * e <= Wait * d
  BY <1>1, <1>3
<1>4. ASSUME e < d  PROVE  Wait * e + Wait <= Wait * d
  <2>1. e + 1 <= d /\ e + 1 \in Nat
    BY <1>4
  <2>2. Wait * (e + 1) <= Wait * d
    BY <1>1, <2>1
  <2>3. Wait * (e + 1) = Wait * e + Wait
    BY <1>1
  <2> QED
    BY <2>2, <2>3
<1> QED
  BY <1>2, <1>3, <1>4

\* More disturbances and fewer seconds can be afforded.
LEMMA Cheaper ==
  ASSUME NEW a \in Nat, NEW d \in Nat, NEW e \in Nat, d <= e,
         NEW m \in Nat, NEW n \in Nat, m <= n, AffordAt(a, d, n)
  PROVE  AffordAt(a, e, m)
<1>1. Wait * d \in Nat /\ Wait * e \in Nat /\ Wait * d <= Wait * e
  BY Product
<1> QED
  BY <1>1, Constants DEF AffordAt

\* A disturbance pays for a wait.
LEMMA Spent ==
  ASSUME NEW a \in Nat, NEW d \in Nat, NEW e \in Nat, d < e,
         NEW n \in Nat, AffordAt(a, d, n)
  PROVE  AffordAt(a, e, Wait)
<1>1. Wait * d \in Nat /\ Wait * e \in Nat /\ Wait * d + Wait <= Wait * e
  BY Product
<1> QED
  BY <1>1, Constants, WaitBounds DEF AffordAt

\* A second passes.
LEMMA SecondLater ==
  ASSUME NEW a \in Nat, NEW d \in Nat, NEW n \in Nat, AffordAt(a, d, n + 1)
  PROVE  AffordAt(a - 1, d, n)
<1>1. Wait * d \in Nat
  BY Product
<1> QED
  BY <1>1, Constants DEF AffordAt

\* An outage that begins after a disturbance may include a wait, and one that
\* begins without any may include nothing more.
LEMMA AtFirst ==
  ASSUME NEW d \in Nat
  PROVE  AffordAt(Now, d, 0) /\ (d # 0 => AffordAt(Now, d, Wait))
<1>1. Wait * d \in Nat /\ (0 < d => Wait * 0 + Wait <= Wait * d)
  BY Product
<1> QED
  BY <1>1, WaitBounds, Constants DEF AffordAt

\* An outage too long for the sender had disturbances enough.
LEMMA TooLong ==
  ASSUME NEW a \in Nat, NEW d \in Nat, NEW f \in Nat, d <= f,
         NEW n \in Nat, AffordAt(a, d, n), Now > a + GLOBAL_TIMEOUT
  PROVE  WornOut(f)
<1>1. PICK t \in {REG2_TIMEOUT, REG3_TIMEOUT} : Wait = t + 1
  BY Constants DEF Wait
<1>2. Wait * d \in Nat /\ Wait * f \in Nat /\ Wait * d <= Wait * f
  BY Product
<1>3. Wait * f > GLOBAL_TIMEOUT
  BY <1>2, Constants DEF AffordAt
<1>4. Wait * f = f * (t + 1)
  BY <1>1, WaitBounds
<1> QED
  BY <1>3, <1>4 DEF WornOut

LEMMA WornOutStays ==
  ASSUME NEW f \in Nat, NEW g \in Nat, f <= g, WornOut(f)
  PROVE  WornOut(g)
<1>1. PICK t \in {REG2_TIMEOUT, REG3_TIMEOUT} : f * (t + 1) > GLOBAL_TIMEOUT
  BY DEF WornOut
<1>2. t \in Nat
  BY Constants
<1>3. f * (t + 1) <= g * (t + 1)
  BY <1>2
<1>4. f * (t + 1) \in Nat /\ g * (t + 1) \in Nat /\ GLOBAL_TIMEOUT \in Nat
  BY <1>2, Constants
<1>5. g * (t + 1) > GLOBAL_TIMEOUT
  BY <1>1, <1>3, <1>4
<1> QED
  BY <1>5 DEF WornOut

LEMMA BarredBounds ==
  ASSUME Times
  PROVE  Barred \in Nat /\ Barred <= Wait /\ (Barred = 0 <=> Now > regTimeout)
BY Constants, WaitBounds DEF Times, Barred

LEMMA EnduredType ==
  ASSUME Count
  PROVE  Endured \in Nat /\ Endured <= faults
BY DEF Count, Endured

LEMMA EnduredTypeNext ==
  ASSUME Count'
  PROVE  Endured' \in Nat /\ Endured' <= faults'
BY DEF Count, Endured
-----------------------------------------------------------------------------
(***************************************************************************)
(* What the programs' steps do to the variables the account is about.      *)
(***************************************************************************)
Failing == {l \in Link : S!conn_timed_out(link[l], Now)}

LEMMA SecondIsNow ==
  ASSUME Times, S!ReadClock
  PROVE  clock' = Now /\ S!Seconds(clock') = Now
<1>1. clock' = Now
  BY Constants DEF Times, S!ReadClock
<1>2. Now \div 1 = Now
  BY Constants
<1> QED
  BY <1>1, <1>2 DEF S!Seconds

\* The four things a packet may do to the sender.
Registers(p) ==
  /\ IsNoGroup(p) /\ Now > regTimeout /\ pending = None /\ active = 0
  /\ pending' = p.link /\ regTimeout' = Now + REG2_TIMEOUT
  /\ UNCHANGED <<link, active, hasConnected>>
  /\ net' = (net \ {p}) \cup Sent({send_reg1(p.link)})

Joins(p) ==
  /\ IsAnswer(p) /\ pending = p.link
  /\ pending' = None /\ regTimeout' = Now + REG3_TIMEOUT
  /\ UNCHANGED <<link, active, hasConnected>>
  /\ net' = (net \ {p}) \cup Sent({send_reg2(l, p.id) : l \in Link})

Ignores(p) ==
  /\ \/ IsNoGroup(p) /\ ~(Now > regTimeout /\ pending = None /\ active = 0)
     \/ IsAnswer(p) /\ pending # p.link
  /\ UNCHANGED <<pending, regTimeout, link, active, hasConnected>>
  /\ net' = net \ {p}

Hears(p) ==
  /\ ~IsNoGroup(p) /\ ~IsAnswer(p)
  /\ link' = [link EXCEPT ![p.link].lastRcvd = Now]
  /\ active' \in {active, active + 1}
  /\ UNCHANGED <<pending, regTimeout>>
  /\ net' = net \ {p}

LEMMA SenderEffect ==
  ASSUME Links, Times, Network, Rest, NEW p \in net, handle_srtla_data(p)
  PROVE  /\ p.to = "sender" /\ clock' = Now
         /\ UNCHANGED <<lastRan, allFailedAt, addrs, exited, receiverVars, linkVars>>
         /\ Registers(p) \/ Joins(p) \/ Ignores(p) \/ Hears(p)
<1> DEFINE kind == IF p.type \in {"REG_NGP", "REG2", "REG3"} THEN p.type ELSE "other"
<1>1. /\ p.to = "sender" /\ S!handle_srtla_data(p.link, kind)
      /\ UNCHANGED <<receiverVars, linkVars>>
  BY DEF handle_srtla_data
<1>2. clock' = Now /\ S!Seconds(clock') = Now
  BY <1>1, SecondIsNow DEF S!handle_srtla_data
<1>3. UNCHANGED <<lastRan, allFailedAt, addrs, exited>>
  BY <1>1 DEF S!handle_srtla_data, S!hkVars
<1>4. p.link \in Link /\ p.link # None
  BY BondConstants DEF Network
<1>5. net' = (net \ {p}) \cup Sent(
         CASE p.type = "REG_NGP" /\ pending' # pending -> {send_reg1(p.link)}
           [] p.type = "REG2" /\ pending' # pending -> {send_reg2(l, p.id) : l \in Link}
           [] OTHER -> {})
  BY DEF handle_srtla_data
<1>6. Sent({}) = {}
  BY DEF Sent
<1>7. CASE p.type = "REG_NGP"
  <2>1. S!receive_ngp(p.link)
    BY <1>1, <1>7 DEF S!handle_srtla_data, S!receive_traffic
  <2>2. UNCHANGED <<link, active, hasConnected>>
    BY <2>1 DEF S!receive_ngp
  <2>3. S!MayRegister(Now) <=> Now > regTimeout /\ pending = None /\ active = 0
    BY DEF S!MayRegister
  <2>4. CASE S!MayRegister(Now)
    <3>1. pending' = p.link /\ pending' # pending
      BY <1>4, <1>7, <2>3, <2>4 DEF handle_srtla_data
    <3>2. regTimeout' = Now + REG2_TIMEOUT
      BY <1>2, <2>1, <3>1 DEF S!receive_ngp
    <3>3. net' = (net \ {p}) \cup Sent({send_reg1(p.link)})
      BY <1>5, <1>7, <3>1
    <3> QED
      BY <1>1, <1>2, <1>3, <1>7, <2>2, <2>3, <2>4, <3>1, <3>2, <3>3 DEF Registers, IsNoGroup
  <2>5. CASE ~S!MayRegister(Now)
    <3>1. UNCHANGED <<pending, regTimeout>>
      BY <1>2, <2>1, <2>5 DEF S!receive_ngp
    <3>2. net' = net \ {p}
      BY <1>5, <1>6, <1>7, <3>1
    <3> QED
      BY <1>1, <1>2, <1>3, <1>7, <2>2, <2>3, <2>5, <3>1, <3>2 DEF Ignores, IsNoGroup
  <2> QED
    BY <2>4, <2>5
<1>8. CASE p.type = "REG2"
  <2>1. PICK id : S!receive_reg2(p.link, id)
    BY <1>1, <1>8 DEF S!handle_srtla_data
  <2>2. UNCHANGED <<link, active, hasConnected>>
    BY <2>1 DEF S!receive_reg2
  <2>3. CASE pending = p.link
    <3>1. pending' = None /\ pending' # pending
      BY <1>4, <1>8, <2>3 DEF handle_srtla_data
    <3>2. regTimeout' = Now + REG3_TIMEOUT
      BY <1>2, <2>1, <3>1 DEF S!receive_reg2, S!regVars
    <3>3. net' = (net \ {p}) \cup Sent({send_reg2(l, p.id) : l \in Link})
      BY <1>5, <1>8, <3>1
    <3> QED
      BY <1>1, <1>2, <1>3, <1>8, <2>2, <2>3, <3>1, <3>2, <3>3 DEF Joins, IsAnswer
  <2>4. CASE pending # p.link
    <3>1. UNCHANGED <<pending, regTimeout>>
      BY <2>1, <2>4 DEF S!receive_reg2, S!regVars
    <3>2. net' = net \ {p}
      BY <1>5, <1>6, <1>8, <3>1
    <3> QED
      BY <1>1, <1>2, <1>3, <1>8, <2>2, <2>4, <3>1, <3>2 DEF Ignores, IsAnswer
  <2> QED
    BY <2>3, <2>4
<1>9. CASE p.type \notin {"REG_NGP", "REG2"}
  <2>1. kind \in {"REG3", "other"}
    BY <1>9
  <2>2. /\ link' = S!HeardOn(p.link) /\ active' \in {active, active + 1}
        /\ UNCHANGED <<pending, regTimeout>>
    <3> HIDE DEF kind
    <3>1. CASE kind = "REG3"
      BY <1>1, <3>1 DEF S!handle_srtla_data, S!receive_reg3, S!regVars
    <3>2. CASE kind = "other"
      BY <1>1, <3>2 DEF S!handle_srtla_data, S!receive_traffic, S!regVars
    <3> QED
      BY <2>1, <3>1, <3>2
  <2>3. link' = [link EXCEPT ![p.link].lastRcvd = Now]
    BY <1>2, <2>2 DEF S!HeardOn
  <2>4. net' = net \ {p}
    BY <1>5, <1>6, <1>9
  <2> QED
    BY <1>1, <1>2, <1>3, <1>9, <2>2, <2>3, <2>4 DEF Hears, IsNoGroup, IsAnswer
<1> QED
  BY <1>7, <1>8, <1>9

\* No group goes, and none changes its age.
GroupsKept ==
  \A g \in DOMAIN groups : g \in DOMAIN groups' /\ groups'[g].created = groups[g].created

\* The things a packet may do at the receiver; a and type are the answer's.
Answered(p, type, id) == net' = (net \ {p}) \cup {Packet("sender", p.link, type, id)}

Refuses(p) == IsReg1(p) /\ Answered(p, "REG_ERR", 0)

Opens(p) == IsReg1(p) /\ \E id : FreshIn(groups', id) /\ Answered(p, "REG2", id)

Replies(p) ==
  /\ IsReg2(p) /\ GroupsKept
  /\ \E type \in {"REG_NGP", "REG_ERR", "REG3"} :
       Answered(p, type, 0) /\ (p.id \in DOMAIN groups => type # "REG_NGP")

Echoes(p) ==
  /\ ~IsReg1(p) /\ ~IsReg2(p) /\ GroupsKept
  /\ net' = net \ {p} \/ Answered(p, "KEEPALIVE", 0)

LEMMA Reg2Packet ==
  ASSUME NEW l, NEW id, NEW q, q = send_reg2(l, id)
  PROVE  IsReg2(q) /\ ~IsReg1(q) /\ ~IsAnswer(q) /\ q.link = l /\ q.id = id
BY DEF send_reg2, Packet, IsReg1, IsReg2, IsAnswer

LEMMA SentUp ==
  ASSUME Network, NEW p \in net, NEW type, NEW id
  PROVE  Sent({Packet("sender", p.link, type, id)}) = {Packet("sender", p.link, type, id)}
BY DEF Network, Sent, Packet

LEMMA Reg1Effect ==
  ASSUME Rest, ts = Now, NEW a \in Link, NEW reply, reply # R!NoReply, R!register_group(a, reply)
  PROVE  /\ GoodGroups'
         /\ reply = R!REG_ERR \/ \E id : reply = R!REG2(id) /\ FreshIn(groups', id)
<1>1. CASE reply = R!REG_ERR /\ UNCHANGED <<groups, nextId>>
  BY <1>1 DEF GoodGroups, Rest
<1>2. ASSUME NEW room \in SUBSET DOMAIN groups, reply = R!REG_ERR,
             groups' = [g \in room |-> groups[g]], nextId' = nextId
      PROVE  GoodGroups' /\ reply = R!REG_ERR
  BY <1>2 DEF GoodGroups, Rest
<1>3. ASSUME NEW room \in SUBSET DOMAIN groups, reply = R!REG2(nextId),
             groups' = [g \in room \cup {nextId} |->
                          IF g = nextId THEN R!NewGroup(a, ts) ELSE groups[g]],
             nextId' = nextId + 1
      PROVE  GoodGroups' /\ reply = R!REG2(nextId) /\ FreshIn(groups', nextId)
  <2>1. GoodGroup(R!NewGroup(a, ts)) /\ R!NewGroup(a, ts).created = Now
    BY DEF GoodGroup, R!NewGroup
  <2>2. GoodGroups'
    BY <1>3, <2>1 DEF GoodGroups, Rest
  <2>3. nextId \in DOMAIN groups' /\ groups'[nextId].created = Now
    BY <1>3, <2>1
  <2>4. reply = R!REG2(nextId) /\ FreshIn(groups', nextId)
    BY <1>3, <2>3 DEF FreshIn
  <2> QED
    BY <2>2, <2>4
<1>4. \A room \in R!Rooms : room \in SUBSET DOMAIN groups
  BY DEF R!Rooms
<1> QED
  BY <1>1, <1>2, <1>3, <1>4, Zenon DEF R!register_group

LEMMA Reg2Effect ==
  ASSUME Rest, ts = Now, NEW a \in Link, NEW id, NEW reply, reply # R!NoReply,
         R!register_connection(a, id, reply)
  PROVE  /\ GoodGroups' /\ GroupsKept
         /\ reply \in {R!REG_NGP, R!REG_ERR, R!REG3}
         /\ id \in DOMAIN groups => reply # R!REG_NGP
<1>0. nextId' = nextId
  BY DEF R!register_connection
<1>1. R!REG_NGP # R!REG_ERR /\ R!REG_NGP # R!REG3
  BY DEF R!REG_NGP, R!REG_ERR, R!REG3
<1>2. CASE UNCHANGED groups
  <2>1. GoodGroups' /\ GroupsKept
    BY <1>0, <1>2 DEF GoodGroups, GroupsKept, Rest
  <2> QED
    BY <1>1, <2>1 DEF R!register_connection
<1> DEFINE G == groups[id]
           A == R!Admit(G, a, ts)
           H == [R!write_socket_info_file(A) EXCEPT !.lastAddr = a]
<1>3. CASE /\ id \in DOMAIN groups /\ reply = R!REG3
           /\ groups' = [groups EXCEPT ![id] = H]
  <2>1. GoodGroup(G)
    BY <1>3 DEF Rest, GoodGroups
  <2>2. GoodGroup(A) /\ A.created = G.created
    <3>1. GoodConn(R!NewConnection(a, ts))
      BY Constants DEF GoodConn, R!NewConnection
    <3> HIDE DEF G
    <3> QED
      BY <2>1, <3>1 DEF GoodGroup, R!Admit
  <2> HIDE DEF A
  <2>3. GoodGroup(H) /\ H.created = G.created
    BY <2>2 DEF GoodGroup, R!write_socket_info_file
  <2> HIDE DEF H
  <2>4. GoodGroups' /\ GroupsKept
    BY <1>0, <1>3, <2>3 DEF GoodGroups, GroupsKept, Rest
  <2> QED
    BY <1>1, <1>3, <2>4
<1> QED
  BY <1>2, <1>3 DEF R!register_connection

LEMMA KeepaliveEffect ==
  ASSUME Rest, ts = Now, NEW a \in Link, NEW reply, receive_keepalive(a, reply)
  PROVE  GoodGroups' /\ GroupsKept /\ reply \in {KEEPALIVE, R!NoReply}
<1>0. nextId' = nextId
  BY DEF receive_keepalive
<1>1. CASE UNCHANGED groups /\ reply = R!NoReply
  BY <1>0, <1>1 DEF GoodGroups, GroupsKept, Rest
<1>2. ASSUME NEW g \in DOMAIN groups, NEW c \in groups[g].conns, reply = KEEPALIVE,
             R!receive_keepalive(g, c)
      PROVE  GoodGroups' /\ GroupsKept
  <2> DEFINE G == groups[g]
             d == R!Heard(c, ts)
             H == R!WithConn(G, c, d)
  <2>1. GoodGroup(G)
    BY DEF Rest, GoodGroups
  <2>2. GoodConn(d)
    BY <2>1, Constants DEF GoodGroup, GoodConn, R!Heard
  <2> HIDE DEF G, d
  <2>3. GoodGroup(H) /\ H.created = G.created
    BY <2>1, <2>2 DEF GoodGroup, R!WithConn
  <2>4. groups' = [groups EXCEPT ![g] = H]
    BY <1>2 DEF R!receive_keepalive, G, d
  <2> HIDE DEF H
  <2> QED
    BY <1>0, <2>3, <2>4 DEF GoodGroups, GroupsKept, Rest, G
<1> QED
  BY <1>1, <1>2 DEF receive_keepalive

LEMMA ReceiverEffect ==
  ASSUME Times, Network, Rest, NEW p \in net, process_single_packet(p)
  PROVE  /\ p.to = "receiver"
         /\ UNCHANGED <<ts, phase, clock, senderVars, linkVars>> /\ GoodGroups'
         /\ Refuses(p) \/ Opens(p) \/ Replies(p) \/ Echoes(p)
<1>1. PICK reply :
        /\ \/ p.type = "REG1" /\ reply # R!NoReply /\ R!register_group(p.link, reply)
           \/ p.type = "REG2" /\ reply # R!NoReply /\ R!register_connection(p.link, p.id, reply)
           \/ p.type = "KEEPALIVE" /\ receive_keepalive(p.link, reply)
        /\ net' = (net \ {p}) \cup Sent(Answers(p.link, reply))
  BY DEF process_single_packet
<1>2. p.to = "receiver" /\ UNCHANGED <<senderVars, linkVars>>
  BY DEF process_single_packet
<1>3. R!InRound /\ clock' = clock
  BY <1>1 DEF R!register_group, R!register_connection, receive_keepalive
<1>4. phase = "events" /\ ts = Now /\ UNCHANGED <<ts, phase, clock>>
  BY <1>3 DEF R!InRound, Times
<1>5. p.link \in Link
  BY DEF Network
<1>6. CASE p.type = "REG1" /\ reply # R!NoReply /\ R!register_group(p.link, reply)
  <2>1. GoodGroups' /\ (reply = R!REG_ERR \/ \E id : reply = R!REG2(id) /\ FreshIn(groups', id))
    BY <1>4, <1>5, <1>6, Reg1Effect
  <2>2. CASE reply = R!REG_ERR
    <3>1. Answers(p.link, reply) = {Packet("sender", p.link, "REG_ERR", 0)}
      BY <1>6, <2>2 DEF Answers, R!REG_ERR
    <3>2. Answered(p, "REG_ERR", 0)
      BY <1>1, <3>1, SentUp, Zenon DEF Answered
    <3> QED
      BY <1>2, <1>4, <1>6, <2>1, <3>2 DEF Refuses, IsReg1
  <2>3. ASSUME NEW id, reply = R!REG2(id), FreshIn(groups', id)
        PROVE  Opens(p)
    <3>1. Answers(p.link, reply) = {Packet("sender", p.link, "REG2", id)}
      BY <1>6, <2>3 DEF Answers, R!REG2
    <3>2. Answered(p, "REG2", id)
      BY <1>1, <3>1, SentUp, Zenon DEF Answered
    <3> QED
      BY <1>2, <1>6, <2>3, <3>2 DEF Opens, IsReg1
  <2> QED
    BY <1>2, <1>4, <2>1, <2>2, <2>3
<1>7. CASE p.type = "REG2" /\ reply # R!NoReply /\ R!register_connection(p.link, p.id, reply)
  <2>1. /\ GoodGroups' /\ GroupsKept /\ reply \in {R!REG_NGP, R!REG_ERR, R!REG3}
        /\ p.id \in DOMAIN groups => reply # R!REG_NGP
    BY <1>4, <1>5, <1>7, Reg2Effect
  <2>2. /\ reply.type \in {"REG_NGP", "REG_ERR", "REG3"}
        /\ reply # R!REG_NGP => reply.type # "REG_NGP"
    BY <2>1 DEF R!REG_NGP, R!REG_ERR, R!REG3
  <2>3. Answers(p.link, reply) = {Packet("sender", p.link, reply.type, 0)}
    BY <1>7, <2>2 DEF Answers
  <2>4. Answered(p, reply.type, 0)
    BY <1>1, <2>3, SentUp, Zenon DEF Answered
  <2>5. Replies(p)
    BY <1>2, <1>7, <2>1, <2>2, <2>4 DEF Replies, IsReg2
  <2> QED
    BY <1>2, <1>4, <2>1, <2>5
<1>8. CASE p.type = "KEEPALIVE" /\ receive_keepalive(p.link, reply)
  <2>1. GoodGroups' /\ GroupsKept /\ reply \in {KEEPALIVE, R!NoReply}
    BY <1>4, <1>5, <1>8, KeepaliveEffect
  <2>2. net' = net \ {p} \/ Answered(p, "KEEPALIVE", 0)
    <3>1. CASE reply = R!NoReply
      <4>1. Answers(p.link, reply) = {}
        BY <3>1 DEF Answers, R!NoReply
      <4>2. Sent({}) = {}
        BY DEF Sent
      <4> QED
        BY <1>1, <4>1, <4>2
    <3>2. CASE reply = KEEPALIVE
      <4>1. KEEPALIVE # R!NoReply /\ KEEPALIVE.type = "KEEPALIVE"
        BY DEF KEEPALIVE, R!NoReply
      <4>2. Answers(p.link, reply) = {Packet("sender", p.link, "KEEPALIVE", 0)}
        BY <3>2, <4>1 DEF Answers
      <4> QED
        BY <1>1, <4>2, SentUp DEF Answered
    <3> QED
      BY <2>1, <3>1, <3>2
  <2>3. Echoes(p)
    BY <1>8, <2>1, <2>2 DEF Echoes, IsReg1, IsReg2
  <2> QED
    BY <1>2, <1>4, <2>1, <2>3
<1> QED
  BY <1>1, <1>6, <1>7, <1>8

\* Cleaning up leaves the groups of this second alone and sends signs of life.
RoundKeeps ==
  /\ GoodGroups' /\ \A id : Fresh(id) => FreshIn(groups', id)
  /\ net \subseteq net' /\ \A p \in net' \ net : IsSign(p) /\ p.link \in Link \ down

LEMMA CleanGroupEffect ==
  ASSUME NEW G, GoodGroup(G)
  PROVE  LET C == R!CleanGroup(G, ts)
         IN  /\ GoodGroup(C) /\ C.created = G.created /\ C.lastAddr = G.lastAddr
             /\ C.conns = {R!SettleRecovery(c, ts) : c \in {d \in G.conns : ~R!conn_timed_out(d, ts)}}
<1>1. ASSUME NEW c \in G.conns
      PROVE  GoodConn(R!SettleRecovery(c, ts))
  BY DEF GoodGroup, GoodConn, R!SettleRecovery
<1> DEFINE alive == {c \in G.conns : ~R!conn_timed_out(c, ts)}
           settled == {R!SettleRecovery(c, ts) : c \in alive}
           clean == [G EXCEPT !.conns = settled]
           Same(C) == GoodGroup(C) /\ C.created = G.created /\ C.lastAddr = G.lastAddr /\ C.conns = settled
<1>2. \A d \in settled : GoodConn(d)
  BY <1>1
<1> HIDE DEF settled
<1>3. Same(clean)
  BY <1>2 DEF GoodGroup
<1> HIDE DEF clean
<1>4. Same(R!write_socket_info_file(clean))
  BY <1>3 DEF GoodGroup, R!write_socket_info_file
<1>5. R!CleanGroup(G, ts) \in {clean, R!write_socket_info_file(clean)}
  BY DEF R!CleanGroup, clean, settled
<1>6. Same(R!CleanGroup(G, ts))
  BY <1>3, <1>4, <1>5
<1> QED
  BY <1>6 DEF settled

LEMMA CleanupEffect ==
  ASSUME Rest, ts = Now, R!cleanup_inactive(ts)
  PROVE  GoodGroups' /\ \A id : Fresh(id) => FreshIn(groups', id)
<1>0. nextId' = nextId
  BY DEF R!cleanup_inactive
<1>1. CASE UNCHANGED groups
  BY <1>0, <1>1 DEF GoodGroups, Fresh, Rest
<1>2. CASE groups' = R!CleanGroups(ts)
  <2> DEFINE clean == [g \in DOMAIN groups |-> R!CleanGroup(groups[g], ts)]
  <2>2. groups' = [g \in {h \in DOMAIN groups : ~R!Reapable(clean[h], ts)} |-> clean[g]]
    BY <1>2 DEF R!CleanGroups
  <2>3. \A g \in DOMAIN groups : GoodGroup(clean[g]) /\ clean[g].created = groups[g].created
    BY CleanGroupEffect DEF Rest, GoodGroups
  <2> HIDE DEF clean
  <2>4. GoodGroups'
    BY <1>0, <2>2, <2>3 DEF GoodGroups, Rest
  <2>5. ASSUME NEW id, Fresh(id)  PROVE  FreshIn(groups', id)
    <3>1. id \in DOMAIN groups /\ clean[id].created = Now
      BY <2>3, <2>5 DEF Fresh, FreshIn
    <3>2. ~R!Reapable(clean[id], ts)
      BY <3>1, BondConstants DEF R!Reapable
    <3> QED
      BY <2>2, <3>1, <3>2 DEF FreshIn
  <2> QED
    BY <2>4, <2>5
<1> QED
  BY <1>1, <1>2 DEF R!cleanup_inactive

LEMMA RoundEffect ==
  ASSUME Times, Rest, Round
  PROVE  /\ UNCHANGED <<senderVars, linkVars>> /\ RoundKeeps
         /\ clock' = Now /\ phase' \in {"wait", "events"} /\ (phase' = "events" => ts' = Now)
<1>1. UNCHANGED <<senderVars, linkVars>>
  BY DEF Round
<1>2. CASE R!EpollWait /\ UNCHANGED net
  <2>1. clock' = Now /\ ts' = Now /\ phase' = "events" /\ UNCHANGED <<groups, nextId>>
    BY <1>2, Constants DEF R!EpollWait, Times
  <2> QED
    BY <1>1, <1>2, <2>1 DEF RoundKeeps, GoodGroups, Fresh, Rest
<1>3. CASE R!EndRound /\ net' = net \cup Sent(CleanupPackets)
  <2>1. ts = Now /\ clock' = Now /\ phase' = "wait" /\ R!cleanup_inactive(ts)
    BY <1>3 DEF R!EndRound, Times
  <2>2. GoodGroups' /\ \A id : Fresh(id) => FreshIn(groups', id)
    BY <2>1, CleanupEffect
  <2>3. ASSUME NEW p \in Sent(CleanupPackets)
        PROVE  IsSign(p) /\ p.link \in Link \ down
    <3>1. p \in CleanupPackets /\ p.link \notin down
      BY DEF Sent
    <3>2. PICK g \in DOMAIN groups' : \E c \in groups'[g].conns :
            p = Packet("sender", c.addr, "KEEPALIVE", 0)
      BY <3>1 DEF CleanupPackets
    <3>3. \A c \in groups'[g].conns : c.addr \in Link
      BY <2>2, <3>2 DEF GoodGroups, GoodGroup, GoodConn
    <3> QED
      BY <3>1, <3>2, <3>3 DEF IsSign, Packet
  <2>4. RoundKeeps
    BY <1>3, <2>2, <2>3 DEF RoundKeeps
  <2> QED
    BY <1>1, <2>1, <2>4
<1> QED
  BY <1>2, <1>3 DEF Round
-----------------------------------------------------------------------------
(***************************************************************************)
(* The receiver keeps a connection that it Held, and keeps answering for   *)
(* its address with the same group.                                        *)
(***************************************************************************)
LEMMA FirstKept ==
  ASSUME NEW l, NEW g, R!find_by_address(l, g), g \in DOMAIN groups', R!Claims(groups'[g], l),
         \A h \in DOMAIN groups' : R!Claims(groups'[h], l) =>
           h \in DOMAIN groups /\ R!Claims(groups[h], l)
  PROVE  R!find_by_address(l, g)'
<1>1. R!Claimants(l)' = {h \in DOMAIN groups' : R!Claims(groups'[h], l)}
  BY DEF R!Claimants, R!Claims, R!get_client_addresses
<1>2. R!Claimants(l)' \subseteq R!Claimants(l) /\ g \in R!Claimants(l)'
  BY <1>1 DEF R!Claimants
<1>3. \A h \in R!Claimants(l) : g <= h
  BY DEF R!find_by_address, R!IsFirst
<1> QED
  BY <1>2, <1>3 DEF R!find_by_address, R!IsFirst

LEMMA HeldKept ==
  ASSUME NEW l, NEW t, NEW u, Held(l, t),
         \A h \in DOMAIN groups' : R!Claims(groups'[h], l) =>
           h \in DOMAIN groups /\ R!Claims(groups[h], l),
         \A g \in DOMAIN groups : \A c \in groups[g].conns : c.addr = l /\ c.lastRcvd >= t =>
           g \in DOMAIN groups' /\ \E d \in groups'[g].conns : d.addr = l /\ d.lastRcvd >= u
  PROVE  Held(l, u)'
<1>1. PICK g \in DOMAIN groups :
        R!find_by_address(l, g) /\ \E c \in groups[g].conns : c.addr = l /\ c.lastRcvd >= t
  BY DEF Held
<1>2. g \in DOMAIN groups' /\ \E d \in groups'[g].conns : d.addr = l /\ d.lastRcvd >= u
  BY <1>1
<1>3. R!Claims(groups'[g], l)
  BY <1>2 DEF R!Claims, R!get_client_addresses
<1>4. R!find_by_address(l, g)'
  BY <1>1, <1>2, <1>3, FirstKept
<1> QED
  BY <1>2, <1>4 DEF Held

LEMMA HeldReg1 ==
  ASSUME Rest, NEW a, NEW reply, R!register_group(a, reply), NEW l, NEW t, Held(l, t)
  PROVE  Held(l, t)'
<1>1. ASSUME NEW room \in R!Rooms, NEW g \in DOMAIN groups, NEW c \in groups[g].conns
      PROVE  g \in room
  BY <1>1 DEF R!Rooms, R!Ghosts
<1>2. \A room \in R!Rooms : room \subseteq DOMAIN groups
  BY DEF R!Rooms
<1>3. CASE UNCHANGED groups
  BY <1>3, HeldKept
<1>4. ASSUME NEW room \in R!Rooms, groups' = [g \in room |-> groups[g]]
      PROVE  Held(l, t)'
  BY <1>1, <1>2, <1>4, HeldKept
<1>5. ASSUME NEW room \in R!Rooms, ~\E g \in room : R!Claims(groups[g], a),
             groups' = [g \in room \cup {nextId} |->
                          IF g = nextId THEN R!NewGroup(a, ts) ELSE groups[g]]
      PROVE  Held(l, t)'
  <2>1. nextId \notin DOMAIN groups
    BY DEF Rest, GoodGroups
  <2>2. PICK g \in DOMAIN groups : \E c \in groups[g].conns : c.addr = l
    BY DEF Held
  <2>3. R!Claims(groups[g], l) /\ g \in room
    BY <1>1, <2>2 DEF R!Claims, R!get_client_addresses
  <2>4. a # l
    BY <1>5, <2>3
  <2>5. ~R!Claims(R!NewGroup(a, ts), l)
    BY <2>4 DEF R!NewGroup, R!Claims, R!get_client_addresses
  <2>6. \A h \in DOMAIN groups' : R!Claims(groups'[h], l) => h \in room /\ groups'[h] = groups[h]
    BY <1>5, <2>5
  <2>7. \A h \in room : h \in DOMAIN groups' /\ groups'[h] = groups[h]
    BY <1>2, <1>5, <2>1
  <2> QED
    BY <1>1, <1>2, <2>6, <2>7, HeldKept
<1> QED
  BY <1>3, <1>4, <1>5, Zenon DEF R!register_group

LEMMA HeldReg2 ==
  ASSUME Rest, NEW a, NEW id, NEW reply, R!register_connection(a, id, reply),
         NEW l, NEW t, Held(l, t)
  PROVE  Held(l, t)'
<1>1. CASE UNCHANGED groups
  BY <1>1, HeldKept
<1> DEFINE G == groups[id]
           A == R!Admit(G, a, ts)
           H == [R!write_socket_info_file(A) EXCEPT !.lastAddr = a]
<1>2. CASE /\ id \in DOMAIN groups /\ ~R!BelongsElsewhere(a, id)
           /\ groups' = [groups EXCEPT ![id] = H]
  <2>1. GoodGroup(G)
    BY <1>2 DEF Rest, GoodGroups
  <2>2. /\ {"conns", "info", "lastAddr"} \subseteq DOMAIN A /\ G.conns \subseteq A.conns
        /\ \A c \in A.conns : c \in G.conns \/ c.addr = a
    BY <2>1 DEF GoodGroup, R!Admit, R!NewConnection
  <2> HIDE DEF A
  <2>3. H.conns = A.conns /\ H.lastAddr = a
    BY <2>2 DEF R!write_socket_info_file
  <2> HIDE DEF H
  <2>4. a = l => R!Claims(G, l)
    <3>1. PICK g \in DOMAIN groups : R!find_by_address(l, g)
      BY DEF Held
    <3>2. a = l => g = id
      BY <1>2, <3>1 DEF R!BelongsElsewhere
    <3> QED
      BY <3>1, <3>2 DEF R!find_by_address, R!IsFirst, R!Claimants
  <2>5. R!Claims(H, l) => R!Claims(G, l)
    BY <2>2, <2>3, <2>4 DEF R!Claims, R!get_client_addresses
  <2> HIDE DEF G
  <2>6. DOMAIN groups' = DOMAIN groups /\ groups'[id] = H /\ \A g \in DOMAIN groups : g # id => groups'[g] = groups[g]
    BY <1>2
  <2>7. \A h \in DOMAIN groups' : R!Claims(groups'[h], l) => R!Claims(groups[h], l)
    BY <2>5, <2>6 DEF G
  <2>8. \A g \in DOMAIN groups : groups[g].conns \subseteq groups'[g].conns
    BY <2>2, <2>3, <2>6 DEF G
  <2> QED
    BY <2>6, <2>7, <2>8, HeldKept
<1> QED
  BY <1>1, <1>2 DEF R!register_connection

LEMMA HeldKeepalive ==
  ASSUME Rest, ts = Now, NEW a, NEW reply, receive_keepalive(a, reply),
         NEW l, NEW t \in Int, t <= Now, Held(l, t)
  PROVE  Held(l, t)' /\ (a = l => reply = KEEPALIVE /\ Held(l, Now)')
<1>1. CASE /\ \A g \in DOMAIN groups : \A c \in groups[g].conns : ~R!Source(a, g, c)
           /\ UNCHANGED groups
  <2>1. a # l
    BY <1>1 DEF R!Source, Held
  <2> QED
    BY <1>1, <2>1, HeldKept
<1>2. ASSUME NEW g \in DOMAIN groups, NEW c \in groups[g].conns, R!Source(a, g, c),
             reply = KEEPALIVE, R!receive_keepalive(g, c)
      PROVE  Held(l, t)' /\ (a = l => Held(l, Now)')
  <2> DEFINE G == groups[g]
             d == R!Heard(c, ts)
             H == R!WithConn(G, c, d)
  <2>1. GoodGroup(G)
    BY DEF Rest, GoodGroups
  <2>2. d.addr = c.addr /\ d.lastRcvd = Now
    BY <2>1 DEF GoodGroup, GoodConn, R!Heard
  <2> HIDE DEF d
  <2>3. H.conns = (G.conns \ {c}) \cup {d} /\ H.lastAddr = G.lastAddr
    BY <2>1 DEF GoodGroup, R!WithConn
  <2>4. groups' = [groups EXCEPT ![g] = H]
    BY <1>2 DEF R!receive_keepalive, d
  <2> HIDE DEF H, G
  <2>5. R!Claims(H, l) => R!Claims(G, l)
    BY <2>2, <2>3 DEF R!Claims, R!get_client_addresses, G
  <2>6. DOMAIN groups' = DOMAIN groups /\ groups'[g] = H /\ \A h \in DOMAIN groups : h # g => groups'[h] = groups[h]
    BY <2>4
  <2>7. \A h \in DOMAIN groups' : R!Claims(groups'[h], l) => h \in DOMAIN groups /\ R!Claims(groups[h], l)
    BY <2>5, <2>6 DEF G
  <2>8. ASSUME NEW h \in DOMAIN groups, NEW e \in groups[h].conns, e.addr = l, e.lastRcvd >= t
        PROVE  \E f \in groups'[h].conns : f.addr = l /\ f.lastRcvd >= t
    <3>1. CASE h = g /\ e = c
      BY <2>2, <2>3, <2>6, <2>8, <3>1, Constants
    <3>2. CASE h # g \/ e # c
      BY <2>3, <2>6, <2>8, <3>2 DEF G
    <3> QED
      BY <3>1, <3>2
  <2>9. Held(l, t)'
    BY <2>6, <2>7, <2>8, HeldKept
  <2>10. ASSUME a = l  PROVE  Held(l, Now)'
    <3>1. R!find_by_address(l, g) /\ c.addr = l
      BY <1>2, <2>10 DEF R!Source
    <3>2. d \in groups'[g].conns /\ d.addr = l /\ d.lastRcvd >= Now
      BY <2>2, <2>3, <2>6, <3>1, Constants
    <3>3. R!Claims(groups'[g], l)
      BY <3>2 DEF R!Claims, R!get_client_addresses
    <3>4. R!find_by_address(l, g)'
      BY <2>6, <2>7, <3>1, <3>3, FirstKept
    <3> QED
      BY <2>6, <3>2, <3>4 DEF Held
  <2> QED
    BY <2>9, <2>10
<1> QED
  BY <1>1, <1>2 DEF receive_keepalive

LEMMA HeldCleanup ==
  ASSUME Rest, ts = Now, R!cleanup_inactive(ts), NEW l, NEW t \in Int, t >= Now - 1, Held(l, t)
  PROVE  Held(l, t)'
<1>1. CASE UNCHANGED groups
  BY <1>1, HeldKept
<1>2. CASE groups' = R!CleanGroups(ts)
  <2> DEFINE clean == [g \in DOMAIN groups |-> R!CleanGroup(groups[g], ts)]
  <2>1. groups' = [g \in {h \in DOMAIN groups : ~R!Reapable(clean[h], ts)} |-> clean[g]]
    BY <1>2 DEF R!CleanGroups
  <2>2. \A g \in DOMAIN groups :
          /\ clean[g].lastAddr = groups[g].lastAddr
          /\ clean[g].conns = {R!SettleRecovery(c, ts) : c \in {d \in groups[g].conns : ~R!conn_timed_out(d, ts)}}
    BY CleanGroupEffect DEF Rest, GoodGroups
  <2>3. \A g \in DOMAIN groups : \A c \in groups[g].conns : GoodConn(c)
    BY DEF Rest, GoodGroups, GoodGroup
  <2> HIDE DEF clean
  <2>4. ASSUME NEW g \in DOMAIN groups, NEW c \in groups[g].conns
        PROVE  LET d == R!SettleRecovery(c, ts) IN d.addr = c.addr /\ d.lastRcvd = c.lastRcvd
    BY <2>3 DEF GoodConn, R!SettleRecovery
  <2>5. \A h \in DOMAIN groups' : R!Claims(groups'[h], l) => h \in DOMAIN groups /\ R!Claims(groups[h], l)
    BY <2>1, <2>2, <2>4 DEF R!Claims, R!get_client_addresses
  <2>6. ASSUME NEW g \in DOMAIN groups, NEW c \in groups[g].conns, c.addr = l, c.lastRcvd >= t
        PROVE  g \in DOMAIN groups' /\ \E d \in groups'[g].conns : d.addr = l /\ d.lastRcvd >= t
    <3> DEFINE d == R!SettleRecovery(c, ts)
    <3>1. ~R!conn_timed_out(c, ts)
      BY <2>3, <2>6, BondConstants DEF GoodConn, R!conn_timed_out
    <3>2. d \in clean[g].conns
      BY <2>2, <3>1
    <3>3. d.addr = l /\ d.lastRcvd >= t
      BY <2>4, <2>6
    <3> HIDE DEF d
    <3>4. ~R!Reapable(clean[g], ts)
      BY <3>2 DEF R!Reapable
    <3> QED
      BY <2>1, <3>2, <3>3, <3>4
  <2> QED
    BY <2>5, <2>6, HeldKept
<1> QED
  BY <1>1, <1>2 DEF R!cleanup_inactive
-----------------------------------------------------------------------------
(***************************************************************************)
(* The account of every step.  First the steps that leave the sender       *)
(* alone: those that disturb it, and those that add signs of life at most. *)
(***************************************************************************)
SenderIdle == UNCHANGED <<link, pending, regTimeout, active, lastRan, allFailedAt>>

LEMMA IdleSame ==
  ASSUME SenderIdle
  PROVE  Barred' = Barred /\ \A t : HeardSince(t) <=> HeardSince(t)'
BY DEF SenderIdle, Barred, HeardSince

LEMMA Disturbed ==
  ASSUME Times, Count, Count', Budget, SenderIdle, dark => dark',
         Endured < Endured'
  PROVE  Budget'
<1> SUFFICES ASSUME ~dark', allFailedAt' # 0
             PROVE  IF lastRan' = Now THEN After' ELSE Before'
  BY DEF Budget
<1>1. IF lastRan = Now THEN After ELSE Before
  BY DEF Budget, SenderIdle
<1>2. Endured \in Nat /\ Endured' \in Nat /\ allFailedAt \in Nat /\ Barred \in Nat
  BY EnduredType, EnduredTypeNext, BarredBounds DEF Times
<1>3. ASSUME NEW n \in Nat, Afford(n)  PROVE  Afford(Wait)'
  <2>1. AffordAt(allFailedAt, Endured', Wait)
    BY <1>2, <1>3, Spent DEF Afford
  <2> QED
    BY <2>1 DEF Afford, SenderIdle
<1>4. Wait \in Nat
  BY WaitBounds
<1>5. CASE lastRan = Now
  <2>1. HeardSince(Now) \/ Afford(Wait) \/ Afford(Barred) \/ Afford(0)
    BY <1>1, <1>5 DEF After
  <2>2. HeardSince(Now)' \/ Afford(Wait)'
    BY <1>2, <1>3, <1>4, <2>1, IdleSame
  <2> QED
    BY <1>5, <2>2 DEF After, SenderIdle
<1>6. CASE lastRan # Now
  <2>1. HeardSince(Now - 1) \/ Afford(Wait) \/ Afford(Barred)
    BY <1>1, <1>6 DEF Before
  <2>2. HeardSince(Now - 1)' \/ Afford(Wait)'
    BY <1>2, <1>3, <1>4, <2>1, IdleSame
  <2> QED
    BY <1>6, <2>2 DEF Before, SenderIdle
<1> QED
  BY <1>5, <1>6

LEMMA OrderKept ==
  ASSUME SenderIdle, \A id : Fresh(id) => FreshIn(groups', id),
         net \subseteq net', \A p \in net' \ net : IsSign(p)
  PROVE  (Orderly => Orderly') /\ \A p \in net : Promise(p) => Promise(p)'
<1>1. ASSUME Orderly  PROVE  Orderly'
  <2> SUFFICES ASSUME NEW p \in net'
               PROVE  /\ IsReg1(p) => p.link = pending'
                      /\ IsAnswer(p) => /\ p.link = pending' /\ FreshIn(groups', p.id)
                                        /\ \A q \in net' : ~IsReg1(q) /\ (IsAnswer(q) => q = p)
    BY DEF Orderly, Fresh
  <2>1. \A q \in net' : IsReg1(q) \/ IsAnswer(q) => q \in net
    BY DEF IsSign, IsReg1, IsAnswer
  <2> QED
    BY <1>1, <2>1 DEF Orderly, SenderIdle
<1>2. ASSUME NEW p \in net, Promise(p)  PROVE  Promise(p)'
  BY <1>2, IdleSame DEF Promise, Fresh, SenderIdle
<1> QED
  BY <1>1, <1>2

LEMMA Undisturbed ==
  ASSUME Times, Count, Count', Budget, SenderIdle, dark => dark',
         Endured <= Endured',
         \A id : Fresh(id) => FreshIn(groups', id),
         net \subseteq net', \A p \in net' \ net : IsSign(p)
  PROVE  Budget'
<1> SUFFICES ASSUME ~dark', allFailedAt' # 0
             PROVE  IF lastRan' = Now THEN After' ELSE Before'
  BY DEF Budget
<1>1. IF lastRan = Now THEN After ELSE Before
  BY DEF Budget, SenderIdle
<1>2. Endured \in Nat /\ Endured' \in Nat /\ allFailedAt \in Nat /\ Barred \in Nat
  BY EnduredType, EnduredTypeNext, BarredBounds DEF Times
<1>3. ASSUME NEW n \in Nat, Afford(n)  PROVE  Afford(n)'
  <2>1. AffordAt(allFailedAt, Endured', n)
    BY <1>2, <1>3, Cheaper DEF Afford
  <2> QED
    BY <2>1 DEF Afford, SenderIdle
<1>4. /\ Afford(Wait) => Afford(Wait)'
      /\ Afford(Barred) => Afford(Barred)'
      /\ Afford(0) => Afford(0)'
  <2>1. Afford(Barred) => AffordAt(allFailedAt', Endured', Barred)
    BY <1>2, <1>3 DEF Afford
  <2>2. Afford(Barred) => Afford(Barred)'
    BY <2>1, IdleSame DEF Afford
  <2> QED
    BY <1>3, <2>2, WaitBounds
<1>5. CASE lastRan = Now
  <2>1. After'
    BY <1>1, <1>4, <1>5, IdleSame, OrderKept DEF After
  <2> QED
    BY <1>5, <2>1 DEF SenderIdle
<1>6. CASE lastRan # Now
  <2>1. Before'
    BY <1>1, <1>4, <1>6, IdleSame DEF Before
  <2> QED
    BY <1>6, <2>1 DEF SenderIdle
<1> QED
  BY <1>5, <1>6

(***************************************************************************)
(* A packet at the receiver keeps order, and a promise leads to another.   *)
(***************************************************************************)
LEMMA ReceiverOrderly ==
  ASSUME Network, NEW p \in net, p.to = "receiver", SenderIdle, Orderly,
         Refuses(p) \/ Opens(p) \/ Replies(p) \/ Echoes(p)
  PROVE  Orderly'
<1>1. Orderly' <=> \A q \in net' :
        /\ IsReg1(q) => q.link = pending
        /\ IsAnswer(q) => /\ q.link = pending /\ FreshIn(groups', q.id)
                          /\ \A r \in net' : ~IsReg1(r) /\ (IsAnswer(r) => r = q)
  BY DEF Orderly, Fresh, SenderIdle
<1>2. ASSUME NEW a, net' = (net \ {p}) \cup {a}, ~IsReg1(a), ~IsAnswer(a),
             IsReg1(p) \/ GroupsKept
      PROVE  Orderly'
  <2>1. \A q \in net' : IsReg1(q) \/ IsAnswer(q) => q \in net
    BY <1>2
  <2>2. \A q \in net : IsAnswer(q) => FreshIn(groups', q.id)
    BY <1>2 DEF Orderly, GroupsKept, Fresh, FreshIn
  <2> QED
    BY <1>1, <2>1, <2>2 DEF Orderly
<1>3. ASSUME GroupsKept, net' = net \ {p}  PROVE  Orderly'
  <2>1. \A q \in net : IsAnswer(q) => FreshIn(groups', q.id)
    BY <1>3, Zenon DEF Orderly, GroupsKept, Fresh, FreshIn
  <2> QED
    BY <1>1, <1>3, <2>1 DEF Orderly
<1>4. CASE Refuses(p)
  <2> DEFINE a == Packet("sender", p.link, "REG_ERR", 0)
  <2>1. ~IsReg1(a) /\ ~IsAnswer(a)
    BY DEF IsReg1, IsAnswer, Packet
  <2> QED
    BY <1>2, <1>4, <2>1 DEF Refuses, Answered
<1>5. CASE Opens(p)
  <2>1. PICK id : FreshIn(groups', id) /\ Answered(p, "REG2", id)
    BY <1>5 DEF Opens
  <2> DEFINE a == Packet("sender", p.link, "REG2", id)
  <2>2. IsAnswer(a) /\ a.link = p.link /\ a.id = id /\ ~IsReg1(a)
    BY DEF IsAnswer, IsReg1, Packet
  <2>3. IsReg1(p) /\ p.link = pending
    BY <1>5 DEF Opens, Orderly
  <2>4. \A q \in net : ~IsAnswer(q) /\ (IsReg1(q) => q = p)
    BY <2>3 DEF Orderly, Network
  <2>5. net' = (net \ {p}) \cup {a}
    BY <2>1 DEF Answered
  <2> HIDE DEF a
  <2> QED
    BY <1>1, <2>1, <2>2, <2>3, <2>4, <2>5
<1>6. CASE Replies(p)
  <2>1. PICK type \in {"REG_NGP", "REG_ERR", "REG3"} : Answered(p, type, 0)
    BY <1>6 DEF Replies
  <2> DEFINE a == Packet("sender", p.link, type, 0)
  <2>2. ~IsReg1(a) /\ ~IsAnswer(a)
    BY <2>1 DEF IsReg1, IsAnswer, Packet
  <2> QED
    BY <1>2, <1>6, <2>1, <2>2 DEF Replies, Answered
<1>7. CASE Echoes(p)
  <2> DEFINE a == Packet("sender", p.link, "KEEPALIVE", 0)
  <2>1. ~IsReg1(a) /\ ~IsAnswer(a)
    BY DEF IsReg1, IsAnswer, Packet
  <2> QED
    BY <1>2, <1>3, <1>7, <2>1 DEF Echoes, Answered
<1> QED
  BY <1>4, <1>5, <1>6, <1>7

LEMMA ReceiverPromise ==
  ASSUME Network, NEW p \in net, p.to = "receiver", SenderIdle, Orderly,
         Refuses(p) \/ Opens(p) \/ Replies(p) \/ Echoes(p),
         NEW r \in net, Promise(r)
  PROVE  \E q \in net' : Promise(q)'
<1>1. net \ {p} \subseteq net'
  BY DEF Refuses, Opens, Replies, Echoes, Answered
<1>2. ASSUME NEW q \in net', IsSign(q) \/ IsReg1(q) \/ IsAnswer(q)  PROVE  Promise(q)'
  BY <1>2 DEF Promise
<1>3. CASE r # p
  <2>1. ASSUME IsReg2(r), Fresh(r.id), pending = None  PROVE  FreshIn(groups', r.id)
    <3>1. ~IsReg1(p)
      BY <2>1, BondConstants, Zenon DEF Orderly, Network
    <3>2. GroupsKept
      BY <3>1 DEF Refuses, Opens, Replies, Echoes
    <3> QED
      BY <2>1, <3>2 DEF Fresh, FreshIn, GroupsKept
  <2>2. Promise(r)'
    BY <2>1, IdleSame DEF Promise, SenderIdle, Fresh
  <2> QED
    BY <1>1, <1>3, <2>2
<1>4. CASE r = p /\ IsReg1(p)
  <2>0. Refuses(p) \/ Opens(p)
    BY <1>4, Zenon DEF Replies, Echoes, IsReg1, IsReg2
  <2>1. PICK type, id : type \in {"REG_ERR", "REG2"} /\ Answered(p, type, id)
    BY <2>0 DEF Refuses, Opens
  <2> DEFINE a == Packet("sender", p.link, type, id)
  <2>2. a \in net' /\ (IsSign(a) \/ IsAnswer(a))
    BY <2>1 DEF Answered, IsSign, IsAnswer, Packet
  <2> QED
    BY <1>2, <2>2
<1>5. CASE r = p /\ IsReg2(p)
  <2>1. PICK type \in {"REG_NGP", "REG_ERR", "REG3"} :
          Answered(p, type, 0) /\ (p.id \in DOMAIN groups => type # "REG_NGP")
    BY <1>5 DEF Refuses, Opens, Replies, Echoes, IsReg1, IsReg2
  <2> DEFINE a == Packet("sender", p.link, type, 0)
  <2>2. a \in net' /\ (type = "REG_NGP" => IsNoGroup(a)) /\ (type # "REG_NGP" => IsSign(a))
    BY <2>1 DEF Answered, IsSign, IsNoGroup, Packet
  <2> HIDE DEF a
  <2>3. CASE type # "REG_NGP"
    BY <1>2, <2>2, <2>3
  <2>4. CASE type = "REG_NGP"
    <3>1. ~Fresh(p.id)
      BY <2>1, <2>4, Zenon DEF Fresh, FreshIn
    <3>2. Barred = 0 /\ pending = None /\ active = 0
      BY <1>5, <3>1 DEF Promise, IsSign, IsReg1, IsReg2, IsAnswer
    <3>3. Promise(a)'
      BY <2>2, <2>4, <3>2, IdleSame DEF Promise, SenderIdle
    <3> QED
      BY <2>2, <3>3
  <2> QED
    BY <2>3, <2>4
<1>6. r = p => IsReg1(p) \/ IsReg2(p)
  BY DEF Promise, IsSign, IsReg1, IsReg2, IsAnswer, IsNoGroup
<1> QED
  BY <1>3, <1>4, <1>5, <1>6

LEMMA ReceiverBudget ==
  ASSUME Times, Network, Count, Budget, NEW p \in net, p.to = "receiver", SenderIdle,
         UNCHANGED linkVars, Refuses(p) \/ Opens(p) \/ Replies(p) \/ Echoes(p)
  PROVE  Budget'
<1> SUFFICES ASSUME ~dark', allFailedAt' # 0
             PROVE  IF lastRan' = Now THEN After' ELSE Before'
  BY DEF Budget
<1>1. IF lastRan = Now THEN After ELSE Before
  BY DEF Budget, SenderIdle, linkVars
<1>2. Endured' = Endured /\ allFailedAt' = allFailedAt /\ Barred' = Barred
  BY IdleSame DEF Endured, SenderIdle, linkVars
<1>3. /\ Afford(Wait) => Afford(Wait)'
      /\ Afford(Barred) => Afford(Barred)'
      /\ Afford(0) => Afford(0)'
  BY <1>2 DEF Afford
<1>4. CASE lastRan = Now
  <2>1. After'
    BY <1>1, <1>2, <1>3, <1>4, IdleSame, ReceiverOrderly, ReceiverPromise DEF After
  <2> QED
    BY <1>4, <2>1 DEF SenderIdle
<1>5. CASE lastRan # Now
  <2>1. ~IsSign(p)
    BY DEF IsSign
  <2>2. Before'
    BY <1>1, <1>3, <1>5, <2>1, IdleSame DEF Before
  <2> QED
    BY <1>5, <2>2 DEF SenderIdle
<1> QED
  BY <1>4, <1>5

(***************************************************************************)
(* A packet at the sender.                                                 *)
(***************************************************************************)
LEMMA Heeded ==
  ASSUME Links, Network, NEW p \in net, Hears(p)
  PROVE  HeardSince(Now)' /\ HeardSince(Now - 1)'
<1>1. p.link \in Link
  BY DEF Network
<1>2. link'[p.link].lastRcvd = Now
  BY <1>1 DEF Hears, Links
<1> QED
  BY <1>1, <1>2, Constants DEF HeardSince

\* The REG2s that all links send: one of them at least gets through.
LEMMA JoinsPromise ==
  ASSUME Network, down # Link, NEW p \in net, UNCHANGED <<groups, down>>, Orderly, Joins(p)
  PROVE  Orderly' /\ \E q \in net' : Promise(q)'
<1> DEFINE reg2s == {send_reg2(l, p.id) : l \in Link}
<1>1. ASSUME NEW q \in reg2s
      PROVE  IsReg2(q) /\ ~IsReg1(q) /\ ~IsAnswer(q) /\ q.id = p.id
  <2>1. PICK l \in Link : q = send_reg2(l, p.id)
    OBVIOUS
  <2> QED
    BY <2>1, Reg2Packet
<1>2. PICK l \in Link : l \notin down
  BY DEF Network
<1>3. send_reg2(l, p.id) \in Sent(reg2s)
  <2>1. send_reg2(l, p.id).link = l
    BY Reg2Packet, Zenon
  <2> QED
    BY <1>2, <2>1 DEF Sent
<1>4. Sent(reg2s) \subseteq reg2s
  BY DEF Sent
<1>5. net' = (net \ {p}) \cup Sent(reg2s)
  BY DEF Joins
<1> HIDE DEF reg2s
<1>6. \A q \in net' : ~IsReg1(q) /\ ~IsAnswer(q)
  BY <1>1, <1>4, <1>5 DEF Orderly, Joins
<1>7. Orderly'
  BY <1>6 DEF Orderly
<1>8. Fresh(p.id)
  BY DEF Orderly, Joins
<1>9. ASSUME NEW q \in Sent(reg2s)  PROVE  Promise(q)'
  BY <1>1, <1>4, <1>8 DEF Promise, Fresh, Joins
<1> QED
  BY <1>3, <1>5, <1>7, <1>9

LEMMA RegistersPromise ==
  ASSUME Network, NEW p \in net, UNCHANGED <<groups, down>>, Orderly, Registers(p)
  PROVE  Orderly' /\ \E q \in net' : Promise(q)'
<1> DEFINE a == send_reg1(p.link)
<1>1. IsReg1(a) /\ ~IsAnswer(a) /\ a.link = p.link
  BY DEF send_reg1, Packet, IsReg1, IsAnswer
<1>2. p.link \in Link \ down
  BY DEF Network
<1>3. Sent({a}) = {a}
  BY <1>1, <1>2 DEF Sent
<1>4. \A q \in net : ~IsReg1(q) /\ ~IsAnswer(q)
  BY BondConstants, Zenon DEF Orderly, Network, Registers
<1>5. net' = (net \ {p}) \cup {a} /\ pending' = p.link
  BY <1>3 DEF Registers
<1> HIDE DEF a
<1>6. Orderly'
  BY <1>1, <1>4, <1>5 DEF Orderly
<1>7. Promise(a)'
  BY <1>1, Zenon DEF Promise
<1> QED
  BY <1>5, <1>6, <1>7

LEMMA IgnoresPromise ==
  ASSUME Times, NEW p \in net, UNCHANGED groups, Orderly, Ignores(p)
  PROVE  /\ Orderly' /\ Barred' = Barred
         /\ (\E q \in net : Promise(q)) => \E q \in net' : Promise(q)'
<1>1. Barred' = Barred
  BY DEF Barred, Ignores
<1>2. Orderly'
  BY DEF Orderly, Fresh, Ignores
<1>3. ASSUME NEW q \in net, Promise(q), q # p  PROVE  Promise(q)'
  BY <1>1, <1>3 DEF Promise, Fresh, Ignores
<1>4. ~Promise(p)
  <2>1. Barred = 0 <=> Now > regTimeout
    BY BarredBounds
  <2> QED
    BY <2>1 DEF Promise, Ignores, Orderly, IsSign, IsNoGroup, IsAnswer, IsReg1, IsReg2
<1> QED
  BY <1>1, <1>2, <1>3, <1>4 DEF Ignores

LEMMA SenderBudget ==
  ASSUME Links, Times, Network, Count, Rest, Budget, NEW p \in net, p.to = "sender",
         UNCHANGED <<lastRan, allFailedAt, receiverVars, linkVars>>,
         Registers(p) \/ Joins(p) \/ Ignores(p) \/ Hears(p)
  PROVE  Budget'
<1> SUFFICES ASSUME ~dark', allFailedAt' # 0
             PROVE  IF lastRan' = Now THEN After' ELSE Before'
  BY DEF Budget
<1>1. ~dark /\ (IF lastRan = Now THEN After ELSE Before)
  BY DEF Budget, linkVars
<1>2. Endured' = Endured /\ UNCHANGED <<groups, down>>
  BY DEF Endured, linkVars, receiverVars
<1>3. ASSUME NEW n  PROVE  Afford(n) => AffordAt(allFailedAt', Endured', n)
  BY <1>2 DEF Afford
<1>4. CASE Hears(p)
  BY <1>4, Heeded DEF After, Before
<1>5. CASE ~Hears(p)
  <2>1. UNCHANGED link
    BY <1>5 DEF Registers, Joins, Ignores
  <2>2. \A t : HeardSince(t) <=> HeardSince(t)'
    BY <2>1 DEF HeardSince
  <2>3. Afford(Wait) => Afford(Wait)'
    BY <1>3 DEF Afford
  <2>4. CASE HeardSince(Now - 1) /\ lastRan # Now
    BY <2>2, <2>4 DEF Before
  <2>5. CASE HeardSince(Now) /\ lastRan = Now
    BY <2>2, <2>5 DEF After
  <2>6. CASE Afford(Wait)
    BY <2>3, <2>6 DEF After, Before
  <2>7. ASSUME lastRan # Now, \A q \in net : IsSign(q)  PROVE  FALSE
    BY <1>5, <2>7 DEF IsSign, Registers, Joins, Ignores, IsNoGroup, IsAnswer
  <2>8. CASE /\ lastRan = Now /\ Orderly
             /\ \/ Barred > 0 /\ Afford(Barred)
                \/ Afford(0) /\ \E q \in net : Promise(q)
    <3>0. Afford(0)
      <4>1. Barred \in Nat /\ allFailedAt \in Nat /\ Endured \in Nat
        BY BarredBounds, EnduredType DEF Times
      <4>2. Afford(Barred) => Afford(0)
        BY <4>1, Cheaper DEF Afford
      <4> QED
        BY <2>8, <4>2
    <3>1. Afford(0)'
      BY <1>3, <3>0 DEF Afford
    <3>2. CASE Joins(p)
      <4>1. down # Link
        BY <1>1 DEF Rest
      <4> QED
        BY <1>2, <2>8, <3>1, <3>2, <4>1, JoinsPromise DEF After
    <3>3. CASE Registers(p)
      BY <1>2, <2>8, <3>1, <3>3, RegistersPromise DEF After
    <3>4. CASE Ignores(p)
      <4>1. /\ Orderly' /\ Barred' = Barred
            /\ (\E q \in net : Promise(q)) => \E q \in net' : Promise(q)'
        BY <1>2, <2>8, <3>4, IgnoresPromise
      <4>2. Afford(Barred) => Afford(Barred)'
        BY <1>3, <4>1 DEF Afford
      <4>3. After'
        BY <2>8, <3>1, <4>1, <4>2 DEF After
      <4> QED
        BY <2>8, <4>3
    <3> QED
      BY <1>5, <3>2, <3>3, <3>4
  <2> QED
    BY <1>1, <2>4, <2>5, <2>6, <2>7, <2>8, Zenon DEF After, Before
<1> QED
  BY <1>4, <1>5

(***************************************************************************)
(* A second passes.                                                        *)
(***************************************************************************)
LEMMA TickBudget ==
  ASSUME Links, Times, Count, Count', Budget, Tick, Endured <= Endured'
  PROVE  Budget'
<1>1. /\ net = {} /\ net' = {} /\ lastRan = Now /\ lastRan' = Now - 1 /\ dark' = dark
      /\ link' = [l \in Link |-> [link[l] EXCEPT !.lastRcvd = Aged(@, CONN_TIMEOUT)]]
      /\ regTimeout' = Aged(regTimeout, 0) /\ allFailedAt' = Aged(allFailedAt, GLOBAL_TIMEOUT)
  BY Zenon DEF Tick
<1> SUFFICES ASSUME ~dark', allFailedAt' # 0  PROVE  Before'
  BY <1>1, Constants DEF Budget
<1>2. allFailedAt # 0 /\ After
  BY <1>1 DEF Budget, Aged
<1>3. /\ Endured \in Nat /\ allFailedAt \in Nat
      /\ Barred \in Nat /\ Barred <= Wait /\ Wait \in Nat \ {0}
  BY EnduredType, BarredBounds, WaitBounds DEF Times
<1>4. Endured' \in Nat /\ Endured <= Endured'
  BY EnduredTypeNext
<1>5. Barred' = IF Barred > 0 THEN Barred - 1 ELSE 0
  BY <1>1, Constants DEF Barred, Aged, Times
<1>6. ASSUME NEW n \in Nat, Afford(n + 1), Barred' <= n  PROVE  Afford(Barred)'
  <2>1. allFailedAt' \in {allFailedAt, allFailedAt - 1} /\ allFailedAt' \in Nat
    BY <1>1, <1>2, <1>3 DEF Aged
  <2>2. AffordAt(allFailedAt - 1, Endured, n)
    BY <1>3, <1>6, SecondLater DEF Afford
  <2>3. AffordAt(allFailedAt, Endured, n)
    BY <1>3, <1>6, Cheaper DEF Afford
  <2>4. AffordAt(allFailedAt', Endured', Barred')
    BY <1>3, <1>4, <1>5, <1>6, <2>1, <2>2, <2>3, Cheaper
  <2> QED
    BY <2>4 DEF Afford
<1>7. CASE HeardSince(Now)
  <2>1. PICK l \in Link : link[l].lastRcvd >= Now
    BY <1>7 DEF HeardSince
  <2>2. link[l].lastRcvd \in Nat /\ link'[l].lastRcvd = Aged(link[l].lastRcvd, CONN_TIMEOUT)
    BY <1>1 DEF Links
  <2>3. \A t \in Nat : t >= Now => Aged(t, CONN_TIMEOUT) >= Now - 1
    BY Constants DEF Aged
  <2>4. link'[l].lastRcvd >= Now - 1
    BY <2>1, <2>2, <2>3
  <2> QED
    BY <2>4 DEF Before, HeardSince
<1>8. CASE Afford(Wait)
  <2>1. Afford((Wait - 1) + 1) /\ Wait - 1 \in Nat /\ Barred' <= Wait - 1
    BY <1>3, <1>5, <1>8
  <2>2. Afford(Barred)'
    BY <1>6, <2>1
  <2> QED
    BY <1>1, <2>2 DEF Before
<1>9. CASE Barred > 0 /\ Afford(Barred)
  <2>1. Afford((Barred - 1) + 1) /\ Barred - 1 \in Nat /\ Barred' <= Barred - 1
    BY <1>3, <1>5, <1>9
  <2>2. Afford(Barred)'
    <3> DEFINE n == Barred - 1
    <3>1. n \in Nat /\ Afford(n + 1) /\ Barred' <= n
      BY <2>1
    <3> HIDE DEF n
    <3> QED
      BY <1>6, <3>1
  <2> QED
    BY <1>1, <2>2 DEF Before
<1> QED
  BY <1>1, <1>2, <1>7, <1>8, <1>9 DEF After
-----------------------------------------------------------------------------
(***************************************************************************)
(* A run that nothing disturbed.  A packet at the sender:                  *)
(***************************************************************************)
LEMMA HeldSame ==
  ASSUME UNCHANGED groups, NEW l, NEW t, Held(l, t)
  PROVE  Held(l, t)'
BY HeldKept

\* A time that was late enough still is after it was left alone or set to Now.
LEMMA LaterKept ==
  ASSUME NEW a \in Nat, NEW b \in {a, Now}
  PROVE  (a >= Now => b >= Now) /\ (a >= Now - 1 => b >= Now - 1) /\ (b = Now => b >= Now)
BY Constants

LEMMA TogetherSender ==
  ASSUME Links, Network, NEW p \in net, p.to = "sender", UNCHANGED <<lastRan, groups>>,
         Registers(p) \/ Joins(p) \/ Ignores(p) \/ Hears(p), NEW l \in Link, Together(l)
  PROVE  Together(l)'
<1>1. net \ {p} \subseteq net'
  BY Zenon DEF Registers, Joins, Ignores, Hears
<1>2. send_keepalive(l) \in net => send_keepalive(l) \in net'
  BY <1>1 DEF send_keepalive, Packet
<1>3. link'[l].lastRcvd \in {link[l].lastRcvd, Now}
  BY DEF Registers, Joins, Ignores, Hears, Links
<1>4. IsSign(p) /\ p.link = l => link'[l].lastRcvd = Now
  <2>1. IsSign(p) => Hears(p)
    BY DEF Registers, Joins, Ignores, IsSign, IsNoGroup, IsAnswer
  <2> QED
    BY <2>1 DEF Hears, Links
<1>5. Held(l, Now - 1)' /\ (Held(l, Now) => Held(l, Now)')
  BY HeldSame, Zenon DEF Together
<1>6. link[l].lastRcvd \in Nat
  BY Zenon DEF Links
<1>7. CASE lastRan = Now
  <2>1. \/ send_keepalive(l) \in net
        \/ \E q \in net : IsSign(q) /\ q.link = l
        \/ link[l].lastRcvd >= Now
    BY <1>7, Zenon DEF Together
  <2>2. /\ link[l].lastRcvd >= Now => link'[l].lastRcvd >= Now
        /\ link'[l].lastRcvd = Now => link'[l].lastRcvd >= Now
    BY <1>3, <1>6, LaterKept, Zenon
  <2>3. \/ send_keepalive(l) \in net'
        \/ \E q \in net' : IsSign(q) /\ q.link = l
        \/ link'[l].lastRcvd >= Now
    BY <1>1, <1>2, <1>4, <2>1, <2>2, Zenon
  <2> QED
    BY <1>2, <1>5, <1>7, <2>3, Zenon DEF Together
<1>8. CASE lastRan # Now
  <2>1. link[l].lastRcvd >= Now - 1
    BY <1>8, Zenon DEF Together
  <2>2. link'[l].lastRcvd >= Now - 1
    BY <1>3, <1>6, <2>1, LaterKept, Zenon
  <2> QED
    BY <1>5, <1>8, <2>2, Zenon DEF Together
<1> QED
  BY <1>7, <1>8

LEMMA OpeningSender ==
  ASSUME Times, Network, down = {}, NEW p \in net, p.to = "sender",
         UNCHANGED <<lastRan, receiverVars, linkVars>>,
         Registers(p) \/ Joins(p) \/ Ignores(p) \/ Hears(p), Opening
  PROVE  Opening' /\ UNCHANGED hasConnected
<1>1. Registers(p) \/ Joins(p) \/ Ignores(p)
  BY DEF Opening, Hears
<1>2. UNCHANGED <<groups, down, hasConnected>> /\ down # Link
  BY <1>1, BondConstants, Zenon DEF Registers, Joins, Ignores, receiverVars, linkVars
<1>3. lastRan' = Now /\ Budding'
  BY <1>2, Zenon DEF Opening, Budding
<1>4. CASE Registers(p)
  <2> DEFINE a == send_reg1(p.link)
  <2>1. Orderly' /\ \E q \in net' : Promise(q)'
    BY <1>2, <1>4, RegistersPromise DEF Opening
  <2>2. a.to # "sender"
    BY DEF send_reg1, Packet
  <2>3. \A q \in net' : q \in net \/ q = a
    BY <1>4 DEF Registers, Sent
  <2> HIDE DEF a
  <2>4. DOMAIN groups' = {}
    <3>1. pending = None /\ ~(Barred > 0)
      BY <1>4, BarredBounds DEF Registers
    <3> QED
      BY <1>2, <3>1, Zenon DEF Opening
  <2> QED
    BY <1>2, <1>3, <2>1, <2>2, <2>3, <2>4 DEF Opening
<1>5. CASE Joins(p)
  <2>1. Orderly' /\ \E q \in net' : Promise(q)'
    BY <1>2, <1>5, JoinsPromise DEF Opening
  <2>2. \A q \in net : ~IsReg1(q)
    BY <1>5 DEF Opening, Orderly, Joins
  <2>3. ASSUME NEW q \in net'
        PROVE  q \in net \/ (q.to # "sender" /\ ~IsReg1(q))
    <3>1. CASE q \in {send_reg2(l, p.id) : l \in Link}
      <4>1. PICK l \in Link : q = send_reg2(l, p.id)
        BY <3>1
      <4> QED
        BY <4>1, Reg2Packet DEF IsReg2
    <3> QED
      BY <1>5, <3>1 DEF Joins, Sent
  <2>4. Barred' > 0
    BY <1>5, Constants DEF Joins, Barred
  <2> QED
    BY <1>2, <1>3, <2>1, <2>2, <2>3, <2>4 DEF Opening
<1>6. CASE Ignores(p)
  <2>1. /\ Orderly' /\ Barred' = Barred /\ \E q \in net' : Promise(q)'
    BY <1>2, <1>6, IgnoresPromise DEF Opening
  <2>2. net' \subseteq net /\ pending' = pending
    BY <1>6 DEF Ignores
  <2> QED
    BY <1>2, <1>3, <2>1, <2>2 DEF Opening
<1> QED
  BY <1>1, <1>2, <1>4, <1>5, <1>6

LEMMA CalmSender ==
  ASSUME Links, Times, Network, Calm, NEW p \in net, p.to = "sender",
         UNCHANGED <<lastRan, receiverVars, linkVars>>,
         Registers(p) \/ Joins(p) \/ Ignores(p) \/ Hears(p)
  PROVE  Calm'
<1>1. Endured' = Endured /\ UNCHANGED <<down, entries, groups>>
  BY DEF Endured, receiverVars, linkVars
<1>2. ASSUME Endured = 0, Opening, ~hasConnected  PROVE  Opening' /\ ~hasConnected'
  BY <1>2, OpeningSender DEF Calm
<1>3. ASSUME NEW l \in Link, Together(l)  PROVE  Together(l)'
  BY <1>1, <1>3, TogetherSender
<1>4. ~Start
  BY DEF Start
<1> QED
  BY <1>1, <1>2, <1>3, <1>4 DEF Calm

(***************************************************************************)
(* a packet at the receiver, on a link that is Together;                   *)
(***************************************************************************)
LEMMA TogetherReceiver ==
  ASSUME Times, Network, Rest, NEW p \in net, process_single_packet(p),
         NEW l \in Link, Together(l)
  PROVE  Together(l)'
<1>1. PICK reply :
        /\ \/ p.type = "REG1" /\ reply # R!NoReply /\ R!register_group(p.link, reply)
           \/ p.type = "REG2" /\ reply # R!NoReply /\ R!register_connection(p.link, p.id, reply)
           \/ p.type = "KEEPALIVE" /\ receive_keepalive(p.link, reply)
        /\ net' = (net \ {p}) \cup Sent(Answers(p.link, reply))
  BY DEF process_single_packet
<1>2. p.to = "receiver" /\ UNCHANGED senderVars
  BY DEF process_single_packet
<1>3. ts = Now
  BY <1>1 DEF R!register_group, R!register_connection, receive_keepalive, R!InRound, Times
<1>4. ASSUME NEW t \in Int, t <= Now, Held(l, t)  PROVE  Held(l, t)'
  BY <1>1, <1>3, <1>4, HeldReg1, HeldReg2, HeldKeepalive
<1>5. Held(l, Now - 1)' /\ (Held(l, Now) => Held(l, Now)')
  <2>1. Now - 1 \in Int /\ Now - 1 <= Now /\ Now \in Int /\ Now <= Now
    BY Constants
  <2>2. Held(l, Now - 1)
    BY Zenon DEF Together
  <2> QED
    BY <1>4, <2>1, <2>2, Zenon
<1>6. CASE p # send_keepalive(l)
  <2>1. \A q \in net : q = send_keepalive(l) \/ IsSign(q) => q \in net'
    BY <1>1, <1>2, <1>6 DEF IsSign
  <2> QED
    BY <1>2, <1>5, <2>1, Zenon DEF Together, senderVars
<1>7. CASE p = send_keepalive(l)
  <2>1. p.type = "KEEPALIVE" /\ p.link = l
    BY <1>7 DEF send_keepalive, Packet
  <2>2. Held(l, Now - 1) /\ Now - 1 \in Int /\ Now - 1 <= Now
    <3>1. Now - 1 \in Int /\ Now - 1 <= Now
      BY Constants
    <3> QED
      BY <3>1, Zenon DEF Together
  <2>3. reply = KEEPALIVE /\ Held(l, Now)'
    BY <1>1, <1>3, <2>1, <2>2, HeldKeepalive
  <2> DEFINE a == Packet("sender", p.link, "KEEPALIVE", 0)
  <2>4. Answers(p.link, reply) = {a}
    BY <2>3 DEF Answers, KEEPALIVE, R!NoReply
  <2>5. a \in net'
    BY <1>1, <2>4, SentUp, Zenon
  <2>6. IsSign(a) /\ a.link = l
    BY <2>1 DEF IsSign, Packet
  <2> HIDE DEF a
  <2>7. CASE lastRan = Now
    BY <1>2, <1>5, <2>3, <2>5, <2>6, <2>7, Zenon DEF Together, senderVars
  <2>8. CASE lastRan # Now
    BY <1>2, <1>5, <2>8, Zenon DEF Together, senderVars
  <2> QED
    BY <2>7, <2>8
<1> QED
  BY <1>6, <1>7

(***************************************************************************)
(* a round of the receiver;                                                *)
(***************************************************************************)
LEMMA TogetherRound ==
  ASSUME Times, Rest, Round, NEW l \in Link, Together(l)
  PROVE  Together(l)'
<1>1. UNCHANGED senderVars /\ net \subseteq net'
  BY RoundEffect DEF RoundKeeps
<1>2. ASSUME NEW t \in Int, t >= Now - 1, Held(l, t)  PROVE  Held(l, t)'
  <2>1. CASE R!EpollWait
    BY <1>2, <2>1, HeldSame DEF R!EpollWait
  <2>2. CASE R!EndRound
    BY <1>2, <2>2, HeldCleanup DEF R!EndRound, Times
  <2> QED
    BY <2>1, <2>2 DEF Round
<1>3. Held(l, Now - 1)' /\ (Held(l, Now) => Held(l, Now)')
  <2>1. Held(l, Now - 1) /\ Now - 1 \in Int /\ Now - 1 >= Now - 1 /\ Now \in Int /\ Now >= Now - 1
    BY Constants DEF Together
  <2> QED
    BY <1>2, <2>1
<1> QED
  BY <1>1, <1>3, Zenon DEF Together, senderVars

LEMMA BuddingRound ==
  ASSUME Times, Rest, Round, Budding
  PROVE  Budding' /\ DOMAIN groups' = DOMAIN groups /\ net' = net
<1>1. CASE R!EpollWait /\ UNCHANGED net
  BY <1>1 DEF R!EpollWait, Budding
<1>2. CASE R!EndRound /\ net' = net \cup Sent(CleanupPackets)
  <2>1. ts = Now /\ R!cleanup_inactive(ts)
    BY <1>2 DEF R!EndRound, Times
  <2>2. DOMAIN groups' = DOMAIN groups /\ \A g \in DOMAIN groups : groups'[g].conns = {} /\ groups'[g].created = Now
    <3>1. CASE UNCHANGED groups
      BY <3>1 DEF Budding
    <3>2. CASE groups' = R!CleanGroups(ts)
      <4> DEFINE clean == [g \in DOMAIN groups |-> R!CleanGroup(groups[g], ts)]
      <4>1. groups' = [g \in {h \in DOMAIN groups : ~R!Reapable(clean[h], ts)} |-> clean[g]]
        BY <3>2 DEF R!CleanGroups
      <4>2. ASSUME NEW g \in DOMAIN groups  PROVE  clean[g].conns = {} /\ clean[g].created = Now
        <5>1. GoodGroup(groups[g]) /\ groups[g].conns = {} /\ groups[g].created = Now
          BY Zenon DEF Rest, GoodGroups, Budding
        <5> QED
          BY <5>1, CleanGroupEffect, Zenon
      <4> HIDE DEF clean
      <4>3. \A g \in DOMAIN groups : ~R!Reapable(clean[g], ts)
        BY <2>1, <4>2, BondConstants DEF R!Reapable
      <4> QED
        BY <4>1, <4>2, <4>3, Zenon
    <3> QED
      BY <2>1, <3>1, <3>2 DEF R!cleanup_inactive
  <2>3. Budding'
    BY <2>2 DEF Budding
  <2>4. CleanupPackets = {}
    <3>1. UNION {groups'[g].conns : g \in DOMAIN groups'} = {}
      BY <2>2
    <3> QED
      BY <3>1 DEF CleanupPackets
  <2> QED
    BY <1>2, <2>2, <2>3, <2>4 DEF Sent
<1> QED
  BY <1>1, <1>2 DEF Round

LEMMA CalmRound ==
  ASSUME Times, Rest, Calm, Round
  PROVE  Calm'
<1>1. UNCHANGED <<senderVars, linkVars>> /\ \A id : Fresh(id) => FreshIn(groups', id)
  BY RoundEffect DEF RoundKeeps
<1>2. Endured' = Endured /\ UNCHANGED <<down, hasConnected, lastRan, link, pending, Barred>>
  BY <1>1 DEF Endured, Barred, senderVars, linkVars
<1>3. DOMAIN entries = {} => DOMAIN entries' = {}
  BY DEF Round, R!EpollWait, R!EndRound, R!Limiter!cleanup
<1>4. ASSUME Start  PROVE  Start'
  <2>1. net' = net /\ DOMAIN groups' = DOMAIN groups
    BY <1>4, BuddingRound DEF Start, Budding
  <2> QED
    BY <1>2, <1>4, <2>1 DEF Start
<1>5. ASSUME Opening  PROVE  Opening'
  <2>1. net' = net /\ DOMAIN groups' = DOMAIN groups /\ Budding'
    BY <1>5, BuddingRound, Zenon DEF Opening
  <2>2. SenderIdle
    BY <1>1 DEF SenderIdle, senderVars
  <2>3. Orderly' /\ \E q \in net' : Promise(q)'
    BY <1>1, <1>5, <2>1, <2>2, OrderKept, Zenon DEF Opening
  <2> QED
    BY <1>2, <1>5, <2>1, <2>3, Zenon DEF Opening
<1>6. ASSUME NEW l \in Link, Together(l)  PROVE  Together(l)'
  BY <1>6, TogetherRound
<1> QED
  BY <1>2, <1>3, <1>4, <1>5, <1>6 DEF Calm

(***************************************************************************)
(* a second that passes, and a step that changes nothing of it.            *)
(***************************************************************************)
LEMMA TogetherTick ==
  ASSUME Links, Rest, Tick, NEW l \in Link, Together(l)
  PROVE  Together(l)'
<1>1. /\ net = {} /\ lastRan = Now /\ lastRan' = Now - 1
      /\ link' = [k \in Link |-> [link[k] EXCEPT !.lastRcvd = Aged(@, CONN_TIMEOUT)]]
      /\ groups' = [g \in DOMAIN groups |->
                      [groups[g] EXCEPT !.conns = {AgedConn(c) : c \in @},
                                        !.created = Aged(@, PENDING_GROUP_TIMEOUT)]]
  BY Zenon DEF Tick
<1>2. Held(l, Now) /\ link[l].lastRcvd >= Now
  BY <1>1, Zenon DEF Together
<1>3. link'[l].lastRcvd >= Now - 1
  <2>1. link[l].lastRcvd \in Nat /\ link'[l].lastRcvd = Aged(link[l].lastRcvd, CONN_TIMEOUT)
    BY <1>1, Zenon DEF Links
  <2> QED
    BY <1>2, <2>1, Constants DEF Aged
<1>4. \A g \in DOMAIN groups :
        /\ groups'[g].conns = {AgedConn(c) : c \in groups[g].conns}
        /\ groups'[g].lastAddr = groups[g].lastAddr
  BY <1>1, Zenon DEF Rest, GoodGroups, GoodGroup
<1>5. DOMAIN groups' = DOMAIN groups
  BY <1>1, Zenon
<1>6. ASSUME NEW g \in DOMAIN groups, NEW c \in groups[g].conns
      PROVE  AgedConn(c).addr = c.addr /\ (c.lastRcvd >= Now => AgedConn(c).lastRcvd >= Now - 1)
  <2>1. GoodConn(c)
    BY DEF Rest, GoodGroups, GoodGroup
  <2>2. AgedConn(c).addr = c.addr /\ AgedConn(c).lastRcvd = Aged(c.lastRcvd, REC_CONN_TIMEOUT)
    BY <2>1 DEF GoodConn, AgedConn
  <2>3. \A t \in Nat : t >= Now => Aged(t, REC_CONN_TIMEOUT) >= Now - 1
    BY Constants DEF Aged
  <2> QED
    BY <2>1, <2>2, <2>3, Zenon DEF GoodConn
<1>7. Held(l, Now - 1)'
  <2>1. \A h \in DOMAIN groups' : R!Claims(groups'[h], l) => h \in DOMAIN groups /\ R!Claims(groups[h], l)
    BY <1>4, <1>5, <1>6 DEF R!Claims, R!get_client_addresses
  <2>2. \A g \in DOMAIN groups : \A c \in groups[g].conns : c.addr = l /\ c.lastRcvd >= Now =>
          g \in DOMAIN groups' /\ \E d \in groups'[g].conns : d.addr = l /\ d.lastRcvd >= Now - 1
    BY <1>4, <1>5, <1>6, Zenon
  <2> QED
    BY <1>2, <2>1, <2>2, HeldKept, Zenon
<1> QED
  BY <1>1, <1>3, <1>7, Constants, Zenon DEF Together

LEMMA CalmTick ==
  ASSUME Links, Rest, Calm, Tick, Endured' = 0 => Endured = 0
  PROVE  Calm'
<1>1. net = {} /\ lastRan = Now /\ UNCHANGED <<down, entries>>
  BY Zenon DEF Tick
<1>2. ~Start /\ ~Opening
  BY <1>1 DEF Start, Opening
<1>3. ASSUME NEW l \in Link, Together(l)  PROVE  Together(l)'
  BY <1>3, TogetherTick
<1> QED
  BY <1>1, <1>2, <1>3 DEF Calm

LEMMA CalmSame ==
  ASSUME Calm, UNCHANGED <<senderVars, receiverVars, net, down>>, Endured' = 0 => Endured = 0
  PROVE  Calm'
<1>1. /\ SenderIdle /\ UNCHANGED <<groups, entries, hasConnected, lastRan, link, pending, Barred>>
      /\ \A id : Fresh(id) => FreshIn(groups', id)
  BY DEF SenderIdle, senderVars, receiverVars, Barred, Fresh
<1>2. ASSUME Start  PROVE  Start'
  BY <1>1, <1>2 DEF Start
<1>3. ASSUME Opening  PROVE  Opening'
  <2>1. Orderly' /\ \E q \in net' : Promise(q)'
    BY <1>1, <1>3, OrderKept DEF Opening
  <2> QED
    BY <1>1, <1>3, <2>1, Zenon DEF Opening, Budding
<1>4. ASSUME NEW l \in Link, Together(l)  PROVE  Together(l)'
  BY <1>1, <1>4, HeldSame, Zenon DEF Together
<1> QED
  BY <1>1, <1>2, <1>3, <1>4 DEF Calm
=============================================================================
