-------------------------------- MODULE Bond --------------------------------
(***************************************************************************)
(* One srtla_send and its srtla_rec, joined by links that lose and repeat  *)
(* packets or lose their signal: modules Sender and Receiver composed with *)
(* the registration packets, keepalives and answers between them.  The SRT *)
(* caller is idle, so a link that is up carries a keepalive a second       *)
(* (last_sent stays 0), and the SRT server plays no part.  Times are in    *)
(* seconds, and every send succeeds although the packet may be lost.       *)
(*                                                                         *)
(* Liveness needs a state space without a last second.  The clock of both  *)
(* programs therefore stands still at Now and stored times move into the   *)
(* past instead, down to where no comparison tells them from older ones.   *)
(* A second ends when its work is done: housekeeping ran, the receiver had *)
(* a round, and no packet is on its way.                                   *)
(***************************************************************************)
EXTENDS Integers, FiniteSets

CONSTANTS
  Link, None, Now,
  CONN_TIMEOUT, REG2_TIMEOUT, REG3_TIMEOUT, GLOBAL_TIMEOUT,   \* of sender.cpp
  REC_CONN_TIMEOUT, CLEANUP_PERIOD, PENDING_GROUP_TIMEOUT, GROUP_TIMEOUT,
  RECOVERY_CHANCE_PERIOD, KEEPALIVE_PERIOD,                   \* of the receiver
  MaxFaults,                \* bound on the faults
  Lifetime,                 \* bound on the seconds a repeated packet lingers
  RebondLimit,              \* bound on the seconds without a bond
  MaxIds, MaxActive         \* bounds of Receiver and Sender

ASSUME BondConstants ==
  /\ IsFiniteSet(Link) /\ Link # {} /\ None \notin Link
  /\ {CONN_TIMEOUT, REG2_TIMEOUT, REG3_TIMEOUT, GLOBAL_TIMEOUT, REC_CONN_TIMEOUT,
      CLEANUP_PERIOD, PENDING_GROUP_TIMEOUT, GROUP_TIMEOUT,
      RECOVERY_CHANCE_PERIOD, KEEPALIVE_PERIOD} \subseteq 1 .. Now - 3
  /\ Now \in Nat /\ MaxIds \in Nat \ {0}

VARIABLES
  conns, link, pending, regTimeout, active, hasConnected, srtlaId, lastRan,
  allFailedAt, addrs, exited, reloads, idAt, activeAt,        \* of Sender
  groups, nextId, lastRun, entries, ts, phase,                \* of Receiver
  clock,        \* of both
  net,          \* packets on their way
  late,         \* repeated packets that linger, with the seconds left to them
  down,         \* links without a signal
  faults,       \* faults so far
  dark,         \* history: all links were down at once
  unbonded      \* history: seconds without a bond though the links are in order

senderVars ==
  <<conns, link, pending, regTimeout, active, hasConnected, srtlaId, lastRan,
    allFailedAt, addrs, exited, reloads, idAt, activeAt>>
receiverVars == <<groups, nextId, lastRun, entries, ts, phase>>
linkVars == <<late, down, faults, dark, unbonded>>
vars == <<senderVars, receiverVars, clock, net, linkVars>>

S == INSTANCE Sender WITH
  Sn <- {}, PKT_LOG_SZ <- 1, WINDOW_MIN <- 1, WINDOW_DEF <- 1, WINDOW_MAX <- 1,
  WINDOW_MULT <- 1, WINDOW_DECR <- 1, WINDOW_INCR <- 1,
  MS <- 1, HOUSEKEEPING_INT <- 1, Packets <- {}, Acks <- {}, Addresses <- 1,
  StartTime <- Now, MaxTime <- Now, MaxId <- MaxIds, MaxInFlight <- 0,
  MaxReloads <- 0, now <- clock

R == INSTANCE Receiver WITH
  Addr <- Link, Ip <- {None}, IpOf <- [l \in Link |-> None], Sn <- {}, Hash <- {},
  MAX_CONNS_PER_GROUP <- Cardinality(Link), MAX_GROUPS <- MaxIds,
  CONN_TIMEOUT <- REC_CONN_TIMEOUT, RECV_ACK_INT <- 1,
  AUTH_FAIL_THRESHOLD <- 1, AUTH_FAIL_WINDOW <- 1, AUTH_FAIL_COOLDOWN <- 1,
  MAX_REPEATS <- 0, ServerPackets <- {}, StartTime <- Now, MaxTime <- Now

Init ==
  /\ conns = CHOOSE s \in S!Orders(Link) : TRUE
  /\ S!Init /\ R!Init
  /\ DOMAIN link = Link /\ \A l \in Link : link[l].fd
  /\ net = {} /\ late = {} /\ down = {}
  /\ faults = 0 /\ dark = FALSE /\ unbonded = 0
-----------------------------------------------------------------------------
\* Packets, by the program they are for and the link that carries them.
Packet(to, l, type, id) == [to |-> to, link |-> l, type |-> type, id |-> id]

send_reg1(l) == Packet("receiver", l, "REG1", 0)
send_reg2(l, id) == Packet("receiver", l, "REG2", id)
send_keepalive(l) == Packet("receiver", l, "KEEPALIVE", 0)

\* What the receiver answers; a keepalive is echoed.
KEEPALIVE == [type |-> "KEEPALIVE"]
Answers(l, reply) ==
  CASE reply = R!NoReply -> {}
    [] reply.type = "REG2" -> {Packet("sender", l, "REG2", reply.id)}
    [] OTHER -> {Packet("sender", l, reply.type, 0)}

\* Packets sent on a link without a signal are lost.
Sent(P) == {p \in P : p.link \notin down}

\* A mutant of HousekeepingPackets: a link on its own does not register again.
HousekeepingPackets_together ==
  LET failed == {l \in Link : S!conn_timed_out(link[l], Now)}
  IN  {send_reg2(l, srtlaId) : l \in {k \in failed : pending' = None /\ active' = 0}}
        \cup {send_reg1(l) : l \in {k \in failed : pending' = k}}
        \cup {send_keepalive(l) : l \in Link \ failed}

\* A mutant of HousekeepingPackets: a link without data sends nothing.
HousekeepingPackets_silent ==
  LET failed == {l \in Link : S!conn_timed_out(link[l], Now)}
  IN  {send_reg2(l, srtlaId) : l \in {k \in failed : pending' = None}}
        \cup {send_reg1(l) : l \in {k \in failed : pending' = k}}

\* What connection_housekeeping sends, once it has decided about pending.
HousekeepingPackets ==
  LET failed == {l \in Link : S!conn_timed_out(link[l], Now)}
  IN  {send_reg2(l, srtlaId) : l \in {k \in failed : pending' = None}}
        \cup {send_reg1(l) : l \in {k \in failed : pending' = k}}
        \cup {send_keepalive(l) : l \in Link \ failed}

connection_housekeeping ==
  /\ S!connection_housekeeping
  /\ net' = net \cup Sent(HousekeepingPackets)
  /\ UNCHANGED <<receiverVars, linkVars>>

(***************************************************************************)
(* A packet for the sender.  It takes a no-group answer as its cue for     *)
(* REG1 whenever it may register, and the REG2 it waits for as its group   *)
(* id, which all links then join.                                          *)
(***************************************************************************)
handle_srtla_data(p) ==
  /\ p.to = "sender"
  /\ S!handle_srtla_data(p.link, IF p.type \in {"REG_NGP", "REG2", "REG3"}
                                 THEN p.type ELSE "other")
  /\ p.type = "REG_NGP" /\ S!MayRegister(Now) => pending' = p.link
  /\ p.type = "REG2" /\ pending = p.link => pending' = None /\ srtlaId' = p.id
  /\ net' = (net \ {p}) \cup Sent(
       CASE p.type = "REG_NGP" /\ pending' # pending -> {send_reg1(p.link)}
         [] p.type = "REG2" /\ pending' # pending -> {send_reg2(l, p.id) : l \in Link}
         [] OTHER -> {})
  /\ UNCHANGED <<receiverVars, linkVars>>

\* A keepalive counts and is echoed if a connection has its address.
receive_keepalive(l, reply) ==
  /\ R!InRound
  /\ UNCHANGED <<nextId, entries, clock>>
  /\ \/ \E g \in DOMAIN groups : \E c \in groups[g].conns :
          /\ R!Source(l, g, c)
          /\ R!receive_keepalive(g, c)
          /\ reply = KEEPALIVE
     \/ /\ \A g \in DOMAIN groups : \A c \in groups[g].conns : ~R!Source(l, g, c)
        /\ reply = R!NoReply
        /\ UNCHANGED groups

\* A packet for the receiver.
process_single_packet(p) ==
  /\ p.to = "receiver"
  /\ \E reply \in R!Replies \cup {KEEPALIVE} :
       /\ \/ /\ p.type = "REG1" /\ reply # R!NoReply
             /\ R!register_group(p.link, reply)
          \/ /\ p.type = "REG2" /\ reply # R!NoReply
             /\ R!register_connection(p.link, p.id, reply)
          \/ p.type = "KEEPALIVE" /\ receive_keepalive(p.link, reply)
       /\ net' = (net \ {p}) \cup Sent(Answers(p.link, reply))
  /\ UNCHANGED <<senderVars, linkVars>>

\* What a cleanup sends: keepalives to the connections it keeps that are quiet.
CleanupPackets ==
  LET left == UNION {groups'[g].conns : g \in DOMAIN groups'}
  IN  IF lastRun + CLEANUP_PERIOD > ts THEN {}
      ELSE {Packet("sender", c.addr, "KEEPALIVE", 0) :
              c \in {d \in left : d.lastRcvd + KEEPALIVE_PERIOD < ts}}

\* The receiver's loop: woken by a packet or, once a second, by its timeout.
Round ==
  /\ \/ /\ R!EpollWait /\ (ts # Now \/ \E p \in net : p.to = "receiver")
        /\ UNCHANGED net
     \/ /\ R!EndRound
        /\ net' = net \cup Sent(CleanupPackets)
  /\ UNCHANGED <<senderVars, linkVars>>
-----------------------------------------------------------------------------
\* The sender's group is the receiver's, with all links, none taken for failed.
Bonded ==
  /\ srtlaId \in DOMAIN groups
  /\ R!get_client_addresses(groups[srtlaId]) = Link
  /\ \A l \in Link : ~S!conn_timed_out(link[l], Now)

\* A time a second later, 0 being no time; past the limit it no longer matters.
Aged(t, limit) == IF t = 0 \/ t < Now - limit THEN t ELSE t - 1

AgedConn(c) ==
  [c EXCEPT !.lastRcvd = Aged(@, REC_CONN_TIMEOUT),
            !.recStart = Aged(@, RECOVERY_CHANCE_PERIOD)]

Tick ==
  /\ net = {} /\ lastRan = Now /\ phase = "wait" /\ ts = Now
  /\ lastRan' = Now - 1 /\ ts' = Now - 1
  /\ link' = [l \in Link |-> [link[l] EXCEPT !.lastRcvd = Aged(@, CONN_TIMEOUT)]]
  /\ regTimeout' = Aged(regTimeout, 0)
  /\ allFailedAt' = Aged(allFailedAt, GLOBAL_TIMEOUT)
  /\ groups' = [g \in DOMAIN groups |->
                  [groups[g] EXCEPT !.conns = {AgedConn(c) : c \in @},
                                    !.created = Aged(@, PENDING_GROUP_TIMEOUT)]]
  /\ lastRun' = Aged(lastRun, CLEANUP_PERIOD)
  /\ late' = {[q EXCEPT !.left = @ - 1] : q \in {r \in late : r.left > 0}}
  /\ unbonded' = IF Bonded \/ down # {} \/ late # {} THEN 0
                 ELSE IF unbonded < RebondLimit THEN unbonded + 1 ELSE unbonded
  /\ UNCHANGED <<conns, pending, active, hasConnected, srtlaId, addrs, exited,
                 reloads, idAt, activeAt, nextId, entries, phase, clock, net,
                 down, faults, dark>>
-----------------------------------------------------------------------------
\* Faults: a packet is lost or repeated; links lose their signal, together
\* perhaps; the receiver starts anew with no groups, and new ids to give.
Fault ==
  /\ faults < MaxFaults
  /\ faults' = faults + 1
  /\ unbonded' = 0
  /\ UNCHANGED <<senderVars, clock>>

Lose(p) ==
  /\ Fault
  /\ net' = net \ {p}
  /\ UNCHANGED <<receiverVars, late, down, dark>>

Repeat(p) ==
  /\ Fault
  /\ late' = late \cup {[packet |-> p, left |-> Lifetime]}
  /\ UNCHANGED <<receiverVars, net, down, dark>>

Outage(D) ==
  /\ Fault
  /\ down' = down \cup D /\ dark' = (dark \/ down' = Link)
  /\ net' = {p \in net : p.link \notin D}
  /\ UNCHANGED <<receiverVars, late>>

Restart ==
  /\ Fault
  /\ groups' = [g \in {} |-> {}] /\ lastRun' = 0 /\ phase' = "wait"
  /\ UNCHANGED <<nextId, entries, ts, net, late, down, dark>>

\* A repeated packet arrives; Tick drops it when its time is up.
Arrive(q) ==
  /\ net' = net \cup Sent({q.packet})
  /\ late' = late \ {q}
  /\ UNCHANGED <<senderVars, receiverVars, clock, down, faults, dark, unbonded>>

\* A link finds its signal again.
Restore(l) ==
  /\ down' = down \ {l}
  /\ UNCHANGED <<senderVars, receiverVars, clock, net, late, faults, dark, unbonded>>

Work ==
  \/ connection_housekeeping
  \/ \E p \in net : handle_srtla_data(p) \/ process_single_packet(p)
  \/ Tick

Signal == \E l \in down : Restore(l)

Next ==
  \/ Work \/ Round \/ Signal
  \/ \E p \in net : Lose(p) \/ Repeat(p)
  \/ \E D \in SUBSET Link \ {{}} : Outage(D)
  \/ Restart
  \/ \E q \in late : Arrive(q)

(***************************************************************************)
(* The work of a second is finite, so one condition on all of it keeps the *)
(* programs and time going; it is strong because a packet for the receiver *)
(* waits while the loop is between two rounds.  The receiver's loop wakes  *)
(* at least once a second, and a lost signal comes back.                   *)
(***************************************************************************)
Fairness == SF_vars(Work) /\ WF_vars(Round) /\ WF_vars(Signal)

Spec == Init /\ [][Next]_vars /\ Fairness
-----------------------------------------------------------------------------
(***************************************************************************)
(* Whatever was lost, repeated or restarted, and however long the links    *)
(* were without a signal, the sender and the receiver end up in one group  *)
(* with all links, and stay there, unless the sender gave up.              *)
(***************************************************************************)
EventuallyBonded == <>[](Bonded \/ exited)

(***************************************************************************)
(* With the links in order the bond is complete again in less than         *)
(* RebondLimit seconds.  The longest way back is from a lost answer to     *)
(* REG1: the receiver refuses the repeated REG1 because the address        *)
(* belongs to the group it just made, the sender takes the refusal for a   *)
(* sign of life and waits for REG2_TIMEOUT, and that can happen twice      *)
(* before the receiver reaps the group.                                    *)
(***************************************************************************)
RebondsInTime == unbonded < RebondLimit

\* After so many faults all of GLOBAL_TIMEOUT may have gone by in waiting for
\* one answer to a REG1 or REG2 after another.
WornOut(n) == \E t \in {REG2_TIMEOUT, REG3_TIMEOUT} : n * (t + 1) > GLOBAL_TIMEOUT

(***************************************************************************)
(* The sender gives up only when all its links were down at once or the    *)
(* faults have worn out its patience, which takes three with the times of  *)
(* sender.cpp: no two restarts of the receiver, lost or repeated packets   *)
(* or outages of a link make connection_housekeeping see all links failed  *)
(* for GLOBAL_TIMEOUT.                                                     *)
(***************************************************************************)
ExitWithCause == exited => dark \/ WornOut(faults)

(***************************************************************************)
(* Without a fault the sender, once connected, keeps contact: no later     *)
(* connection_housekeeping finds all links failed.  Keepalives refresh the *)
(* receiver's connection and their echoes the link, whatever the order of  *)
(* the two programs' steps, the cleanups and the other links' packets.     *)
(***************************************************************************)
ContactKept ==
  [][faults = 0 /\ hasConnected /\ connection_housekeeping => allFailedAt' = 0]_vars
=============================================================================
