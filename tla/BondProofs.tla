----------------------------- MODULE BondProofs -----------------------------
(***************************************************************************)
(* Proof that srtla_send does not give up without cause, and keeps contact *)
(* when nothing disturbs, for any number of links and faults and any       *)
(* timeouts: every step of the bond, faults included, keeps the invariant  *)
(* IInv of module BondBudget, whose account of time bounds an outage by    *)
(* the disturbances in it.                                                 *)
(***************************************************************************)
EXTENDS BondBudget

(***************************************************************************)
(* What connection_housekeeping does.                                      *)
(***************************************************************************)
LEMMA NoneCounted == Cardinality({}) = 0
<1> DEFINE Counts(f) ==
             f = [T \in SUBSET {} |-> IF T = {} THEN 0 ELSE 1 + f[T \ {CHOOSE x : x \in T}]]
<1>1. Counts([T \in SUBSET {} |-> 0])
  OBVIOUS
<1>2. \A f : Counts(f) => f[{}] = 0
  OBVIOUS
<1>3. Counts(CHOOSE f : Counts(f))
  BY <1>1, Zenon
<1>4. Cardinality({}) = (CHOOSE f : Counts(f))[{}]
  BY DEF Cardinality
<1> QED
  BY <1>2, <1>3, <1>4, Zenon

LEMMA HousekeepingEffect ==
  ASSUME Links, Times, Rest, connection_housekeeping
  PROVE  /\ ~exited /\ lastRan # Now /\ lastRan' = Now /\ clock' = Now
         /\ pending' = IF Now > regTimeout THEN None ELSE pending
         /\ UNCHANGED <<regTimeout, hasConnected, receiverVars, linkVars>>
         /\ link' = [l \in Link |-> IF l \in Failing THEN S!Failed(link[l]) ELSE link[l]]
         /\ Failing = Link => active' = 0
         /\ allFailedAt' = IF Failing # Link THEN 0
                           ELSE IF allFailedAt = 0 THEN Now ELSE allFailedAt
         /\ addrs' = 1
         /\ exited' = (allFailedAt' # 0 /\ Now > allFailedAt' + GLOBAL_TIMEOUT)
         /\ net' = net \cup Sent(HousekeepingPackets)
<1>1. S!connection_housekeeping
  BY DEF connection_housekeeping
<1>2. clock' = Now /\ S!Seconds(clock') = Now
  BY <1>1, SecondIsNow DEF S!connection_housekeeping
<1> DEFINE closed == {l \in DOMAIN link : ~link[l].fd}
           live   == S!Usable(S!Seconds(clock')) \ closed
<1>3. closed = {}
  BY DEF Links
<1>4. live = Link \ Failing
  BY <1>2, <1>3 DEF S!Usable, Failing, Links
<1>5. /\ pending' = IF Now > regTimeout THEN None ELSE pending
      /\ \E opened \in SUBSET closed :
            link' = [l \in DOMAIN link |->
                       IF l \in closed THEN S!open_socket(link[l], l \in opened)
                       ELSE IF l \in live THEN link[l] ELSE S!Failed(link[l])]
      /\ active' = S!Cardinality(live)
      /\ S!GiveUp(live, clock')
  BY <1>1, <1>2 DEF S!connection_housekeeping
<1>6. link' = [l \in Link |-> IF l \in Failing THEN S!Failed(link[l]) ELSE link[l]]
  <2> HIDE DEF live, closed
  <2> QED
    BY <1>3, <1>4, <1>5 DEF Links
<1>7. ~exited /\ lastRan + 1 <= Now /\ lastRan' = Now /\ UNCHANGED <<regTimeout, hasConnected>>
  BY <1>1, <1>2 DEF S!connection_housekeeping, S!Running
<1> DEFINE since == IF Failing # Link THEN 0 ELSE IF allFailedAt = 0 THEN Now ELSE allFailedAt
<1>8. S!FailedSince(live, clock') = since
  <2>1. live = {} <=> Failing = Link
    BY <1>4 DEF Failing
  <2> HIDE DEF live
  <2> QED
    BY <1>2, <2>1 DEF S!FailedSince
<1>0. Failing = Link => active' = 0
  <2>1. S!Cardinality({}) = Cardinality({})
    BY DEF S!Cardinality, Cardinality
  <2>2. Failing = Link => live = {}
    BY <1>4
  <2> HIDE DEF live
  <2> QED
    BY <1>5, <2>1, <2>2, NoneCounted, Zenon
<1> HIDE DEF live, closed
<1>9. /\ exited' = (since # 0 /\ Now > since + GLOBAL_TIMEOUT)
      /\ addrs' = 1 /\ allFailedAt' = since
  <2>1. /\ exited' = ((since # 0 /\ Now > since + GLOBAL_TIMEOUT * 1) /\ (hasConnected \/ addrs = 1))
        /\ addrs' = IF (since # 0 /\ Now > since + GLOBAL_TIMEOUT * 1) /\ ~exited'
                    THEN addrs - 1 ELSE addrs
        /\ allFailedAt' = IF (since # 0 /\ Now > since + GLOBAL_TIMEOUT * 1) /\ ~exited'
                          THEN 0 ELSE since
    BY <1>2, <1>5, <1>8 DEF S!GiveUp
  <2>2. addrs = 1 /\ GLOBAL_TIMEOUT * 1 = GLOBAL_TIMEOUT
    BY Constants DEF Rest
  <2> HIDE DEF since
  <2> QED
    BY <2>1, <2>2, Zenon
<1>10. lastRan # Now
  BY <1>7, Constants
<1>11. /\ net' = net \cup Sent(HousekeepingPackets)
       /\ UNCHANGED <<receiverVars, linkVars>>
  BY DEF connection_housekeeping
<1> QED
  BY <1>0, <1>2, <1>4, <1>5, <1>6, <1>7, <1>9, <1>10, <1>11

(***************************************************************************)
(* With all links failed it tries to register if it may.                   *)
(***************************************************************************)
LEMMA AllFailedPackets ==
  ASSUME Failing = Link, pending' \in Link \cup {None}
  PROVE  /\ \A p \in HousekeepingPackets :
              /\ ~IsAnswer(p) /\ p.link \in Link
              /\ IsReg1(p) => p = send_reg1(p.link) /\ p.link = pending'
         /\ pending' = None => \A l \in Link : send_reg2(l, srtlaId) \in HousekeepingPackets
<1>1. HousekeepingPackets =
        {send_reg2(l, srtlaId) : l \in {k \in Link : pending' = None}}
          \cup {send_reg1(l) : l \in {k \in Link : pending' = k}}
          \cup {send_keepalive(l) : l \in Link \ Link}
  BY DEF HousekeepingPackets, Failing
<1> QED
  BY <1>1 DEF send_reg1, send_reg2, Packet, IsAnswer, IsReg1

(***************************************************************************)
(* A run that nothing disturbed: it opens the bond at the Start and sends a*)
(* keepalive on a link that is Together.                                   *)
(***************************************************************************)
LEMMA TogetherHousekeeping ==
  ASSUME Links, Times, Rest, connection_housekeeping, down = {}, NEW l \in Link, Together(l)
  PROVE  l \notin Failing /\ Together(l)'
<1>1. /\ lastRan # Now /\ lastRan' = Now /\ net' = net \cup Sent(HousekeepingPackets)
      /\ UNCHANGED receiverVars
  BY HousekeepingEffect
<1>2. Held(l, Now - 1) /\ link[l].lastRcvd >= Now - 1
  BY <1>1 DEF Together
<1>3. l \notin Failing
  <2>1. link[l].lastRcvd \in Nat
    BY DEF Links
  <2> QED
    BY <1>2, <2>1, Constants DEF Failing, S!conn_timed_out
<1>4. send_keepalive(l) \in HousekeepingPackets
  BY <1>3 DEF HousekeepingPackets, Failing
<1>5. send_keepalive(l) \in net'
  BY <1>1, <1>4 DEF Sent
<1>6. Held(l, Now - 1)'
  BY <1>1, <1>2, HeldSame DEF receiverVars
<1> QED
  BY <1>1, <1>3, <1>5, <1>6 DEF Together

LEMMA StartHousekeeping ==
  ASSUME Links, Times, Rest, connection_housekeeping, down = {}, Start
  PROVE  Failing = Link /\ Opening' /\ UNCHANGED hasConnected
<1>1. /\ lastRan' = Now /\ UNCHANGED <<regTimeout, hasConnected, receiverVars>>
      /\ pending' = IF Now > regTimeout THEN None ELSE pending
      /\ Failing = Link => active' = 0
      /\ net' = net \cup Sent(HousekeepingPackets)
  BY HousekeepingEffect
<1>2. Failing = Link
  BY Constants DEF Start, Failing, S!conn_timed_out
<1>3. pending' = None /\ active' = 0 /\ Barred' = 0
  BY <1>1, <1>2, BarredBounds DEF Start, Barred
<1>4. net' = {send_reg2(l, srtlaId) : l \in Link}
  <2>1. HousekeepingPackets = {send_reg2(l, srtlaId) : l \in Link}
    <3>1. HousekeepingPackets =
            {send_reg2(l, srtlaId) : l \in {k \in Link : pending' = None}}
              \cup {send_reg1(l) : l \in {k \in Link : pending' = k}}
              \cup {send_keepalive(l) : l \in Link \ Link}
      BY <1>2 DEF HousekeepingPackets, Failing
    <3>2. {k \in Link : pending' = None} = Link /\ {k \in Link : pending' = k} = {} /\ Link \ Link = {}
      BY <1>3, BondConstants
    <3> QED
      BY <3>1, <3>2
  <2>2. Sent(HousekeepingPackets) = HousekeepingPackets
    BY DEF Sent
  <2> QED
    BY <1>1, <2>1, <2>2 DEF Start
<1>5. ASSUME NEW q \in net'
      PROVE  IsReg2(q) /\ ~IsReg1(q) /\ ~IsAnswer(q) /\ q.to # "sender"
  <2>1. PICK l \in Link : q = send_reg2(l, srtlaId)
    BY <1>4
  <2> QED
    BY <2>1, Reg2Packet DEF IsReg2
<1>6. Orderly'
  BY <1>5 DEF Orderly
<1>7. \E q \in net' : Promise(q)'
  <2>1. PICK q \in net' : TRUE
    BY <1>4, BondConstants
  <2> QED
    BY <1>3, <1>5, <2>1 DEF Promise
<1>8. DOMAIN groups' = {}
  BY <1>1 DEF Start, receiverVars
<1> QED
  BY <1>1, <1>2, <1>5, <1>6, <1>7, <1>8 DEF Opening, Budding

LEMMA CalmHousekeeping ==
  ASSUME Links, Times, Rest, Calm, connection_housekeeping
  PROVE  /\ Calm' /\ (Endured = 0 /\ hasConnected => Failing # Link)
         /\ Endured = 0 /\ Failing = Link => Opening'
<1>1. lastRan # Now /\ UNCHANGED <<receiverVars, linkVars>>
  BY HousekeepingEffect
<1>2. Endured' = Endured /\ UNCHANGED <<down, entries>>
  BY <1>1 DEF Endured, receiverVars, linkVars
<1>3. ASSUME Endured = 0, Start, ~hasConnected
      PROVE  Failing = Link /\ Opening' /\ ~hasConnected'
  BY <1>3, StartHousekeeping DEF Calm
<1>4. ASSUME Endured = 0, NEW l \in Link, Together(l)
      PROVE  Failing # Link /\ Together(l)'
  BY <1>4, TogetherHousekeeping DEF Calm
<1>5. Endured = 0 => (Start /\ ~hasConnected) \/ \E l \in Link : Together(l)
  BY <1>1 DEF Calm, Opening
<1> QED
  BY <1>2, <1>3, <1>4, <1>5 DEF Calm

(***************************************************************************)
(* It gives up only after too many faults.                                 *)
(***************************************************************************)
LEMMA HousekeepingBudget ==
  ASSUME Links, Times, Network, Count, Rest, Budget, Calm, ~dark, connection_housekeeping
  PROVE  Budget' /\ (exited' => WornOut(faults))
<1>1. /\ lastRan # Now /\ lastRan' = Now
      /\ pending' = IF Now > regTimeout THEN None ELSE pending
      /\ UNCHANGED <<regTimeout, receiverVars, linkVars>>
      /\ Failing = Link => active' = 0
      /\ allFailedAt' = IF Failing # Link THEN 0
                        ELSE IF allFailedAt = 0 THEN Now ELSE allFailedAt
      /\ exited' = (allFailedAt' # 0 /\ Now > allFailedAt' + GLOBAL_TIMEOUT)
      /\ net' = net \cup Sent(HousekeepingPackets)
  BY HousekeepingEffect
<1>2. Endured' = Endured /\ Barred' = Barred
  BY <1>1 DEF Endured, Barred, linkVars
<1>3. /\ Endured \in Nat /\ Endured <= faults /\ allFailedAt \in Nat
      /\ Barred \in Nat /\ (Barred = 0 <=> Now > regTimeout) /\ Wait \in Nat
  BY EnduredType, BarredBounds, WaitBounds DEF Times
<1>4. CASE Failing # Link
  <2>1. allFailedAt' = 0
    BY <1>1, <1>4
  <2>2. ~exited'
    BY <1>1, <2>1, Zenon
  <2> QED
    BY <2>1, <2>2 DEF Budget
<1>5. CASE Failing = Link /\ allFailedAt = 0
  <2>1. allFailedAt' = Now
    BY <1>1, <1>5
  <2>2. Afford(0)' /\ (Endured # 0 => Afford(Wait)')
    BY <1>2, <1>3, <2>1, AtFirst DEF Afford
  <2>3. Endured = 0 => Orderly' /\ \E q \in net' : Promise(q)'
    BY <1>5, CalmHousekeeping DEF Opening
  <2>4. ~exited'
    <3>1. ~(Now > allFailedAt' + GLOBAL_TIMEOUT)
      BY <2>1, Constants
    <3> QED
      BY <1>1, <3>1, Zenon
  <2> QED
    BY <1>1, <2>2, <2>3, <2>4 DEF Budget, After
<1>6. CASE Failing = Link /\ allFailedAt # 0
  <2>1. allFailedAt' = allFailedAt /\ Before
    BY <1>1, <1>6 DEF Budget
  <2>2. ~HeardSince(Now - 1)
    <3> SUFFICES ASSUME NEW l \in Link  PROVE  ~(link[l].lastRcvd >= Now - 1)
      BY DEF HeardSince
    <3>1. l \in Failing /\ link[l].lastRcvd \in Nat
      BY <1>6 DEF Links
    <3>2. link[l].lastRcvd + CONN_TIMEOUT < Now
      BY <3>1 DEF Failing, S!conn_timed_out
    <3> QED
      BY <3>1, <3>2, Constants
  <2>3. ASSUME NEW n \in Nat, Afford(n)
        PROVE  (exited' => WornOut(faults)) /\ AffordAt(allFailedAt', Endured', n)
    <3>1. Now > allFailedAt + GLOBAL_TIMEOUT => WornOut(faults)
      BY <1>3, <2>3, TooLong DEF Afford, Count
    <3>2. exited' => Now > allFailedAt' + GLOBAL_TIMEOUT
      BY <1>1, Zenon
    <3> QED
      BY <1>2, <2>1, <2>3, <3>1, <3>2 DEF Afford
  <2>4. CASE Afford(Wait)
    <3>1. Afford(Wait)' /\ (exited' => WornOut(faults))
      BY <1>3, <2>3, <2>4 DEF Afford
    <3> QED
      BY <1>1, <3>1 DEF Budget, After
  <2>5. CASE Afford(Barred) /\ \A p \in net : IsSign(p)
    <3>1. Afford(Barred)' /\ (exited' => WornOut(faults))
      BY <1>2, <1>3, <2>3, <2>5 DEF Afford
    <3>2. pending' \in Link \cup {None}
      BY <1>1 DEF Rest
    <3>3. \A p \in net' : ~IsAnswer(p) /\ (IsReg1(p) => p.link = pending')
      BY <1>1, <1>6, <2>5, <3>2, AllFailedPackets DEF Sent, IsSign, IsAnswer, IsReg1
    <3>4. Orderly'
      BY <3>3 DEF Orderly
    <3>5. CASE Barred > 0
      BY <1>1, <1>2, <3>1, <3>4, <3>5 DEF Budget, After
    <3>6. CASE Barred = 0
      <4>1. pending' = None /\ active' = 0 /\ Barred' = 0 /\ Afford(0)'
        BY <1>1, <1>2, <1>3, <1>6, <3>1, <3>6 DEF Afford
      <4>2. PICK l \in Link : l \notin down
        BY Zenon DEF Rest, Network
      <4> DEFINE a == send_reg2(l, srtlaId)
      <4>3. IsReg2(a) /\ a.link = l
        BY Reg2Packet, Zenon
      <4>4. a \in HousekeepingPackets
        BY <1>6, <3>2, <4>1, AllFailedPackets
      <4> HIDE DEF a
      <4>5. a \in net'
        BY <1>1, <4>2, <4>3, <4>4 DEF Sent
      <4>6. ASSUME NEW q, IsReg2(q)  PROVE  Promise(q)'
        BY <4>1, <4>6 DEF Promise
      <4>7. \E q \in net' : Promise(q)'
        BY <4>3, <4>5, <4>6
      <4> QED
        BY <1>1, <3>1, <3>4, <4>1, <4>7 DEF Budget, After
    <3> QED
      BY <1>3, <3>5, <3>6
  <2> QED
    BY <2>1, <2>2, <2>4, <2>5 DEF Before
<1> QED
  BY <1>4, <1>5, <1>6
-----------------------------------------------------------------------------
(***************************************************************************)
(* The invariant, action by action: the sender,                            *)
(***************************************************************************)
LEMMA HousekeepingShape ==
  \A p \in HousekeepingPackets : p.link \in Link /\ (IsReg1(p) => p = send_reg1(p.link))
BY DEF HousekeepingPackets, send_reg1, send_reg2, send_keepalive, Packet, IsReg1

LEMMA HousekeepingInv ==
  ASSUME IInv, connection_housekeeping
  PROVE  IInv'
<1> USE DEF IInv
<1>1. /\ pending' = IF Now > regTimeout THEN None ELSE pending
      /\ clock' = Now /\ addrs' = 1
      /\ UNCHANGED <<regTimeout, receiverVars, linkVars>>
      /\ link' = [l \in Link |-> IF l \in Failing THEN S!Failed(link[l]) ELSE link[l]]
      /\ allFailedAt' \in {0, Now, allFailedAt}
      /\ net' = net \cup Sent(HousekeepingPackets)
  BY HousekeepingEffect
<1>2. Links'
  <2> SUFFICES ASSUME NEW l \in Link
               PROVE  /\ {"fd", "lastRcvd"} \subseteq DOMAIN link'[l]
                      /\ link'[l].fd = TRUE /\ link'[l].lastRcvd \in Nat
    BY <1>1, Zenon DEF Links
  <2>1. link'[l] = link[l] \/ link'[l] = S!Failed(link[l])
    BY <1>1
  <2>2. /\ {"fd", "lastRcvd"} \subseteq DOMAIN link[l]
        /\ link[l].fd = TRUE /\ link[l].lastRcvd \in Nat
    BY DEF Links
  <2>3. CASE link'[l] = S!Failed(link[l])
    BY <2>2, <2>3 DEF S!Failed
  <2> QED
    BY <2>1, <2>2, <2>3, Zenon
<1>3. Times'
  BY <1>1, Constants DEF Times, receiverVars
<1>4. Network'
  <2>1. \A p \in Sent(HousekeepingPackets) :
          p.link \in Link \ down /\ (IsReg1(p) => p = send_reg1(p.link))
    BY HousekeepingShape DEF Sent
  <2> QED
    BY <1>1, <2>1, Zenon DEF Network, linkVars
<1>5. Count'
  BY <1>1 DEF Count, linkVars
<1>6. ~dark => Budget' /\ (exited' => WornOut(faults))
  BY HousekeepingBudget
<1>7. Rest'
  BY <1>1, <1>6, Zenon DEF Rest, GoodGroups, receiverVars, linkVars
<1>8. Budget'
  BY <1>1, <1>6 DEF Budget, linkVars
<1>9. Calm'
  BY CalmHousekeeping
<1> QED
  BY <1>2, <1>3, <1>4, <1>5, <1>7, <1>8, <1>9

LEMMA SenderInv ==
  ASSUME IInv, NEW p \in net, handle_srtla_data(p)
  PROVE  IInv'
<1> USE DEF IInv
<1>1. /\ p.to = "sender" /\ clock' = Now
      /\ UNCHANGED <<lastRan, allFailedAt, addrs, exited, receiverVars, linkVars>>
      /\ Registers(p) \/ Joins(p) \/ Ignores(p) \/ Hears(p)
  BY SenderEffect
<1>2. p.link \in Link
  BY DEF Network
<1>3. Links'
  <2>1. CASE UNCHANGED link
    BY <2>1, Zenon DEF Links
  <2>2. CASE Hears(p)
    BY <1>2, <2>2, Constants DEF Hears, Links
  <2> QED
    BY <1>1, <2>1, <2>2 DEF Registers, Joins, Ignores
<1>4. Times'
  <2>1. regTimeout' \in {regTimeout, Now + REG2_TIMEOUT, Now + REG3_TIMEOUT}
    BY <1>1 DEF Registers, Joins, Ignores, Hears
  <2>2. regTimeout' \in Nat /\ regTimeout' <= Now + (Wait - 1)
    BY <2>1, Constants, WaitBounds DEF Times
  <2> QED
    BY <1>1, <2>2 DEF Times, receiverVars
<1>5. Network'
  <2>1. ASSUME NEW P, net' = (net \ {p}) \cup Sent(P),
               \A q \in P : q.link \in Link /\ (IsReg1(q) => q = send_reg1(q.link))
        PROVE  Network'
    BY <1>1, <2>1, Zenon DEF Network, Sent, linkVars
  <2>2. CASE net' = net \ {p}
    BY <1>1, <2>2, Zenon DEF Network, linkVars
  <2>3. CASE Registers(p)
    BY <1>2, <2>1, <2>3 DEF Registers, send_reg1, Packet
  <2>4. CASE Joins(p)
    <3>1. ASSUME NEW q \in {send_reg2(l, p.id) : l \in Link}
          PROVE  q.link \in Link /\ ~IsReg1(q)
      <4>1. PICK l \in Link : q = send_reg2(l, p.id)
        OBVIOUS
      <4> QED
        BY <4>1, Reg2Packet, Zenon
    <3> QED
      BY <2>1, <2>4, <3>1, Zenon DEF Joins
  <2> QED
    BY <1>1, <2>2, <2>3, <2>4 DEF Ignores, Hears
<1>6. Count'
  BY <1>1 DEF Count, linkVars
<1>7. Rest'
  <2>1. pending' \in {pending, p.link, None}
    BY <1>1 DEF Registers, Joins, Ignores, Hears
  <2> QED
    BY <1>1, <1>2, <2>1, Zenon DEF Rest, GoodGroups, receiverVars, linkVars
<1>8. Budget'
  BY <1>1, SenderBudget
<1>9. Calm'
  BY <1>1, CalmSender
<1> QED
  BY <1>3, <1>4, <1>5, <1>6, <1>7, <1>8, <1>9

(***************************************************************************)
(* time, if repeated packets become fewer,                                 *)
(***************************************************************************)
LEMMA TickInv ==
  ASSUME IInv, Tick, Count', Endured <= Endured'
  PROVE  IInv'
<1> USE DEF IInv
<1>1. Links'
  <2> SUFFICES ASSUME NEW l \in Link
               PROVE  /\ {"fd", "lastRcvd"} \subseteq DOMAIN link'[l]
                      /\ link'[l].fd = TRUE /\ link'[l].lastRcvd \in Nat
    BY Zenon DEF Tick, Links
  <2>1. /\ {"fd", "lastRcvd"} \subseteq DOMAIN link[l]
        /\ link[l].fd = TRUE /\ link[l].lastRcvd \in Nat
    BY DEF Links
  <2>2. link'[l] = [link[l] EXCEPT !.lastRcvd = Aged(@, CONN_TIMEOUT)]
    BY Zenon DEF Tick
  <2>3. Aged(link[l].lastRcvd, CONN_TIMEOUT) \in Nat
    BY <2>1 DEF Aged
  <2> QED
    BY <2>1, <2>2, <2>3
<1>2. Times'
  <2>1. /\ regTimeout' = Aged(regTimeout, 0) /\ allFailedAt' = Aged(allFailedAt, GLOBAL_TIMEOUT)
        /\ clock' = clock /\ phase = "wait" /\ phase' = phase
    BY Zenon DEF Tick
  <2>2. regTimeout' \in Nat /\ regTimeout' <= Now + (Wait - 1) /\ allFailedAt' \in Nat
    BY <2>1, Constants, WaitBounds DEF Aged, Times
  <2> QED
    BY <2>1, <2>2 DEF Times
<1>3. Network'
  <2>1. ASSUME NEW q \in late'
        PROVE  /\ DOMAIN q = {"packet", "left"} /\ q.packet.link \in Link
               /\ IsReg1(q.packet) => q.packet = send_reg1(q.packet.link)
    <3>1. PICK r \in late : q = [r EXCEPT !.left = @ - 1]
      BY Zenon DEF Tick
    <3>2. DOMAIN q = DOMAIN r /\ q.packet = r.packet
      BY <3>1 DEF Network
    <3> QED
      BY <3>2 DEF Network
  <2> QED
    BY <2>1, Zenon DEF Tick, Network
<1>4. Rest'
  <2>1. ASSUME NEW g \in DOMAIN groups'  PROVE  GoodGroup(groups'[g])
    <3>1. /\ GoodGroup(groups[g])
          /\ groups'[g] = [groups[g] EXCEPT !.conns = {AgedConn(c) : c \in @},
                                            !.created = Aged(@, PENDING_GROUP_TIMEOUT)]
      BY Zenon DEF Tick, Rest, GoodGroups
    <3> DEFINE aged == {AgedConn(c) : c \in groups[g].conns}
    <3>2. ASSUME NEW c \in groups[g].conns  PROVE  GoodConn(AgedConn(c))
      <4>1. GoodConn(c)
        BY <3>1 DEF GoodGroup
      <4>2. Aged(c.lastRcvd, REC_CONN_TIMEOUT) \in Nat
        BY <4>1 DEF GoodConn, Aged
      <4> QED
        BY <4>1, <4>2 DEF GoodConn, AgedConn
    <3>3. DOMAIN groups'[g] = DOMAIN groups[g] /\ groups'[g].conns = aged
      BY <3>1 DEF GoodGroup
    <3> HIDE DEF aged
    <3> QED
      BY <3>1, <3>2, <3>3 DEF GoodGroup
  <2> QED
    BY <2>1, Zenon DEF Tick, Rest, GoodGroups
<1>5. Budget'
  BY TickBudget
<1>6. Calm'
  <2>1. Endured' = 0 => Endured = 0
    BY EnduredType, EnduredTypeNext
  <2> QED
    BY <2>1, CalmTick
<1> QED
  BY <1>1, <1>2, <1>3, <1>4, <1>5, <1>6

(***************************************************************************)
(* the steps that leave the sender alone: rounds of the receiver, links    *)
(* that find their signal, and                                             *)
(***************************************************************************)
LEMMA SenderUntouched ==
  ASSUME IInv, UNCHANGED senderVars, faults' \in {faults, faults + 1}
  PROVE  /\ SenderIdle /\ Links' /\ UNCHANGED exited
         /\ clock' = Now /\ phase' \in {"wait", "events"} /\ (phase' = "events" => ts' = Now)
              => Times'
         /\ GoodGroups' /\ (~dark' => ~dark /\ down' # Link) => Rest'
<1> USE DEF IInv, senderVars
<1>1. SenderIdle /\ UNCHANGED exited
  BY DEF SenderIdle
<1>2. Links'
  BY DEF Links
<1>3. ASSUME clock' = Now, phase' \in {"wait", "events"}, phase' = "events" => ts' = Now
      PROVE  Times'
  BY <1>3 DEF Times
<1>4. ASSUME GoodGroups', ~dark' => ~dark /\ down' # Link
      PROVE  Rest'
  <2>1. WornOut(faults) => WornOut(faults')
    BY WornOutStays DEF Count
  <2> QED
    BY <1>4, <2>1, Zenon DEF Rest, GoodGroups
<1> QED
  BY <1>1, <1>2, <1>3, <1>4

LEMMA RoundInv ==
  ASSUME IInv, Round
  PROVE  IInv'
<1> USE DEF IInv
<1>1. /\ UNCHANGED <<senderVars, linkVars>> /\ RoundKeeps
      /\ clock' = Now /\ phase' \in {"wait", "events"} /\ (phase' = "events" => ts' = Now)
  BY RoundEffect
<1>0. faults' \in {faults, faults + 1}
  BY <1>1 DEF linkVars
<1>2. Links' /\ SenderIdle /\ Times'
  BY <1>0, <1>1, SenderUntouched
<1>3. Rest'
  <2>1. GoodGroups' /\ (~dark' => ~dark /\ down' # Link)
    BY <1>1 DEF Rest, linkVars, RoundKeeps
  <2> QED
    BY <1>0, <1>1, <2>1, SenderUntouched
<1>4. Network'
  <2>1. \A q \in net' : q \in net \/ (q.link \in Link \ down /\ ~IsReg1(q))
    BY <1>1 DEF RoundKeeps, IsSign, IsReg1
  <2> QED
    BY <1>1, <2>1 DEF Network, linkVars
<1>5. Count' /\ Endured' = Endured /\ dark' = dark
  BY <1>1 DEF Count, Endured, linkVars
<1>6. Budget'
  <2>1. Endured <= Endured'
    BY <1>5, EnduredType
  <2> QED
    BY <1>1, <1>2, <1>5, <2>1, Undisturbed DEF RoundKeeps
<1>7. Calm'
  BY CalmRound
<1> QED
  BY <1>2, <1>3, <1>4, <1>5, <1>6, <1>7

LEMMA RestoreInv ==
  ASSUME IInv, NEW l \in down, Restore(l)
  PROVE  IInv'
<1> USE DEF IInv
<1>1. /\ down' = down \ {l}
      /\ UNCHANGED <<senderVars, receiverVars, clock, net, late, faults, dark>>
  BY DEF Restore
<1>2. Count' /\ Endured <= Endured' /\ Endured' # 0
  <2>1. Count' /\ Endured' = Endured
    BY <1>1 DEF Count, Endured
  <2>2. Endured # 0
    BY DEF Calm
  <2> QED
    BY <2>1, <2>2, EnduredType
<1>3. Network'
  BY <1>1, Zenon DEF Network
<1>4. Links' /\ Times' /\ Rest' /\ SenderIdle
  <2>1. GoodGroups' /\ (~dark' => ~dark /\ down' # Link)
    BY <1>1, Zenon DEF Rest, Network, GoodGroups, receiverVars
  <2>2. clock' = Now /\ phase' \in {"wait", "events"} /\ (phase' = "events" => ts' = Now)
    BY <1>1 DEF Times, receiverVars
  <2> QED
    BY <1>1, <2>1, <2>2, SenderUntouched
<1>5. Budget'
  <2>1. (\A id : Fresh(id) => FreshIn(groups', id)) /\ net \subseteq net' /\ net' \ net = {}
    BY <1>1 DEF Fresh, receiverVars
  <2> QED
    BY <1>1, <1>2, <1>4, <2>1, Undisturbed
<1>6. Calm'
  BY <1>2 DEF Calm
<1> QED
  BY <1>2, <1>3, <1>4, <1>5, <1>6

(***************************************************************************)
(* faults: each but a repetition is a disturbance, and that is one to come.*)
(***************************************************************************)
LEMMA FaultInv ==
  ASSUME IInv, Fault, Count', Network', GoodGroups',
         phase' \in {"wait", "events"}, phase' = "events" => ts' = Now,
         ~dark' => ~dark /\ down' # Link,
         \/ Endured < Endured'
         \/ Endured <= Endured' /\ UNCHANGED <<receiverVars, net, down>>
  PROVE  IInv'
<1> USE DEF IInv
<1>1. UNCHANGED senderVars /\ clock' = Now /\ faults' \in {faults, faults + 1}
  BY DEF Fault, Times
<1>2. Links' /\ Times' /\ Rest' /\ SenderIdle
  BY <1>1, SenderUntouched
<1>3. dark => dark'
  OBVIOUS
<1>4. Endured \in Nat /\ Endured' \in Nat
  BY EnduredType, EnduredTypeNext
<1>5. CASE Endured < Endured'
  <2>1. Budget'
    BY <1>2, <1>3, <1>5, Disturbed
  <2>2. Calm'
    BY <1>4, <1>5 DEF Calm
  <2> QED
    BY <1>2, <2>1, <2>2
<1>6. CASE Endured <= Endured' /\ UNCHANGED <<receiverVars, net, down>>
  <2>1. Budget'
    BY <1>2, <1>3, <1>6, Undisturbed DEF Fresh, receiverVars
  <2>2. Calm'
    BY <1>1, <1>4, <1>6, CalmSame
  <2> QED
    BY <1>2, <2>1, <2>2
<1> QED
  BY <1>5, <1>6

LEMMA OneFaultLess ==
  ASSUME IInv, Fault, late' = late
  PROVE  Count' /\ Endured < Endured'
<1>1. /\ faults \in Nat /\ faults' = faults + 1
      /\ IsFiniteSet(late) /\ Cardinality(late) \in 0 .. faults
  BY DEF IInv, Count, Fault
<1> QED
  BY <1>1 DEF Count, Endured

LEMMA LoseInv ==
  ASSUME IInv, NEW p \in net, Lose(p)
  PROVE  IInv'
<1>1. /\ Fault /\ net' = net \ {p} /\ UNCHANGED <<receiverVars, late, down, dark>>
  BY DEF Lose
<1>2. Count' /\ Endured < Endured'
  BY <1>1, OneFaultLess
<1>3. Network'
  BY <1>1, Zenon DEF Network, IInv
<1>4. GoodGroups' /\ phase' \in {"wait", "events"} /\ (phase' = "events" => ts' = Now)
  BY <1>1 DEF IInv, Rest, Times, GoodGroups, receiverVars
<1>5. ~dark' => ~dark /\ down' # Link
  BY <1>1 DEF IInv, Rest
<1> QED
  BY <1>1, <1>2, <1>3, <1>4, <1>5, FaultInv

LEMMA OutageInv ==
  ASSUME IInv, NEW D \in SUBSET Link \ {{}}, Outage(D)
  PROVE  IInv'
<1>1. /\ Fault /\ UNCHANGED <<receiverVars, late>> /\ down' = down \cup D
      /\ dark' = (dark \/ down' = Link) /\ net' = {p \in net : p.link \notin D}
  BY DEF Outage
<1>2. Count' /\ Endured < Endured'
  BY <1>1, OneFaultLess
<1>3. Network'
  BY <1>1, Zenon DEF Network, IInv
<1>4. GoodGroups' /\ phase' \in {"wait", "events"} /\ (phase' = "events" => ts' = Now)
  BY <1>1, Zenon DEF IInv, Rest, Times, GoodGroups, receiverVars
<1>5. ~dark' => ~dark /\ down' # Link
  BY <1>1, Zenon
<1> QED
  BY <1>1, <1>2, <1>3, <1>4, <1>5, FaultInv, Zenon

LEMMA RestartInv ==
  ASSUME IInv, Restart
  PROVE  IInv'
<1>1. /\ Fault /\ DOMAIN groups' = {} /\ phase' = "wait"
      /\ UNCHANGED <<nextId, net, late, down, dark>>
  BY DEF Restart
<1>2. Count' /\ Endured < Endured'
  BY <1>1, OneFaultLess
<1>3. Network' /\ GoodGroups' /\ (~dark' => ~dark /\ down' # Link)
  BY <1>1, Zenon DEF Network, IInv, GoodGroups, Rest
<1> QED
  BY <1>1, <1>2, <1>3, FaultInv

LEMMA StutterInv ==
  ASSUME IInv, UNCHANGED vars
  PROVE  IInv'
<1>1. Links' /\ Times' /\ Network' /\ Count' /\ Rest'
  BY Zenon DEF IInv, Links, Times, Network, Count, Rest, GoodGroups, vars, senderVars, receiverVars, linkVars
<1>2. UNCHANGED Barred /\ UNCHANGED Endured
  BY DEF Barred, Endured, vars, senderVars, linkVars
<1>3. Budget'
  <2>1. /\ SenderIdle /\ UNCHANGED <<dark, net, groups>>
    BY DEF SenderIdle, vars, senderVars, receiverVars, linkVars
  <2>2. Endured <= Endured'
    BY <1>2, EnduredType DEF IInv
  <2> QED
    BY <1>1, <2>1, <2>2, Undisturbed DEF IInv, Fresh
<1>4. Calm'
  BY <1>2, CalmSame DEF IInv, vars, linkVars
<1> QED
  BY <1>1, <1>3, <1>4 DEF IInv
-----------------------------------------------------------------------------
(***************************************************************************)
(* The rest needs facts about finite sets: the links, and the repeated     *)
(* packets that are still to come.                                         *)
(***************************************************************************)
F == INSTANCE FiniteSetTheorems

\* The library's notions are those of the modules.
LEMMA SameCount ==
  ASSUME NEW T  PROVE  (F!IsFiniteSet(T) <=> IsFiniteSet(T)) /\ F!Cardinality(T) = Cardinality(T)
BY DEF F!IsFiniteSet, IsFiniteSet, F!Cardinality, Cardinality

LEMMA CountedType ==
  ASSUME NEW T, IsFiniteSet(T)
  PROVE  Cardinality(T) \in Nat /\ (Cardinality(T) = 0 <=> T = {})
BY SameCount, F!FS_CardinalityType, F!FS_EmptySet

LEMMA CountedNone == IsFiniteSet({})
BY SameCount, F!FS_EmptySet

LEMMA CountedSubset ==
  ASSUME NEW T, IsFiniteSet(T), NEW U \in SUBSET T
  PROVE  IsFiniteSet(U) /\ Cardinality(U) <= Cardinality(T)
BY SameCount, F!FS_Subset

LEMMA CountedImage ==
  ASSUME NEW T, IsFiniteSet(T), NEW f, f = [x \in T |-> f[x]], NEW U, U = {f[x] : x \in T}
  PROVE  IsFiniteSet(U) /\ Cardinality(U) <= Cardinality(T)
<1>1. f \in F!Surjection(T, U)
  BY DEF F!Surjection
<1>2. F!IsFiniteSet(U) /\ F!Cardinality(U) <= F!Cardinality(T)
  BY <1>1, SameCount, F!FS_Surjection
<1> QED
  BY <1>2, SameCount

LEMMA CountedOther ==
  ASSUME NEW T, IsFiniteSet(T), NEW x
  PROVE  /\ IsFiniteSet(T \cup {x}) /\ IsFiniteSet(T \ {x})
         /\ Cardinality(T \cup {x}) = IF x \in T THEN Cardinality(T) ELSE Cardinality(T) + 1
         /\ Cardinality(T \ {x}) = IF x \in T THEN Cardinality(T) - 1 ELSE Cardinality(T)
BY SameCount, F!FS_AddElement, F!FS_RemoveElement

(***************************************************************************)
(* The first registration is granted, and the first link that joins is     *)
(* admitted.                                                               *)
(***************************************************************************)
LEMMA CardinalityOfNone ==
  R!Cardinality({}) = 0
<1>1. R!Cardinality({}) = Cardinality({})
  BY DEF R!Cardinality, Cardinality
<1> QED
  BY <1>1, NoneCounted

LEMMA FirstGroup ==
  ASSUME NEW a \in Link, NEW reply, reply # R!NoReply, R!register_group(a, reply),
         DOMAIN groups = {}, DOMAIN entries = {}
  PROVE  /\ reply = R!REG2(nextId)
         /\ groups' = [g \in {nextId} |-> R!NewGroup(a, ts)]
<1>1. ~R!Limiter!is_blocked([l \in Link |-> None][a], ts)
  BY DEF R!Limiter!is_blocked
<1>2. ~R!TableFull
  BY CardinalityOfNone, BondConstants DEF R!TableFull
<1>3. R!Rooms = {{}}
  BY <1>2 DEF R!Rooms
<1>4. /\ reply = R!REG2(nextId)
      /\ groups' = [g \in {} \cup {nextId} |-> IF g = nextId THEN R!NewGroup(a, ts) ELSE groups[g]]
  BY <1>1, <1>3, Zenon DEF R!register_group
<1> QED
  BY <1>4

LEMMA FirstJoin ==
  ASSUME Rest, ts = Now, Budding, NEW a \in Link, NEW id, NEW reply, reply # R!NoReply,
         R!register_connection(a, id, reply)
  PROVE  \/ reply = R!REG_NGP /\ UNCHANGED groups
         \/ reply = R!REG3 /\ Held(a, Now)'
<1>1. CASE id \notin DOMAIN groups
  BY <1>1 DEF R!register_connection
<1>2. CASE id \in DOMAIN groups
  <2> DEFINE G == groups[id]
             A == R!Admit(G, a, ts)
             c == R!NewConnection(a, ts)
             H == [R!write_socket_info_file(A) EXCEPT !.lastAddr = a]
  <2>1. GoodGroup(G) /\ G.conns = {} /\ DOMAIN groups = {id}
    BY <1>2 DEF Rest, GoodGroups, Budding
  <2>2. ~R!BelongsElsewhere(a, id)
    BY <2>1 DEF R!BelongsElsewhere
  <2>3. ~(R!Cardinality(G.conns) >= Cardinality(Link))
    <3>1. Cardinality(Link) \in Nat /\ Cardinality(Link) # 0
      BY CountedType, BondConstants
    <3> QED
      BY <2>1, <3>1, CardinalityOfNone
  <2>4. reply = R!REG3 /\ groups' = [groups EXCEPT ![id] = H]
    BY <1>2, <2>2, <2>3 DEF R!register_connection
  <2>5. c.addr = a /\ c.lastRcvd = Now
    BY DEF R!NewConnection
  <2> HIDE DEF c
  <2>6. {"conns", "info", "lastAddr"} \subseteq DOMAIN A /\ c \in A.conns
    BY <2>1 DEF GoodGroup, R!Admit, R!get_client_addresses, c
  <2> HIDE DEF A
  <2>7. c \in H.conns /\ H.lastAddr = a
    BY <2>6 DEF R!write_socket_info_file
  <2> HIDE DEF H, G
  <2>8. DOMAIN groups' = {id} /\ groups'[id] = H
    BY <2>1, <2>4
  <2>9. R!Claimants(a)' = {id}
    BY <2>7, <2>8 DEF R!Claimants, R!Claims
  <2>10. id \in Nat
    BY <1>2 DEF Rest, GoodGroups
  <2>11. R!find_by_address(a, id)'
    BY <2>9, <2>10 DEF R!find_by_address, R!IsFirst
  <2>12. c.lastRcvd >= Now
    BY <2>5, Constants
  <2> QED
    BY <2>4, <2>5, <2>7, <2>8, <2>11, <2>12, Zenon DEF Held
<1> QED
  BY <1>1, <1>2

LEMMA OpeningReceiver ==
  ASSUME Times, Network, Rest, DOMAIN entries = {}, NEW p \in net, process_single_packet(p), Opening
  PROVE  Opening' \/ Together(p.link)'
<1>1. PICK reply :
        /\ \/ p.type = "REG1" /\ reply # R!NoReply /\ R!register_group(p.link, reply)
           \/ p.type = "REG2" /\ reply # R!NoReply /\ R!register_connection(p.link, p.id, reply)
           \/ p.type = "KEEPALIVE" /\ receive_keepalive(p.link, reply)
        /\ net' = (net \ {p}) \cup Sent(Answers(p.link, reply))
  BY DEF process_single_packet
<1>2. /\ p.to = "receiver" /\ UNCHANGED senderVars
      /\ Refuses(p) \/ Opens(p) \/ Replies(p) \/ Echoes(p)
  BY ReceiverEffect
<1>3. ts = Now /\ p.link \in Link
  BY <1>1 DEF R!register_group, R!register_connection, receive_keepalive, R!InRound, Times, Network
<1>4. Orderly' /\ \E q \in net' : Promise(q)'
  <2>1. SenderIdle
    BY <1>2 DEF SenderIdle, senderVars
  <2> QED
    BY <1>2, <2>1, ReceiverOrderly, ReceiverPromise DEF Opening
<1>5. lastRan' = Now /\ pending' = pending /\ Barred' = Barred
  BY <1>2 DEF Opening, Barred, senderVars
<1>6. ASSUME NEW type, NEW id, Answers(p.link, reply) = {Packet("sender", p.link, type, id)},
             type \in {"REG2", "REG_NGP"}, Budding',
             (\E q \in net' : IsReg1(q)) => DOMAIN groups' = {},
             DOMAIN groups' # {} => pending # None \/ Barred > 0
      PROVE  Opening'
  <2> DEFINE a == Packet("sender", p.link, type, id)
  <2>1. IsNoGroup(a) \/ IsAnswer(a)
    BY <1>6 DEF IsNoGroup, IsAnswer, Packet
  <2>2. net' = (net \ {p}) \cup {a}
    BY <1>1, <1>6, SentUp, Zenon
  <2> HIDE DEF a
  <2> QED
    BY <1>4, <1>5, <1>6, <2>1, <2>2 DEF Opening
<1>7. CASE p.type = "REG1" /\ reply # R!NoReply /\ R!register_group(p.link, reply)
  <2>1. IsReg1(p) /\ DOMAIN groups = {} /\ p.link = pending
    BY <1>2, <1>7 DEF IsReg1, Opening, Orderly
  <2>2. reply = R!REG2(nextId) /\ groups' = [g \in {nextId} |-> R!NewGroup(p.link, ts)]
    BY <1>3, <1>7, <2>1, FirstGroup, Zenon
  <2>3. Answers(p.link, reply) = {Packet("sender", p.link, "REG2", nextId)}
    BY <1>7, <2>2 DEF Answers, R!REG2
  <2>4. Budding'
    BY <1>3, <2>2 DEF Budding, R!NewGroup
  <2>5. \A q \in net' : ~IsReg1(q)
    <3> DEFINE a == Packet("sender", p.link, "REG2", nextId)
    <3>1. ~IsReg1(a)
      BY DEF IsReg1, Packet
    <3>2. net' = (net \ {p}) \cup {a}
      BY <1>1, <2>3, SentUp, Zenon
    <3> HIDE DEF a
    <3>3. \A q \in net : IsReg1(q) => q = p
      BY <2>1, Zenon DEF Network, Opening, Orderly
    <3> QED
      BY <3>1, <3>2, <3>3
  <2>6. pending # None
    BY <1>3, <2>1, BondConstants
  <2> QED
    BY <1>6, <2>3, <2>4, <2>5, <2>6
<1>8. CASE p.type = "REG2" /\ reply # R!NoReply /\ R!register_connection(p.link, p.id, reply)
  <2>1. CASE reply = R!REG_NGP /\ UNCHANGED groups
    <3>1. Answers(p.link, reply) = {Packet("sender", p.link, "REG_NGP", 0)}
      BY <1>8, <2>1 DEF Answers, R!REG_NGP
    <3>2. \A q \in net' : IsReg1(q) => q \in net
      BY <1>1, <3>1 DEF IsReg1, Packet, Sent
    <3> QED
      BY <1>6, <2>1, <3>1, <3>2, Zenon DEF Opening, Budding
  <2>2. CASE reply = R!REG3 /\ Held(p.link, Now)'
    <3> DEFINE a == Packet("sender", p.link, "REG3", 0)
    <3>1. Answers(p.link, reply) = {a}
      BY <1>8, <2>2 DEF Answers, R!REG3
    <3>2. a \in net'
      BY <1>1, <3>1, SentUp, Zenon
    <3>3. IsSign(a) /\ a.link = p.link
      BY DEF IsSign, Packet
    <3> HIDE DEF a
    <3>4. Held(p.link, Now - 1)'
      <4>1. \A c \in UNION {groups'[g].conns : g \in DOMAIN groups'} : c.lastRcvd \in Nat
        BY ReceiverEffect DEF GoodGroups, GoodGroup, GoodConn
      <4> QED
        BY <2>2, <4>1, Constants DEF Held
    <3> QED
      BY <1>5, <2>2, <3>2, <3>3, <3>4, Zenon DEF Together
  <2>3. \/ reply = R!REG_NGP /\ UNCHANGED groups
        \/ reply = R!REG3 /\ Held(p.link, Now)'
    BY <1>3, <1>8, FirstJoin DEF Opening
  <2> QED
    BY <2>1, <2>2, <2>3, Zenon
<1>9. CASE p.type = "KEEPALIVE" /\ receive_keepalive(p.link, reply)
  <2>1. reply = R!NoReply /\ UNCHANGED groups
    BY <1>9, Zenon DEF receive_keepalive, Opening, Budding
  <2>2. Answers(p.link, reply) = {}
    BY <2>1 DEF Answers, R!NoReply
  <2>3. net' = net \ {p}
    BY <1>1, <2>2 DEF Sent
  <2> QED
    BY <1>4, <1>5, <2>1, <2>3, Zenon DEF Opening, Budding
<1> QED
  BY <1>1, <1>7, <1>8, <1>9

LEMMA CalmReceiver ==
  ASSUME Times, Network, Rest, Calm, NEW p \in net, process_single_packet(p)
  PROVE  Calm'
<1>1. UNCHANGED <<senderVars, linkVars>> /\ p.link \in Link
  BY ReceiverEffect, Zenon DEF Network
<1>2. entries' = entries
  BY DEF process_single_packet, R!register_group, R!register_connection, receive_keepalive
<1>3. Endured' = Endured /\ UNCHANGED <<down, hasConnected>>
  BY <1>1 DEF Endured, senderVars, linkVars
<1>4. ASSUME Endured = 0, Opening  PROVE  Opening' \/ Together(p.link)'
  BY <1>4, OpeningReceiver DEF Calm
<1>5. ASSUME NEW l \in Link, Together(l)  PROVE  Together(l)'
  BY <1>5, TogetherReceiver
<1>6. ~Start
  BY DEF Start
<1> QED
  BY <1>1, <1>2, <1>3, <1>4, <1>5, <1>6 DEF Calm

LEMMA ReceiverInv ==
  ASSUME IInv, NEW p \in net, process_single_packet(p)
  PROVE  IInv'
<1> USE DEF IInv
<1>1. /\ p.to = "receiver"
      /\ UNCHANGED <<ts, phase, clock, senderVars, linkVars>> /\ GoodGroups'
      /\ Refuses(p) \/ Opens(p) \/ Replies(p) \/ Echoes(p)
  BY ReceiverEffect
<1>0. faults' \in {faults, faults + 1}
  BY <1>1 DEF linkVars
<1>2. Links' /\ SenderIdle
  BY <1>0, <1>1, SenderUntouched
<1>3. Times'
  BY <1>0, <1>1, SenderUntouched DEF Times
<1>4. Rest'
  <2>1. ~dark' => ~dark /\ down' # Link
    BY <1>1 DEF Rest, linkVars
  <2> QED
    BY <1>0, <1>1, <2>1, SenderUntouched
<1>5. Network'
  <2>1. ASSUME NEW type, NEW id, Answered(p, type, id)  PROVE  Network'
    <3> DEFINE a == Packet("sender", p.link, type, id)
    <3>1. a.link = p.link /\ ~IsReg1(a)
      BY DEF Packet, IsReg1
    <3>2. net' = (net \ {p}) \cup {a}
      BY <2>1 DEF Answered
    <3> HIDE DEF a
    <3> QED
      BY <1>1, <3>1, <3>2, Zenon DEF Network, linkVars
  <2>2. CASE net' = net \ {p}
    BY <1>1, <2>2, Zenon DEF Network, linkVars
  <2> QED
    BY <1>1, <2>1, <2>2, Zenon DEF Refuses, Opens, Replies, Echoes
<1>6. Count'
  BY <1>1 DEF Count, linkVars
<1>7. Budget'
  BY <1>1, <1>2, ReceiverBudget
<1>8. Calm'
  BY CalmReceiver
<1> QED
  BY <1>2, <1>3, <1>4, <1>5, <1>6, <1>7, <1>8

(***************************************************************************)
(* In a second that passes repeated packets get fewer.                     *)
(***************************************************************************)
LEMMA LateFewer ==
  ASSUME Count, late' = {[q EXCEPT !.left = @ - 1] : q \in {r \in late : r.left > 0}}
  PROVE  /\ IsFiniteSet(late') /\ Cardinality(late') \in Nat
         /\ Cardinality(late') <= Cardinality(late)
<1> DEFINE L == {r \in late : r.left > 0}
           f == [q \in L |-> [q EXCEPT !.left = @ - 1]]
<1>1. IsFiniteSet(L) /\ Cardinality(L) <= Cardinality(late)
  BY CountedSubset DEF Count
<1>2. f = [q \in L |-> f[q]] /\ late' = {f[q] : q \in L}
  BY Zenon
<1> HIDE DEF f, L
<1>3. IsFiniteSet(late') /\ Cardinality(late') <= Cardinality(L)
  BY <1>1, <1>2, CountedImage, Zenon
<1>4. /\ Cardinality(late') \in Nat /\ Cardinality(L) \in Nat
      /\ Cardinality(late) \in Nat
  BY <1>1, <1>3, CountedType DEF Count
<1> QED
  BY <1>1, <1>3, <1>4

LEMMA TickEndured ==
  ASSUME Count, Tick
  PROVE  Count' /\ Endured <= Endured'
<1>1. /\ IsFiniteSet(late') /\ Cardinality(late') \in Nat /\ Cardinality(late') <= Cardinality(late)
  BY LateFewer, Zenon DEF Tick
<1>2. faults' = faults
  BY Zenon DEF Tick
<1> QED
  BY <1>1, <1>2 DEF Count, Endured

LEMMA RepeatInv ==
  ASSUME IInv, NEW p \in net, Repeat(p)
  PROVE  IInv'
<1> DEFINE q == [packet |-> p, left |-> Lifetime]
<1>1. Fault /\ late' = late \cup {q} /\ UNCHANGED <<receiverVars, net, down, dark>>
  BY DEF Repeat
<1>2. DOMAIN q = {"packet", "left"} /\ q.packet = p
  OBVIOUS
<1> HIDE DEF q
<1>3. Count' /\ Endured <= Endured'
  <2>1. /\ faults \in Nat /\ faults' = faults + 1
        /\ IsFiniteSet(late) /\ Cardinality(late) \in 0 .. faults
    BY <1>1 DEF IInv, Count, Fault
  <2>2. /\ IsFiniteSet(late')
        /\ Cardinality(late') \in {Cardinality(late), Cardinality(late) + 1}
    BY <1>1, <2>1, CountedOther
  <2> QED
    BY <2>1, <2>2, Constants DEF Count, Endured
<1>4. Network'
  BY <1>1, <1>2, Zenon DEF Network, IInv
<1>5. GoodGroups' /\ phase' \in {"wait", "events"} /\ (phase' = "events" => ts' = Now)
  BY <1>1 DEF IInv, Rest, Times, GoodGroups, receiverVars
<1>6. ~dark' => ~dark /\ down' # Link
  BY <1>1 DEF IInv, Rest
<1> QED
  BY <1>1, <1>3, <1>4, <1>5, <1>6, FaultInv

LEMMA ArriveInv ==
  ASSUME IInv, NEW q \in late, Arrive(q)
  PROVE  IInv'
<1> USE DEF IInv
<1>1. /\ net' = net \cup Sent({q.packet}) /\ late' = late \ {q}
      /\ UNCHANGED <<senderVars, receiverVars, clock, down, faults, dark>>
  BY DEF Arrive
<1>2. Count' /\ Endured < Endured'
  <2>1. /\ faults \in Nat /\ faults' = faults
        /\ IsFiniteSet(late) /\ Cardinality(late) \in 0 .. faults
    BY <1>1 DEF Count
  <2>2. IsFiniteSet(late') /\ Cardinality(late') = Cardinality(late) - 1
    BY <1>1, <2>1, CountedOther
  <2>3. Cardinality(late') \in Nat
    BY <2>2, CountedType
  <2> QED
    BY <2>1, <2>2, <2>3, Constants DEF Count, Endured
<1>3. Network'
  BY <1>1, Zenon DEF Network, Sent
<1>4. Links' /\ Times' /\ Rest' /\ SenderIdle
  <2>1. GoodGroups' /\ (~dark' => ~dark /\ down' # Link)
    BY <1>1 DEF Rest, GoodGroups, receiverVars
  <2>2. clock' = Now /\ phase' \in {"wait", "events"} /\ (phase' = "events" => ts' = Now)
    BY <1>1 DEF Times, receiverVars
  <2> QED
    BY <1>1, <2>1, <2>2, SenderUntouched
<1>5. Budget'
  BY <1>1, <1>2, <1>4, Disturbed
<1>6. Calm'
  <2>1. Endured \in Nat /\ Endured' \in Nat
    BY <1>2, EnduredType, EnduredTypeNext
  <2> QED
    BY <1>2, <2>1 DEF Calm
<1> QED
  BY <1>2, <1>3, <1>4, <1>5, <1>6
-----------------------------------------------------------------------------
(***************************************************************************)
(* The invariant as a whole.                                               *)
(***************************************************************************)
LEMMA InvInit ==
  ASSUME Init
  PROVE  IInv
<1>1. /\ net = {} /\ late = {} /\ down = {} /\ faults = 0 /\ dark = FALSE
      /\ DOMAIN link = Link /\ \A l \in Link : link[l].fd
  BY DEF Init
<1>2. /\ pending = None /\ regTimeout = 0 /\ allFailedAt = 0 /\ addrs = 1 /\ exited = FALSE
      /\ clock = Now /\ phase = "wait" /\ DOMAIN groups = {} /\ nextId = 1
      /\ DOMAIN entries = {} /\ hasConnected = FALSE /\ lastRan = 0
  BY Zenon DEF Init, S!Init, R!Init
<1>3. Links /\ \A l \in Link : link[l].lastRcvd = 0
  <2>0. S!Init
    BY DEF Init
  <2>1. PICK opened : link = [l \in {conns[i] : i \in DOMAIN conns} |->
                                S!open_socket(S!NewConn, l \in opened)]
    BY <2>0, Zenon DEF S!Init
  <2> SUFFICES ASSUME NEW l \in Link
               PROVE  /\ {"fd", "lastRcvd"} \subseteq DOMAIN link[l]
                      /\ link[l].fd = TRUE /\ link[l].lastRcvd \in Nat /\ link[l].lastRcvd = 0
    BY <1>1, Zenon DEF Links
  <2>2. link[l] = S!open_socket(S!NewConn, l \in opened)
    BY <1>1, <2>1
  <2>3. /\ DOMAIN link[l] = {"fd", "lastRcvd", "window", "inFlight", "idx", "log"}
        /\ link[l].lastRcvd = 0 /\ link[l].fd = (l \in opened)
    BY <2>2 DEF S!open_socket, S!NewConn
  <2>4. link[l].fd = TRUE
    BY <1>1, <2>3, Zenon
  <2> QED
    BY <2>3, <2>4
<1>4. Times
  BY <1>2, Constants, WaitBounds DEF Times
<1>5. Network /\ Rest /\ Budget
  BY <1>1, <1>2, BondConstants DEF Network, Rest, Budget, GoodGroups
<1>6. Count
  BY <1>1, NoneCounted, CountedNone DEF Count
<1>7. Calm
  <2>1. Start
    BY <1>1, <1>2, <1>3, Constants DEF Start, Barred
  <2> QED
    BY <1>1, <1>2, <2>1 DEF Calm
<1> QED
  BY <1>3, <1>4, <1>5, <1>6, <1>7 DEF IInv

LEMMA InvNext ==
  ASSUME IInv, [Next]_vars
  PROVE  IInv'
<1>1. CASE Work
  BY <1>1, HousekeepingInv, SenderInv, ReceiverInv, TickEndured, TickInv DEF IInv, Work
<1>2. CASE Round \/ Signal
  BY <1>2, RoundInv, RestoreInv DEF Signal
<1>3. CASE \E p \in net : Lose(p) \/ Repeat(p)
  BY <1>3, LoseInv, RepeatInv
<1>4. CASE \E D \in SUBSET Link \ {{}} : Outage(D)
  BY <1>4, OutageInv
<1>5. CASE Restart
  BY <1>5, RestartInv
<1>6. CASE \E q \in late : Arrive(q)
  BY <1>6, ArriveInv
<1>7. CASE UNCHANGED vars
  BY <1>7, StutterInv
<1> QED
  BY <1>1, <1>2, <1>3, <1>4, <1>5, <1>6, <1>7 DEF Next

(***************************************************************************)
(* The sender gives up only when all its links were down at once or the    *)
(* faults have worn out its patience: with any number of links, any faults *)
(* and any timeouts, connection_housekeeping sees all links failed for     *)
(* GLOBAL_TIMEOUT while one of them has a signal only after faults enough  *)
(* to let registrations time out, one per fault, for as long as that.      *)
(***************************************************************************)
THEOREM ExitCaused == Spec => []ExitWithCause
<1>1. Init => IInv
  BY InvInit
<1>2. IInv /\ [Next]_vars => IInv'
  BY InvNext
<1>3. IInv => ExitWithCause
  BY DEF IInv, Rest, ExitWithCause
<1> QED
  BY <1>1, <1>2, <1>3, PTL DEF Spec

(***************************************************************************)
(* Without a fault a sender that was connected never sees all links failed *)
(* in connection_housekeeping again, with any number of links and any      *)
(* timeouts: the keepalive of every second and its echo are in time for    *)
(* both programs, whatever the order of their steps.                       *)
(***************************************************************************)
THEOREM ContactStays == Spec => ContactKept
<1> DEFINE Kept == faults = 0 /\ hasConnected /\ connection_housekeeping => allFailedAt' = 0
<1>1. Init => IInv
  BY InvInit
<1>2. IInv /\ [Next]_vars => IInv'
  BY InvNext
<1>3. IInv => Kept
  <2> SUFFICES ASSUME IInv, faults = 0, hasConnected, connection_housekeeping
               PROVE  allFailedAt' = 0
    OBVIOUS
  <2>1. Endured = 0
    BY DEF IInv, Count, Endured
  <2>2. Failing # Link
    BY <2>1, CalmHousekeeping DEF IInv
  <2> QED
    BY <2>2, HousekeepingEffect, Zenon DEF IInv
<1>4. IInv /\ [Next]_vars => [Kept]_vars
  BY <1>3
<1> HIDE DEF Kept
<1>5. Spec => [][Kept]_vars
  BY <1>1, <1>2, <1>4, PTL DEF Spec
<1> QED
  BY <1>5 DEF ContactKept, Kept
=============================================================================
