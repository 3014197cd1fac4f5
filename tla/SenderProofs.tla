---------------------------- MODULE SenderProofs ----------------------------
(***************************************************************************)
(* Proofs of the safety properties of module Sender for every value of its *)
(* constants.                                                              *)
(*                                                                         *)
(* GoodLink is what each link satisfies by itself; the first lemmas show   *)
(* that every operation of module SenderLink keeps it.  Registration and   *)
(* Outage relate the sender's timers to each other and to the clock.       *)
(***************************************************************************)
EXTENDS Sender, FiniteSetTheorems, SequenceTheorems, WellFoundedInduction, TLAPS

\* The packets of a link that an acknowledgement can still find.
Logged(c) == {i \in Scanned(c) : c.log[i] \in Sn}

\* A link that is not connected has no packet logged.
Quiet(c) == c.lastRcvd = 0 => \A i \in Slots : c.log[i] \notin Sn

\* All of GoodLink but the upper bound of the window.
SoundLink(c) ==
  /\ c \in conn_t
  /\ c.window >= WindowFloor
  /\ Quiet(c)
  /\ Cardinality(Logged(c)) <= c.inFlight

GoodLink(c) == SoundLink(c) /\ c.window <= WindowCeiling
-----------------------------------------------------------------------------
(***************************************************************************)
(* Arithmetic.                                                             *)
(***************************************************************************)

\* A set of naturals has a least element.
LEMMA LeastNatural ==
  ASSUME NEW T \in SUBSET Nat, T # {}
  PROVE  \E x \in T : \A y \in T : x <= y
<1>1. PICK x \in T : \A y \in T : ~ (<<y, x>> \in OpToRel(<, Nat))
  BY WFMin, NatLessThanWellFounded, Zenon
<1>2. \A y \in T : ~ (y < x)
  BY <1>1, Zenon DEF OpToRel
<1> QED
  BY <1>2

\* Later milliseconds are not earlier seconds.
LEMMA SecondsMonotone ==
  ASSUME NEW a \in Nat, NEW b \in Nat, a <= b
  PROVE  Seconds(a) \in Nat /\ Seconds(a) <= Seconds(b)
BY SenderConstants DEF Seconds

\* The index of a ring buffer stays in the buffer.
LEMMA RingIndex ==
  ASSUME NEW x \in Nat, NEW n \in Nat \ {0}
  PROVE  x % n \in 0 .. n - 1
  OBVIOUS

\* From the start on, a link that was never heard counts as timed out.
LEMMA SecondsLarge ==
  ASSUME NEW a \in Nat, StartTime <= a
  PROVE  Seconds(a) > CONN_TIMEOUT + 1
BY SenderConstants, LinkConstants DEF Seconds
-----------------------------------------------------------------------------
(***************************************************************************)
(* What the operations do to one link.                                     *)
(***************************************************************************)
LEMMA SlotsFinite ==
  ASSUME NEW S \in SUBSET Slots
  PROVE  IsFiniteSet(S) /\ Cardinality(S) \in Nat
<1>1. IsFiniteSet(Slots)
  BY FS_Interval, LinkConstants DEF Slots
<1> QED
  BY <1>1, FS_Subset, FS_CardinalityType

LEMMA WindowLimits ==
  /\ WindowFloor \in Nat /\ WindowCeiling \in Nat
  /\ WINDOW_DEF * WINDOW_MULT \in Nat
  /\ WindowFloor <= WINDOW_DEF * WINDOW_MULT
  /\ WINDOW_DEF * WINDOW_MULT <= WindowCeiling
BY LinkConstants DEF WindowFloor, WindowCeiling

\* The loops of the code find a packet that is there.
LEMMA NewestHitFound ==
  ASSUME NEW c \in conn_t, NEW sn, Hits(c, sn) # {}
  PROVE  NewestHit(c, sn) \in Hits(c, sn)
<1> DEFINE T == {Age(c, i) : i \in Hits(c, sn)}
<1>1. ASSUME NEW i \in Hits(c, sn)  PROVE  Age(c, i) \in Nat
  <2>1. i \in Int /\ c.idx \in Int
    BY LinkConstants DEF Hits, Scanned, Slots, conn_t
  <2>2. \A x \in Int : x % PKT_LOG_SZ \in Nat
    BY LinkConstants
  <2> QED
    BY <2>1, <2>2 DEF Age
<1>2. PICK x \in T : \A y \in T : x <= y
  BY <1>1, T \in SUBSET Nat, T # {}, LeastNatural, Zenon
<1>3. \E i \in Hits(c, sn) : \A j \in Hits(c, sn) : Age(c, i) <= Age(c, j)
  BY <1>2
<1> QED
  BY <1>3 DEF NewestHit

LEMMA NewLink == GoodLink(NewConn) /\ ~NewConn.fd
<1>1. NewConn \in conn_t
  BY WindowLimits, LinkConstants DEF NewConn, conn_t, Slots
<1>2. Logged(NewConn) = {}
  BY LinkConstants DEF Logged, NewConn, Scanned
<1>3. Quiet(NewConn)
  BY LinkConstants DEF Quiet, NewConn
<1>4. NewConn.window = WINDOW_DEF * WINDOW_MULT /\ NewConn.inFlight = 0 /\ ~NewConn.fd
  BY DEF NewConn
<1> QED
  BY <1>1, <1>2, <1>3, <1>4, WindowLimits, FS_EmptySet DEF GoodLink, SoundLink

\* A packet is logged on a link that is connected.
LEMMA RegPktGood ==
  ASSUME NEW c \in conn_t, GoodLink(c), c.lastRcvd # 0, NEW sn \in Sn
  PROVE  GoodLink(reg_pkt(c, sn)) /\ reg_pkt(c, sn).fd = c.fd
<1> DEFINE d == reg_pkt(c, sn)
           k == c.idx
           j == (c.idx + 1) % PKT_LOG_SZ
           n == c.inFlight + 1
<1>1. c.idx \in Slots /\ j \in Slots /\ n \in Nat
  <2>1. c.idx \in Slots /\ c.inFlight \in Nat
    BY DEF conn_t
  <2>2. PKT_LOG_SZ \in Nat \ {0} /\ c.idx + 1 \in Nat
    BY <2>1, LinkConstants DEF Slots
  <2>3. (c.idx + 1) % PKT_LOG_SZ \in 0 .. PKT_LOG_SZ - 1
    BY <2>2, RingIndex
  <2> QED
    BY <2>1, <2>3 DEF Slots
<1>d. d = [c EXCEPT !.log[k] = sn, !.idx = j, !.inFlight = n]
  BY DEF reg_pkt
<1>2. /\ d \in conn_t
      /\ d.lastRcvd = c.lastRcvd /\ d.window = c.window /\ d.fd = c.fd
      /\ d.inFlight = c.inFlight + 1
      /\ d.log = [c.log EXCEPT ![c.idx] = sn]
  <2> HIDE DEF d, j, n, k
  <2>1. k \in Slots /\ j \in Slots /\ n \in Nat
    BY <1>1 DEF k
  <2>2. /\ d \in conn_t
        /\ d.lastRcvd = c.lastRcvd /\ d.window = c.window /\ d.fd = c.fd
        /\ d.inFlight = n
        /\ d.log = [c.log EXCEPT ![k] = sn]
    BY <1>d, <2>1, Zenon DEF conn_t
  <2> QED
    BY <2>2 DEF n, k
<1>3. Logged(d) \subseteq Logged(c) \cup {c.idx}
  BY <1>2, <1>1 DEF Logged, Scanned, conn_t
<1>4. Cardinality(Logged(d)) <= Cardinality(Logged(c) \cup {c.idx})
  <2>1. Logged(c) \cup {c.idx} \in SUBSET Slots
    BY <1>1 DEF Logged, Scanned
  <2> QED
    BY <2>1, <1>3, SlotsFinite, FS_Subset
<1>5. Cardinality(Logged(c) \cup {c.idx}) <= Cardinality(Logged(c)) + 1
  <2>1. Logged(c) \in SUBSET Slots
    BY DEF Logged, Scanned
  <2>2. IsFiniteSet(Logged(c)) /\ Cardinality(Logged(c)) \in Nat
    BY <2>1, SlotsFinite
  <2>3. Cardinality(Logged(c) \cup {c.idx}) =
          IF c.idx \in Logged(c) THEN Cardinality(Logged(c))
                                 ELSE Cardinality(Logged(c)) + 1
    BY <2>2, FS_AddElement, Zenon
  <2> QED
    BY <2>2, <2>3
<1>6. Cardinality(Logged(d)) \in Nat /\ Cardinality(Logged(c)) \in Nat
      /\ Cardinality(Logged(c) \cup {c.idx}) \in Nat
  <2>1. Logged(d) \in SUBSET Slots /\ Logged(c) \cup {c.idx} \in SUBSET Slots
        /\ Logged(c) \in SUBSET Slots
    BY <1>1 DEF Logged, Scanned
  <2> QED
    BY <2>1, SlotsFinite
<1>7. c.inFlight \in Nat /\ Cardinality(Logged(c)) <= c.inFlight
  BY DEF GoodLink, SoundLink, conn_t
<1>8. Cardinality(Logged(d)) <= d.inFlight
  BY <1>2, <1>4, <1>5, <1>6, <1>7
<1> HIDE DEF d
<1>9. GoodLink(d)
  BY <1>2, <1>8 DEF GoodLink, SoundLink, Quiet
<1> QED
  BY <1>9, <1>2 DEF d

\* The log of d is that of c with some slots freed.
Thinner(d, c) ==
  /\ d.idx = c.idx
  /\ \A i \in Slots : d.log[i] = c.log[i] \/ d.log[i] = Free

LEMMA ThinnerQuiet ==
  ASSUME NEW c, NEW d, Thinner(d, c), Quiet(c), d.lastRcvd = c.lastRcvd
  PROVE  /\ Quiet(d)
         /\ Logged(d) \subseteq Logged(c)
         /\ Cardinality(Logged(d)) <= Cardinality(Logged(c))
<1>1. Free \notin Sn
  BY LinkConstants DEF Free
<1>2. Quiet(d) /\ Logged(d) \subseteq Logged(c)
  BY <1>1 DEF Thinner, Quiet, Logged, Scanned
<1>3. Logged(c) \in SUBSET Slots
  BY DEF Logged, Scanned
<1> QED
  BY <1>2, <1>3, SlotsFinite, FS_Subset

LEMMA NakkedGood ==
  ASSUME NEW c \in conn_t, GoodLink(c), NEW sn \in Sn, Hits(c, sn) # {}
  PROVE  GoodLink(Nakked(c, sn)) /\ Nakked(c, sn).fd = c.fd
<1> DEFINE d == Nakked(c, sn)
           k == NewestHit(c, sn)
           w == IF c.window - WINDOW_DECR > WindowFloor THEN c.window - WINDOW_DECR
                                                       ELSE WindowFloor
<1>1. k \in Hits(c, sn)
  BY NewestHitFound
<1>2. k \in Slots
  BY <1>1 DEF Hits, Scanned
<1>3. w \in Nat /\ w >= WindowFloor /\ w <= WindowCeiling
  BY WindowLimits, LinkConstants DEF GoodLink, SoundLink, conn_t
<1> HIDE DEF k
<1>4. d = [c EXCEPT !.log[k] = Free, !.window = w]
  BY DEF Nakked, k
<1> HIDE DEF w
<1>5. /\ d \in conn_t
      /\ d.lastRcvd = c.lastRcvd /\ d.window = w /\ d.fd = c.fd
      /\ d.inFlight = c.inFlight /\ d.idx = c.idx
      /\ d.log = [c.log EXCEPT ![k] = Free]
  <2> HIDE DEF d
  <2> QED
    BY <1>2, <1>3, <1>4, Zenon DEF conn_t
<1>6. Thinner(d, c)
  BY <1>2, <1>5 DEF Thinner, conn_t
<1> HIDE DEF d
<1>7. Quiet(d) /\ Cardinality(Logged(d)) <= Cardinality(Logged(c))
  BY <1>5, <1>6, ThinnerQuiet DEF GoodLink, SoundLink
<1>8. Cardinality(Logged(d)) \in Nat /\ Cardinality(Logged(c)) \in Nat
  BY SlotsFinite, Logged(c) \in SUBSET Slots, Logged(d) \in SUBSET Slots DEF Logged, Scanned
<1>9. GoodLink(d)
  BY <1>3, <1>5, <1>7, <1>8 DEF GoodLink, SoundLink, conn_t
<1> QED
  BY <1>5, <1>9 DEF d

\* An acknowledged packet is one of a link that is connected; its window may
\* be over the limit for a moment.
LEMMA AckedSound ==
  ASSUME NEW c \in conn_t, GoodLink(c), NEW sn \in Sn, Hits(c, sn) # {}
  PROVE  /\ SoundLink(Acked(c, sn)) /\ Acked(c, sn).lastRcvd # 0
         /\ Acked(c, sn).fd = c.fd
<1> DEFINE d == Acked(c, sn)
           k == NewestHit(c, sn)
           n == IF c.inFlight > 0 THEN c.inFlight - 1 ELSE 0
           w == IF n * WINDOW_MULT > c.window THEN c.window + WINDOW_INCR - 1
                                              ELSE c.window
<1>1. k \in Hits(c, sn)
  BY NewestHitFound
<1>2. k \in Slots /\ k \in Logged(c) /\ c.log[k] \in Sn
  BY <1>1 DEF Hits, Scanned, Logged
<1>3. n \in Nat /\ w \in Nat /\ w >= WindowFloor
  BY WindowLimits, LinkConstants DEF GoodLink, SoundLink, conn_t
<1>4. c.lastRcvd # 0
  BY <1>2 DEF GoodLink, SoundLink, Quiet
<1>5. d = [c EXCEPT !.log[k] = Free, !.inFlight = n, !.window = w]
  BY DEF Acked
<1> HIDE DEF k, w, d
<1>6. /\ d \in conn_t
      /\ d.lastRcvd = c.lastRcvd /\ d.window = w /\ d.fd = c.fd
      /\ d.inFlight = n /\ d.idx = c.idx
      /\ d.log = [c.log EXCEPT ![k] = Free]
  <2> HIDE DEF n
  <2> QED
    BY <1>2, <1>3, <1>5, Zenon DEF conn_t
<1>7. Logged(d) = Logged(c) \ {k}
  <2>1. Free \notin Sn
    BY LinkConstants DEF Free
  <2> QED
    BY <1>2, <1>6, <2>1 DEF Logged, Scanned, conn_t
<1>8. Cardinality(Logged(c)) \in Nat /\ Cardinality(Logged(d)) = Cardinality(Logged(c)) - 1
  <2>1. Logged(c) \in SUBSET Slots
    BY DEF Logged, Scanned
  <2> QED
    BY <2>1, <1>2, <1>7, SlotsFinite, FS_RemoveElement
<1>9. Cardinality(Logged(d)) <= n
  <2>1. Cardinality(Logged(c)) <= c.inFlight /\ c.inFlight \in Nat
    BY DEF GoodLink, SoundLink, conn_t
  <2> QED
    BY <2>1, <1>8
<1> HIDE DEF n
<1>10. SoundLink(d)
  BY <1>3, <1>4, <1>6, <1>9 DEF SoundLink, Quiet
<1> QED
  BY <1>4, <1>6, <1>10 DEF d

\* The credit brings the window of a connected link below the limit.
LEMMA CreditedGood ==
  ASSUME NEW c \in conn_t, SoundLink(c), c.lastRcvd # 0 \/ GoodLink(c)
  PROVE  GoodLink(Credited(c)) /\ Credited(c).fd = c.fd
<1>1. CASE c.lastRcvd = 0
  BY <1>1 DEF Credited
<1>2. CASE c.lastRcvd # 0
  <2> DEFINE w == IF c.window + 1 < WindowCeiling THEN c.window + 1 ELSE WindowCeiling
             d == [c EXCEPT !.window = w]
  <2>1. w \in Nat /\ w >= WindowFloor /\ w <= WindowCeiling
    BY WindowLimits DEF SoundLink, conn_t
  <2>2. Credited(c) = d
    BY <1>2 DEF Credited
  <2> HIDE DEF w
  <2>3. /\ d \in conn_t
        /\ d.lastRcvd = c.lastRcvd /\ d.window = w /\ d.fd = c.fd
        /\ d.inFlight = c.inFlight /\ d.idx = c.idx /\ d.log = c.log
    BY <2>1 DEF conn_t
  <2>4. GoodLink(d)
    BY <1>2, <2>1, <2>3 DEF GoodLink, SoundLink, Quiet, Logged, Scanned
  <2> QED
    BY <2>2, <2>3, <2>4
<1> QED
  BY <1>1, <1>2

LEMMA SrtAckGood ==
  ASSUME NEW c \in conn_t, GoodLink(c), NEW ack \in Nat
  PROVE  /\ GoodLink(conn_register_srt_ack(c, ack))
         /\ conn_register_srt_ack(c, ack).fd = c.fd
<1> DEFINE kept == {i \in Scanned(c) : c.log[i] >= ack}
           n == Cardinality(kept)
           log == [i \in Slots |-> IF i \in Scanned(c) /\ c.log[i] < ack THEN Free
                                                                       ELSE c.log[i]]
           d == [c EXCEPT !.log = log, !.inFlight = n]
<1>1. conn_register_srt_ack(c, ack) = d
  BY DEF conn_register_srt_ack
<1>2. kept \in SUBSET Slots /\ n \in Nat
  BY SlotsFinite DEF Scanned
<1>3. log \in [Slots -> Sn \cup {Free, 0}]
  BY DEF conn_t
<1>4. /\ d \in conn_t
      /\ d.lastRcvd = c.lastRcvd /\ d.window = c.window /\ d.fd = c.fd
      /\ d.inFlight = n /\ d.idx = c.idx /\ d.log = log
  <2> HIDE DEF n, log
  <2> QED
    BY <1>2, <1>3, Zenon DEF conn_t
<1>5. Thinner(d, c)
  BY <1>4 DEF Thinner
<1>6. Quiet(d)
  BY <1>4, <1>5, ThinnerQuiet, Zenon DEF GoodLink, SoundLink
<1>7. Logged(d) \subseteq kept
  <2> SUFFICES ASSUME NEW i \in Scanned(c), log[i] \in Sn  PROVE  c.log[i] >= ack
    BY <1>4 DEF Logged, Scanned
  <2>1. i \in Slots /\ log[i] # Free
    BY LinkConstants DEF Free, Scanned
  <2>2. ~(c.log[i] < ack)
    BY <2>1
  <2>3. c.log[i] \in Int
    <3>1. c.log \in [Slots -> Sn \cup {Free, 0}]
      BY DEF conn_t
    <3>2. Sn \cup {Free, 0} \subseteq Int
      BY LinkConstants DEF Free
    <3> QED
      BY <2>1, <3>1, <3>2
  <2> QED
    BY <2>2, <2>3
<1>8. Cardinality(Logged(d)) <= n
  BY <1>2, <1>7, SlotsFinite, FS_Subset, Zenon
<1> HIDE DEF d
<1>9. GoodLink(d)
  BY <1>4, <1>6, <1>8 DEF GoodLink, SoundLink
<1> QED
  BY <1>1, <1>4, <1>9

LEMMA FailedGood ==
  ASSUME NEW c \in conn_t, GoodLink(c)
  PROVE  GoodLink(Failed(c)) /\ Failed(c).fd = c.fd
<1>1. CASE c.lastRcvd = 0
  BY <1>1 DEF Failed
<1>2. CASE c.lastRcvd # 0
  <2> DEFINE log == [i \in Slots |-> Free]
             d == [c EXCEPT !.lastRcvd = 0, !.window = WindowFloor, !.inFlight = 0,
                            !.log = log]
  <2>1. Failed(c) = d
    BY <1>2 DEF Failed
  <2>2. log \in [Slots -> Sn \cup {Free, 0}]
    OBVIOUS
  <2>3. /\ d \in conn_t
        /\ d.window = WindowFloor /\ d.fd = c.fd
        /\ d.inFlight = 0 /\ d.log = log
    <3> HIDE DEF log
    <3> QED
      BY <2>2, WindowLimits, Zenon DEF conn_t
  <2>4. Quiet(d) /\ Logged(d) = {}
    BY <2>3, LinkConstants DEF Quiet, Logged, Free, Scanned
  <2> HIDE DEF d
  <2>5. GoodLink(d)
    BY <2>3, <2>4, WindowLimits, FS_EmptySet DEF GoodLink, SoundLink
  <2> QED
    BY <2>1, <2>3, <2>5
<1> QED
  BY <1>1, <1>2

\* A link that is heard, or on which a send failed.
LEMMA HeardGood ==
  ASSUME NEW c \in conn_t, GoodLink(c), NEW t \in Nat \ {0}
  PROVE  GoodLink([c EXCEPT !.lastRcvd = t]) /\ [c EXCEPT !.lastRcvd = t].fd = c.fd
<1> DEFINE d == [c EXCEPT !.lastRcvd = t]
<1>1. /\ d \in conn_t
      /\ d.lastRcvd = t /\ d.window = c.window /\ d.fd = c.fd
      /\ d.inFlight = c.inFlight /\ d.idx = c.idx /\ d.log = c.log
  BY DEF conn_t
<1> QED
  BY <1>1 DEF GoodLink, SoundLink, Quiet, Logged, Scanned

LEMMA SocketGood ==
  ASSUME NEW c \in conn_t, GoodLink(c), NEW f \in BOOLEAN
  PROVE  GoodLink(open_socket(c, f))
<1> DEFINE d == open_socket(c, f)
<1>1. /\ d \in conn_t
      /\ d.lastRcvd = c.lastRcvd /\ d.window = c.window
      /\ d.inFlight = c.inFlight /\ d.idx = c.idx /\ d.log = c.log
  BY DEF conn_t, open_socket
<1> QED
  BY <1>1 DEF GoodLink, SoundLink, Quiet, Logged, Scanned
-----------------------------------------------------------------------------
(***************************************************************************)
(* The inductive invariant.                                                *)
(***************************************************************************)
Links == DOMAIN link \subseteq Link /\ \A l \in DOMAIN link : GoodLink(link[l])

Clock == now \in Nat /\ StartTime <= now

\* An exchange that is under way began after the last group had its time.
Registration ==
  /\ regTimeout \in Nat /\ idAt \in Nat
  /\ PendingListed
  /\ idAt # 0 => idAt + REG3_TIMEOUT <= regTimeout
  /\ idAt # 0 /\ pending # None => idAt + REG3_TIMEOUT < Seconds(now)

\* The time by which the addresses tried so far were given up, at the earliest.
TriedBy == StartTime + (Addresses - addrs) * (GLOBAL_TIMEOUT * MS)

\* The outage that allFailedAt stands for began when no link was active and
\* the receiver's address was already the present one.
Outage ==
  /\ activeAt \in Nat /\ activeAt <= now
  /\ addrs \in 1 .. Addresses /\ TriedBy <= now
  /\ allFailedAt \in Nat
  /\ allFailedAt # 0 => activeAt <= allFailedAt /\ TriedBy <= allFailedAt
  /\ ExitJustified

IInv == Links /\ Clock /\ Registration /\ Outage

\* What every action but update_conns does to the links.
LinkStep ==
  /\ DOMAIN link' = DOMAIN link
  /\ \A l \in DOMAIN link : GoodLink(link'[l]) /\ (link[l].fd => link'[l].fd)

LEMMA GoodIsTyped == \A c : GoodLink(c) => c \in conn_t /\ SoundLink(c)
BY DEF GoodLink, SoundLink

\* The three ways an acknowledgement goes through the list.
LEMMA RegisterStep ==
  ASSUME NEW L, DOMAIN L = DOMAIN link,
         \A l \in DOMAIN link : GoodLink(L[l]) /\ L[l].fd = link[l].fd,
         \/ \E sn \in Sn : register_nak(L, sn)
         \/ \E sn \in Sn : register_srtla_ack(L, sn)
         \/ \E ack \in Acks : register_srt_ack(L, ack)
         \/ link' = L
  PROVE  LinkStep
<1>1. ASSUME NEW sn \in Sn, register_nak(L, sn)  PROVE  LinkStep
  <2>1. CASE link' = L
    BY <2>1 DEF LinkStep
  <2>2. ASSUME NEW k \in DOMAIN L, IsFirst(k, Senders(L, sn)),
               link' = [L EXCEPT ![k] = Nakked(@, sn)]
        PROVE  LinkStep
    <3>1. Hits(L[k], sn) # {}
      BY <2>2 DEF IsFirst, Senders
    <3>2. GoodLink(Nakked(L[k], sn)) /\ Nakked(L[k], sn).fd = link[k].fd
      BY <3>1, GoodIsTyped, NakkedGood
    <3> QED
      BY <2>2, <3>2 DEF LinkStep
  <2> QED
    BY <1>1, <2>1, <2>2 DEF register_nak
<1>2. ASSUME NEW sn \in Sn, register_srtla_ack(L, sn)  PROVE  LinkStep
  <2>1. ASSUME NEW l \in DOMAIN L
        PROVE  GoodLink(Credited(L[l])) /\ Credited(L[l]).fd = link[l].fd
    BY GoodIsTyped, CreditedGood
  <2>2. CASE link' = [l \in DOMAIN L |-> Credited(L[l])]
    BY <2>1, <2>2 DEF LinkStep
  <2>3. ASSUME NEW k \in DOMAIN L, IsFirst(k, Senders(L, sn)),
               link' = [l \in DOMAIN L |->
                          Credited(IF l = k THEN Acked(L[l], sn) ELSE L[l])]
        PROVE  LinkStep
    <3>1. Hits(L[k], sn) # {}
      BY <2>3 DEF IsFirst, Senders
    <3>2. /\ SoundLink(Acked(L[k], sn)) /\ Acked(L[k], sn).lastRcvd # 0
          /\ Acked(L[k], sn).fd = link[k].fd
      BY <3>1, GoodIsTyped, AckedSound
    <3>3. Acked(L[k], sn) \in conn_t
      BY <3>2 DEF SoundLink
    <3>4. GoodLink(Credited(Acked(L[k], sn))) /\ Credited(Acked(L[k], sn)).fd = link[k].fd
      BY <3>2, <3>3, CreditedGood
    <3> QED
      BY <2>1, <2>3, <3>4 DEF LinkStep
  <2> QED
    BY <1>2, <2>2, <2>3 DEF register_srtla_ack
<1>3. ASSUME NEW ack \in Acks, register_srt_ack(L, ack)  PROVE  LinkStep
  <2>1. ack \in Nat
    BY SenderConstants
  <2>2. ASSUME NEW l \in DOMAIN L
        PROVE  /\ GoodLink(conn_register_srt_ack(L[l], ack))
               /\ conn_register_srt_ack(L[l], ack).fd = link[l].fd
    BY <2>1, GoodIsTyped, SrtAckGood
  <2> QED
    BY <1>3, <2>2 DEF LinkStep, register_srt_ack
<1>4. CASE link' = L
  BY <1>4 DEF LinkStep
<1> QED
  BY <1>1, <1>2, <1>3, <1>4

\* The clock does not go back.
LEMMA ClockStep ==
  ASSUME Clock, ReadClock
  PROVE  /\ Clock' /\ now <= now'
         /\ Seconds(now') \in Nat /\ Seconds(now') > CONN_TIMEOUT + 1
         /\ Seconds(now) \in Nat /\ Seconds(now) <= Seconds(now')
<1>1. now' \in Nat /\ now <= now' /\ StartTime \in Nat /\ StartTime <= now'
  BY SenderConstants DEF Clock, ReadClock
<1> QED
  BY <1>1, SecondsMonotone, SecondsLarge DEF Clock

LEMMA SrtDataStep ==
  ASSUME Links, Clock, NEW sn \in Sn \cup {Free}, handle_srt_data(sn)
  PROVE  LinkStep
<1> DEFINE t == Seconds(now')
<1>1. t \in Nat /\ t > CONN_TIMEOUT + 1
  BY ClockStep DEF handle_srt_data
<1> HIDE DEF t
<1>2. CASE UNCHANGED link
  BY <1>2 DEF LinkStep, Links
<1>3. ASSUME NEW l \in DOMAIN link, link' = [link EXCEPT ![l].lastRcvd = 1]
      PROVE  LinkStep
  <2>1. GoodLink([link[l] EXCEPT !.lastRcvd = 1]) /\ [link[l] EXCEPT !.lastRcvd = 1].fd = link[l].fd
    BY GoodIsTyped, HeardGood DEF Links
  <2>2. link' = [link EXCEPT ![l] = [link[l] EXCEPT !.lastRcvd = 1]]
    BY <1>3
  <2> QED
    BY <2>1, <2>2 DEF LinkStep, Links
<1>4. ASSUME NEW l \in DOMAIN link, IsBest(l, Usable(t)), sn # Free,
             link' = [link EXCEPT ![l] = reg_pkt(@, sn)]
      PROVE  LinkStep
  <2>1. l \in Usable(t)
    BY <1>4 DEF IsBest, IsFirst
  <2>2. link[l].lastRcvd # 0
    BY <1>1, <2>1, LinkConstants DEF Usable, conn_timed_out
  <2>3. GoodLink(reg_pkt(link[l], sn)) /\ reg_pkt(link[l], sn).fd = link[l].fd
    BY <1>4, <2>2, GoodIsTyped, RegPktGood DEF Links
  <2> QED
    BY <1>4, <2>3 DEF LinkStep, Links
<1> QED
  BY <1>2, <1>3, <1>4 DEF handle_srt_data, t

LEMMA SrtlaDataLinks ==
  ASSUME Links, Clock, NEW l \in DOMAIN link, NEW kind \in Packets,
         handle_srtla_data(l, kind)
  PROVE  LinkStep
<1>1. Seconds(now') \in Nat \ {0}
  BY ClockStep, LinkConstants DEF handle_srtla_data
<1>2. /\ DOMAIN HeardOn(l) = DOMAIN link
      /\ \A k \in DOMAIN link : GoodLink(HeardOn(l)[k]) /\ HeardOn(l)[k].fd = link[k].fd
  <2> DEFINE d == [link[l] EXCEPT !.lastRcvd = Seconds(now')]
  <2>1. GoodLink(d) /\ d.fd = link[l].fd
    BY <1>1, GoodIsTyped, HeardGood DEF Links
  <2>2. HeardOn(l) = [link EXCEPT ![l] = d]
    BY DEF HeardOn
  <2> HIDE DEF d
  <2> QED
    BY <2>1, <2>2 DEF Links
<1>3. CASE UNCHANGED link
  BY <1>3 DEF LinkStep, Links
<1>4. CASE receive_traffic(l, kind) /\ kind \in PacketKinds \ {"REG_NGP", "REG2", "REG3"}
  <2>1. CASE kind = "SRT_ACK"
    BY <1>2, <1>4, <2>1, RegisterStep DEF receive_traffic
  <2>2. CASE kind = "SRT_NAK"
    BY <1>2, <1>4, <2>2, RegisterStep DEF receive_traffic
  <2>3. CASE kind = "SRTLA_ACK"
    BY <1>2, <1>4, <2>3, RegisterStep DEF receive_traffic
  <2>4. CASE kind = "other"
    BY <1>2, <1>4, <2>4, RegisterStep DEF receive_traffic
  <2> QED
    BY <1>4, <2>1, <2>2, <2>3, <2>4 DEF PacketKinds
<1>5. CASE link' = HeardOn(l)
  BY <1>2, <1>5, RegisterStep
<1>6. kind \in PacketKinds
  BY SenderConstants
<1> QED
  BY <1>3, <1>4, <1>5, <1>6
     DEF handle_srtla_data, receive_ngp, receive_reg2, receive_reg3

LEMMA HousekeepingLinks ==
  ASSUME Links, connection_housekeeping
  PROVE  LinkStep
<1> DEFINE closed == {l \in DOMAIN link : ~link[l].fd}
           live   == Usable(Seconds(now')) \ closed
<1>1. PICK opened \in SUBSET closed :
        link' = [l \in DOMAIN link |->
                   IF l \in closed THEN open_socket(link[l], l \in opened)
                   ELSE IF l \in live THEN link[l] ELSE Failed(link[l])]
  BY DEF connection_housekeeping
<1>2. ASSUME NEW l \in DOMAIN link
      PROVE  /\ GoodLink(open_socket(link[l], l \in opened))
             /\ GoodLink(link[l])
             /\ GoodLink(Failed(link[l])) /\ Failed(link[l]).fd = link[l].fd
  <2>1. (l \in opened) \in BOOLEAN
    OBVIOUS
  <2> QED
    BY <2>1, GoodIsTyped, SocketGood, FailedGood, Zenon DEF Links
<1> HIDE DEF live
<1> QED
  BY <1>1, <1>2 DEF LinkStep

LEMMA ReloadLinks ==
  ASSUME Links, NEW F \in SUBSET Link, update_conns(F)
  PROVE  Links'
<1>1. ASSUME NEW l \in F
      PROVE  GoodLink(IF l \in DOMAIN link THEN link[l] ELSE NewConn)
  BY NewLink DEF Links
<1> QED
  BY <1>1 DEF Links, update_conns
-----------------------------------------------------------------------------
LEMMA PendingKept ==
  ASSUME PendingListed, LinkStep, UNCHANGED pending \/ pending' = None
  PROVE  PendingListed'
BY DEF PendingListed, LinkStep

\* Steps that touch no timer of the registration, though time may pass.
LEMMA RegistrationKept ==
  ASSUME Registration, Clock, ReadClock, LinkStep,
         UNCHANGED <<regTimeout, idAt>>, UNCHANGED pending \/ pending' = None
  PROVE  Registration'
<1>1. PendingListed'
  BY PendingKept DEF Registration
<1>2. Seconds(now') \in Nat /\ Seconds(now) \in Nat /\ Seconds(now) <= Seconds(now')
  BY ClockStep
<1>3. pending' # None => pending # None
  OBVIOUS
<1>4. REG3_TIMEOUT \in Nat
  BY SenderConstants
<1> QED
  BY <1>1, <1>2, <1>3, <1>4 DEF Registration

LEMMA SrtlaDataRegistration ==
  ASSUME Registration, Clock, LinkStep,
         NEW l \in DOMAIN link, NEW kind, handle_srtla_data(l, kind)
  PROVE  Registration'
<1> DEFINE t == Seconds(now')
<1>1. t \in Nat /\ ReadClock /\ link[l].fd /\ link'[l].fd /\ l \in DOMAIN link'
  BY ClockStep DEF handle_srtla_data, LinkStep
<1>2. {REG2_TIMEOUT, REG3_TIMEOUT} \subseteq Nat
  BY SenderConstants
<1>3. CASE UNCHANGED <<regTimeout, idAt, pending>>
  BY <1>1, <1>3, RegistrationKept
<1>4. CASE MayRegister(t) /\ pending' = l /\ regTimeout' = t + REG2_TIMEOUT /\ idAt' = idAt
  <2>1. PendingListed'
    BY <1>1, <1>4 DEF PendingListed
  <2>2. t > regTimeout
    BY <1>4 DEF MayRegister
  <2> HIDE DEF t
  <2>3. idAt' # 0 => idAt' + REG3_TIMEOUT < t /\ idAt' + REG3_TIMEOUT <= regTimeout'
    BY <1>1, <1>2, <1>4, <2>2 DEF Registration
  <2>4. regTimeout' \in Nat /\ idAt' \in Nat
    BY <1>1, <1>2, <1>4 DEF Registration
  <2> QED
    BY <2>1, <2>3, <2>4 DEF Registration, t
<1>5. CASE idAt' = t /\ pending' = None /\ regTimeout' = t + REG3_TIMEOUT
  BY <1>1, <1>2, <1>5 DEF Registration, PendingListed
<1> QED
  BY <1>3, <1>4, <1>5, Zenon
     DEF handle_srtla_data, receive_ngp, receive_reg2, receive_reg3, receive_traffic, regVars

LEMMA ReloadRegistration ==
  ASSUME Registration, NEW F \in SUBSET Link, update_conns(F)
  PROVE  Registration'
<1>1. UNCHANGED <<regTimeout, idAt, now>> /\ (pending' # None => pending' = pending /\ pending \in F)
  BY DEF update_conns, StillPending
<1>2. PendingListed'
  BY <1>1 DEF PendingListed, Registration, update_conns
<1> QED
  BY <1>1, <1>2 DEF Registration, Seconds
-----------------------------------------------------------------------------
LEMMA TimeoutType ==
  /\ GLOBAL_TIMEOUT * MS \in Nat /\ StartTime \in Nat /\ Addresses \in Nat \ {0}
  /\ Addresses * GLOBAL_TIMEOUT * MS = Addresses * (GLOBAL_TIMEOUT * MS)
BY SenderConstants

\* One address fewer is one timeout more.
LEMMA NextAddress ==
  ASSUME NEW a \in 1 .. Addresses
  PROVE  LET T(b) == StartTime + (Addresses - b) * (GLOBAL_TIMEOUT * MS)
         IN  T(a) \in Nat /\ T(a - 1) = T(a) + GLOBAL_TIMEOUT * MS
<1> DEFINE G == GLOBAL_TIMEOUT * MS
<1>1. G \in Nat /\ StartTime \in Nat /\ Addresses \in Nat \ {0}
  BY TimeoutType
<1> HIDE DEF G
<1>2. (Addresses - a) * G \in Nat
  BY <1>1
<1>3. (Addresses - (a - 1)) * G = (Addresses - a) * G + G
  BY <1>1
<1> QED
  BY <1>1, <1>2, <1>3 DEF G

LEMMA OutageKept ==
  ASSUME Outage, Running, now \in Nat, now' \in Nat, now <= now',
         UNCHANGED <<allFailedAt, addrs, exited, activeAt>>
  PROVE  Outage'
<1>1. TriedBy' = TriedBy /\ TriedBy \in Nat
  BY NextAddress DEF TriedBy, Outage
<1>2. ExitJustified'
  BY DEF ExitJustified, Running
<1> QED
  BY <1>1, <1>2 DEF Outage

LEMMA HousekeepingOutage ==
  ASSUME Outage, Clock, connection_housekeeping
  PROVE  Outage'
<1> DEFINE closed == {l \in DOMAIN link : ~link[l].fd}
           live   == Usable(Seconds(now')) \ closed
           G      == GLOBAL_TIMEOUT * MS
           since  == FailedSince(live, now')
           over   == since # 0 /\ now' > since + G
<1>1. /\ now' \in Nat /\ now \in Nat /\ now <= now' /\ now' # 0
      /\ G \in Nat /\ Addresses \in Nat \ {0} /\ StartTime \in Nat
  <2>1. Clock' /\ now <= now' /\ Seconds(now') \in Nat /\ Seconds(now') > CONN_TIMEOUT + 1
    BY ClockStep DEF connection_housekeeping
  <2>2. now \in Nat /\ now' \in Nat
    BY <2>1 DEF Clock
  <2>3. CONN_TIMEOUT \in Nat /\ MS \in Nat \ {0}
    BY LinkConstants, SenderConstants
  <2>4. Seconds(0) = 0
    BY <2>3 DEF Seconds
  <2>5. now' # 0
    BY <2>1, <2>3, <2>4
  <2> QED
    BY <2>1, <2>2, <2>5, TimeoutType
<1>2. /\ exited' = (over /\ (hasConnected \/ addrs = 1))
      /\ addrs' = IF over /\ ~exited' THEN addrs - 1 ELSE addrs
      /\ allFailedAt' = IF over /\ ~exited' THEN 0 ELSE since
      /\ activeAt' = IF live = {} THEN activeAt ELSE now'
      /\ hasConnected' = hasConnected
  BY DEF connection_housekeeping, GiveUp
<1>3. TriedBy \in Nat /\ addrs \in 1 .. Addresses
  BY NextAddress DEF Outage, TriedBy
<1>4. /\ since \in Nat
      /\ since # 0 => live = {} /\ activeAt <= since /\ TriedBy <= since
  BY <1>1, <1>3 DEF FailedSince, Outage
<1>5. activeAt' \in Nat /\ activeAt' <= now' /\ (since # 0 => activeAt' = activeAt)
  <2>1. activeAt \in Nat /\ activeAt <= now'
    BY <1>1 DEF Outage
  <2>2. activeAt' = activeAt \/ (activeAt' = now' /\ live # {})
    BY <1>2
  <2> HIDE DEF since, live
  <2> QED
    BY <1>1, <1>4, <2>1, <2>2
<1> HIDE DEF G, since, live
<1>6. CASE ~over
  <2>1. addrs' = addrs /\ allFailedAt' = since /\ ~exited'
    BY <1>2, <1>6, Zenon
  <2>2. TriedBy' = TriedBy
    BY <2>1 DEF TriedBy
  <2>3. TriedBy' <= now' /\ (allFailedAt' # 0 => activeAt' <= allFailedAt' /\ TriedBy' <= allFailedAt')
    BY <1>1, <1>3, <1>4, <1>5, <2>1, <2>2 DEF Outage
  <2> QED
    BY <1>3, <1>4, <1>5, <2>1, <2>3 DEF Outage, ExitJustified
<1>7. CASE over /\ ~(hasConnected \/ addrs = 1)
  <2>1. addrs' = addrs - 1 /\ allFailedAt' = 0 /\ ~exited'
    BY <1>2, <1>7, Zenon
  <2>2. TriedBy' = TriedBy + G
    BY <1>3, <2>1, NextAddress DEF TriedBy, G
  <2>3. TriedBy' <= now'
    BY <1>1, <1>3, <1>4, <1>7, <2>2
  <2>4. addrs' \in 1 .. Addresses
    BY <1>1, <1>3, <1>7, <2>1
  <2> QED
    BY <1>5, <2>1, <2>3, <2>4 DEF Outage, ExitJustified
<1>8. CASE over /\ (hasConnected \/ addrs = 1)
  <2>1. addrs' = addrs /\ allFailedAt' = since /\ exited'
    BY <1>2, <1>8, Zenon
  <2>2. TriedBy' = TriedBy
    BY <2>1 DEF TriedBy
  <2>3. now' > activeAt' + G
    BY <1>1, <1>4, <1>5, <1>8
  <2>4. ASSUME ~hasConnected'  PROVE  now' > StartTime + Addresses * G
    <3>1. addrs = 1
      BY <1>2, <1>8, <2>4
    <3>2. TriedBy = StartTime + (Addresses - 1) * G
      BY <3>1 DEF TriedBy, G
    <3>3. TriedBy + G = StartTime + Addresses * G
      BY <1>1, <3>2
    <3>4. now' > TriedBy + G
      BY <1>1, <1>3, <1>4, <1>8
    <3> QED
      BY <3>3, <3>4
  <2>5. ExitJustified'
    BY <2>3, <2>4, TimeoutType DEF ExitJustified, G
  <2>6. TriedBy' <= now' /\ (allFailedAt' # 0 => activeAt' <= allFailedAt' /\ TriedBy' <= allFailedAt')
    BY <1>1, <1>3, <1>4, <1>5, <2>1, <2>2 DEF Outage
  <2> QED
    BY <1>3, <1>4, <1>5, <2>1, <2>5, <2>6 DEF Outage
<1> QED
  BY <1>6, <1>7, <1>8
-----------------------------------------------------------------------------
LEMMA InvInit == Init => IInv
<1> SUFFICES ASSUME Init  PROVE  IInv
  OBVIOUS
<1>1. Links
  <2>1. PICK opened : link = [l \in {conns[i] : i \in DOMAIN conns} |->
                                open_socket(NewConn, l \in opened)]
    BY Zenon DEF Init
  <2>2. ASSUME NEW l  PROVE  GoodLink(open_socket(NewConn, l \in opened))
    BY NewLink, GoodIsTyped, SocketGood, (l \in opened) \in BOOLEAN, Zenon
  <2>3. {conns[i] : i \in DOMAIN conns} \subseteq Link
    BY DEF Init, Orders
  <2> QED
    BY <2>1, <2>2, <2>3 DEF Links
<1>2. Clock
  BY TimeoutType DEF Init, Clock
<1>3. Registration
  BY DEF Init, Registration, PendingListed
<1>4. Outage
  <2>1. Addresses - Addresses = 0 /\ 0 * (GLOBAL_TIMEOUT * MS) = 0
    BY TimeoutType
  <2>2. TriedBy = StartTime
    <3>1. TriedBy = StartTime + (Addresses - Addresses) * (GLOBAL_TIMEOUT * MS)
      BY DEF Init, TriedBy
    <3>2. StartTime + 0 = StartTime
      BY TimeoutType
    <3> QED
      BY <2>1, <3>1, <3>2
  <2>3. /\ activeAt = StartTime /\ now = StartTime /\ addrs = Addresses
        /\ allFailedAt = 0 /\ exited = FALSE
    BY DEF Init
  <2>4. StartTime \in Nat /\ Addresses \in 1 .. Addresses
    BY TimeoutType
  <2> QED
    BY <2>2, <2>3, <2>4 DEF Outage, ExitJustified
<1> QED
  BY <1>1, <1>2, <1>3, <1>4 DEF IInv

LEMMA InvNext == IInv /\ [Next]_vars => IInv'
<1> SUFFICES ASSUME IInv, [Next]_vars  PROVE  IInv'
  OBVIOUS
<1> USE DEF IInv
<1>0. ASSUME LinkStep  PROVE  Links'
  BY <1>0 DEF LinkStep, Links
<1>1. CASE connection_housekeeping
  <2>1. LinkStep
    BY <1>1, HousekeepingLinks
  <2>2. ReadClock /\ UNCHANGED <<regTimeout, idAt>> /\ (UNCHANGED pending \/ pending' = None)
    BY <1>1 DEF connection_housekeeping
  <2>3. Registration' /\ Clock'
    BY <2>1, <2>2, RegistrationKept, ClockStep
  <2> QED
    BY <1>0, <1>1, <2>1, <2>3, HousekeepingOutage
<1>2. ASSUME NEW sn \in Sn \cup {Free}, handle_srt_data(sn)  PROVE  IInv'
  <2>1. LinkStep
    BY <1>2, SrtDataStep
  <2>2. /\ ReadClock /\ Running /\ UNCHANGED <<regTimeout, idAt, pending>>
        /\ UNCHANGED <<allFailedAt, addrs, exited, activeAt>>
    BY <1>2 DEF handle_srt_data, regVars, hkVars
  <2>3. Registration' /\ Clock' /\ now <= now'
    BY <2>1, <2>2, RegistrationKept, ClockStep
  <2>4. Outage'
    BY <2>2, <2>3, OutageKept DEF Clock
  <2> QED
    BY <1>0, <2>1, <2>3, <2>4
<1>3. ASSUME NEW l \in DOMAIN link, NEW kind \in Packets, handle_srtla_data(l, kind)
      PROVE  IInv'
  <2>1. LinkStep
    BY <1>3, SrtlaDataLinks
  <2>2. ReadClock /\ Running /\ UNCHANGED <<allFailedAt, addrs, exited, activeAt>>
    BY <1>3 DEF handle_srtla_data, hkVars
  <2>3. Registration' /\ Clock' /\ now <= now'
    BY <1>3, <2>1, <2>2, SrtlaDataRegistration, ClockStep
  <2>4. Outage'
    BY <2>2, <2>3, OutageKept DEF Clock
  <2> QED
    BY <1>0, <2>1, <2>3, <2>4
<1>4. ASSUME NEW F \in SUBSET Link, update_conns(F)  PROVE  IInv'
  <2>1. now' = now /\ Running /\ UNCHANGED <<allFailedAt, addrs, exited, activeAt>>
    BY <1>4 DEF update_conns, hkVars
  <2>2. Outage' /\ Clock'
    BY <2>1, OutageKept DEF Clock
  <2> QED
    BY <1>4, <2>2, ReloadLinks, ReloadRegistration
<1>5. CASE UNCHANGED vars
  BY <1>5 DEF vars, regVars, hkVars, Links, Clock, Registration, PendingListed,
              Outage, TriedBy, ExitJustified, Seconds
<1> QED
  BY <1>1, <1>2, <1>3, <1>4, <1>5 DEF Next

LEMMA Invariance == Spec => []IInv
<1>1. Init => IInv
  BY InvInit
<1>2. IInv /\ [Next]_vars => IInv'
  BY InvNext
<1> QED
  BY <1>1, <1>2, PTL DEF Spec

(***************************************************************************)
(* WindowBounded: however losses, acknowledgements, failures and reloads   *)
(* follow each other, register_nak and register_srtla_ack keep the window  *)
(* of every link between WINDOW_MIN and WINDOW_MAX times WINDOW_MULT.      *)
(***************************************************************************)
THEOREM WindowCorrect == Spec => []WindowBounded
<1>1. IInv => WindowBounded
  <2> SUFFICES ASSUME IInv, NEW l \in DOMAIN link
               PROVE  link[l].window \in WindowFloor .. WindowCeiling
    BY DEF WindowBounded
  <2>1. GoodLink(link[l])
    BY DEF IInv, Links
  <2>2. /\ link[l].window \in Nat
        /\ WindowFloor <= link[l].window /\ link[l].window <= WindowCeiling
    BY <2>1, WindowLimits DEF GoodLink, SoundLink, conn_t
  <2> QED
    BY <2>2, WindowLimits
<1> QED
  BY <1>1, Invariance, PTL

(***************************************************************************)
(* InFlightCovers: in_flight_pkts is never below the number of packets in  *)
(* the part of pkt_log that the handlers search.                           *)
(***************************************************************************)
THEOREM InFlightCorrect == Spec => []InFlightCovers
<1>1. IInv => InFlightCovers
  BY DEF IInv, Links, GoodLink, SoundLink, Logged, InFlightCovers
<1> QED
  BY <1>1, Invariance, PTL

(***************************************************************************)
(* PendingListed: update_conns and connection_housekeeping never leave     *)
(* pending_reg2_conn at a link that was freed or has no socket.            *)
(***************************************************************************)
THEOREM PendingCorrect == Spec => []PendingListed
<1>1. IInv => PendingListed
  BY DEF IInv, Registration
<1> QED
  BY <1>1, Invariance, PTL

(***************************************************************************)
(* GroupKept: handle_srtla_data does not replace the group id within       *)
(* REG3_TIMEOUT of having taken it from REG2.                              *)
(***************************************************************************)
THEOREM GroupCorrect == Spec => GroupKept
<1>1. IInv /\ [Next]_vars =>
        [srtlaId' # srtlaId => idAt = 0 \/ Seconds(now') > idAt + REG3_TIMEOUT]_vars
  <2> SUFFICES ASSUME IInv, Next, srtlaId' # srtlaId, idAt # 0
               PROVE  Seconds(now') > idAt + REG3_TIMEOUT
    BY DEF vars, regVars
  <2>1. PICK l \in DOMAIN link, kind \in Packets : handle_srtla_data(l, kind)
    BY Zenon DEF Next, connection_housekeeping, handle_srt_data, update_conns, regVars
  <2>2. pending = l /\ ReadClock
    BY <2>1, Zenon DEF handle_srtla_data, receive_ngp, receive_reg2, receive_reg3,
                receive_traffic, regVars
  <2>3. l # None
    BY SenderConstants DEF IInv, Links
  <2>4. Seconds(now) \in Nat /\ Seconds(now') \in Nat /\ Seconds(now) <= Seconds(now')
    BY <2>2, ClockStep DEF IInv
  <2>5. idAt \in Nat /\ REG3_TIMEOUT \in Nat /\ idAt + REG3_TIMEOUT < Seconds(now)
    BY <2>2, <2>3, SenderConstants DEF IInv, Registration
  <2> QED
    BY <2>4, <2>5
<1> QED
  BY <1>1, Invariance, PTL DEF Spec, GroupKept

(***************************************************************************)
(* ExitJustified: connection_housekeeping ends the program only after a    *)
(* whole GLOBAL_TIMEOUT without an active link and, before the first       *)
(* connection, only after as long with every resolved address.             *)
(***************************************************************************)
THEOREM ExitCorrect == Spec => []ExitJustified
<1>1. IInv => ExitJustified
  BY DEF IInv, Outage
<1> QED
  BY <1>1, Invariance, PTL
-----------------------------------------------------------------------------
(***************************************************************************)
(* The list and the fields that no other proof needs.                      *)
(***************************************************************************)
Shape ==
  /\ link = [l \in DOMAIN link |-> link[l]]
  /\ conns \in Orders(DOMAIN link)
  /\ pending \in Link \cup {None} /\ srtlaId \in 0 .. MaxId
  /\ active \in Nat /\ lastRan \in Nat /\ reloads \in Nat
  /\ hasConnected \in BOOLEAN /\ exited \in BOOLEAN

\* A list of A followed by a list of B is a list of both.
LEMMA ListsJoined ==
  ASSUME NEW A, NEW B, IsFiniteSet(A), IsFiniteSet(B), A \cap B = {},
         NEW s \in Orders(A), NEW t \in Orders(B)
  PROVE  s \o t \in Orders(A \cup B)
<1> DEFINE a == Cardinality(A)
           b == Cardinality(B)
<1>1. a \in Nat /\ b \in Nat /\ Cardinality(A \cup B) = a + b
  <2>1. Cardinality(A \cap B) = 0
    BY FS_EmptySet
  <2>2. a \in Nat /\ b \in Nat
    BY FS_CardinalityType
  <2>3. Cardinality(A \cup B) = a + b - 0
    BY <2>1, FS_Union
  <2> HIDE DEF a, b
  <2> QED
    BY <2>2, <2>3
<1>2. /\ s \in [1 .. a -> A] /\ {s[i] : i \in DOMAIN s} = A
      /\ t \in [1 .. b -> B] /\ {t[i] : i \in DOMAIN t} = B
  BY DEF Orders
<1> HIDE DEF a, b
<1> DEFINE C == A \cup B
           u == s \o t
<1>3. s \in Seq(C) /\ t \in Seq(C)
  <2>1. s \in [1 .. a -> C] /\ t \in [1 .. b -> C]
    BY <1>2
  <2> HIDE DEF C
  <2> QED
    BY <1>1, <2>1, SeqDef
<1>4. Len(s) = a /\ Len(t) = b
  <2>1. DOMAIN s = 1 .. a /\ DOMAIN t = 1 .. b
    BY <1>2
  <2>2. DOMAIN s = 1 .. Len(s) /\ DOMAIN t = 1 .. Len(t) /\ Len(s) \in Nat /\ Len(t) \in Nat
    BY <1>3, LenProperties
  <2> QED
    BY <1>1, <2>1, <2>2
<1>5. /\ u \in Seq(C) /\ Len(u) = a + b
      /\ \A i \in 1 .. a + b : u[i] = IF i <= a THEN s[i] ELSE t[i - a]
  BY <1>3, <1>4, ConcatProperties
<1>6. u \in [1 .. a + b -> C]
  BY <1>5, LenProperties, Zenon
<1> HIDE DEF u
<1>7. C \subseteq {u[i] : i \in DOMAIN u}
  <2>1. ASSUME NEW x \in A  PROVE  \E i \in 1 .. a + b : u[i] = x
    <3>1. PICK i \in 1 .. a : s[i] = x
      BY <1>2
    <3> QED
      BY <1>1, <1>5, <3>1
  <2>2. ASSUME NEW x \in B  PROVE  \E i \in 1 .. a + b : u[i] = x
    <3>1. PICK i \in 1 .. b : t[i] = x
      BY <1>2
    <3>2. a + i \in 1 .. a + b /\ ~(a + i <= a) /\ (a + i) - a = i
      BY <1>1
    <3> QED
      BY <1>5, <3>1, <3>2
  <2> QED
    BY <1>6, <2>1, <2>2
<1>8. {u[i] : i \in DOMAIN u} \subseteq C
  BY <1>6
<1> QED
  BY <1>1, <1>6, <1>7, <1>8, Zenon DEF Orders, u

LEMMA ReloadShape ==
  ASSUME Links, Shape, NEW F \in SUBSET Link, update_conns(F)
  PROVE  Shape'
<1>1. DOMAIN link' = F /\ link' = [l \in DOMAIN link' |-> link'[l]]
  BY DEF update_conns
<1>2. conns' \in Orders(F)
  <2> DEFINE A == F \ DOMAIN link
             B == F \cap DOMAIN link
  <2>1. IsFiniteSet(A) /\ IsFiniteSet(B) /\ A \cap B = {} /\ A \cup B = F
    BY SenderConstants, FS_Subset
  <2>2. PICK fresh \in Orders(A), kept \in Orders(B) : conns' = fresh \o kept
    BY DEF update_conns
  <2> HIDE DEF A, B
  <2> QED
    BY <2>1, <2>2, ListsJoined
<1>3. pending' \in Link \cup {None} /\ reloads' \in Nat
  BY DEF Shape, update_conns, StillPending
<1>4. UNCHANGED <<srtlaId, active, lastRan, hasConnected, exited>>
  BY DEF update_conns, hkVars
<1> QED
  BY <1>1, <1>2, <1>3, <1>4 DEF Shape

LEMMA HousekeepingShape ==
  ASSUME Links, Clock, Shape, connection_housekeeping
  PROVE  Shape'
<1>1. DOMAIN link' = DOMAIN link /\ link' = [l \in DOMAIN link' |-> link'[l]]
  BY DEF connection_housekeeping
<1>2. active' \in Nat
  <2> DEFINE live == Usable(Seconds(now')) \ {l \in DOMAIN link : ~link[l].fd}
  <2>1. live \subseteq Link /\ active' = Cardinality(live)
    BY DEF connection_housekeeping, Links, Usable
  <2> HIDE DEF live
  <2> QED
    BY <2>1, SenderConstants, FS_Subset, FS_CardinalityType
<1>3. lastRan' \in Nat
  BY ClockStep DEF connection_housekeeping, Clock
<1>4. exited' \in BOOLEAN
  BY DEF connection_housekeeping, GiveUp
<1>5. pending' \in Link \cup {None}
  BY DEF connection_housekeeping, Shape
<1>6. UNCHANGED <<conns, srtlaId, reloads, hasConnected>>
  BY DEF connection_housekeeping
<1> QED
  BY <1>1, <1>2, <1>3, <1>4, <1>5, <1>6 DEF Shape

LEMMA SrtlaDataShape ==
  ASSUME Links, Shape, NEW l \in DOMAIN link, NEW kind \in Packets, handle_srtla_data(l, kind)
  PROVE  Shape'
<1>1. DOMAIN HeardOn(l) = DOMAIN link /\ HeardOn(l) = [k \in DOMAIN link |-> HeardOn(l)[k]]
  BY DEF HeardOn
<1>2. DOMAIN link' = DOMAIN link /\ link' = [k \in DOMAIN link' |-> link'[k]]
  <2> DEFINE L == HeardOn(l)
  <2> HIDE DEF L
  <2>1. CASE UNCHANGED link
    BY <2>1 DEF Shape
  <2>2. CASE link' = L
    BY <1>1, <2>2 DEF L
  <2>3. ASSUME NEW sn, register_nak(L, sn)
        PROVE  DOMAIN link' = DOMAIN link /\ link' = [k \in DOMAIN link' |-> link'[k]]
    BY <1>1, <2>3 DEF L, register_nak
  <2>4. ASSUME NEW sn, register_srtla_ack(L, sn)
        PROVE  DOMAIN link' = DOMAIN link /\ link' = [k \in DOMAIN link' |-> link'[k]]
    BY <1>1, <2>4 DEF L, register_srtla_ack
  <2>5. ASSUME NEW ack, register_srt_ack(L, ack)
        PROVE  DOMAIN link' = DOMAIN link /\ link' = [k \in DOMAIN link' |-> link'[k]]
    BY <1>1, <2>5 DEF L, register_srt_ack
  <2>6. kind \in PacketKinds
    BY SenderConstants
  <2>7. CASE receive_traffic(l, kind) /\ kind \notin {"REG_NGP", "REG2", "REG3"}
    BY <2>2, <2>3, <2>4, <2>5, <2>6, <2>7, Zenon DEF receive_traffic, PacketKinds, L
  <2> QED
    BY <2>1, <2>2, <2>7
       DEF handle_srtla_data, receive_ngp, receive_reg2, receive_reg3, L
<1>3. pending' \in Link \cup {None} /\ srtlaId' \in 0 .. MaxId
  <2>1. /\ pending' = pending \/ pending' = l \/ pending' = None
        /\ srtlaId' = srtlaId \/ srtlaId' \in 1 .. MaxId
    <3>1. CASE UNCHANGED regVars
      BY <3>1 DEF regVars
    <3>2. CASE receive_ngp(l)
      BY <3>2 DEF receive_ngp
    <3>3. ASSUME NEW id \in 1 .. MaxId, receive_reg2(l, id)
          PROVE  /\ pending' = pending \/ pending' = l \/ pending' = None
                 /\ srtlaId' = srtlaId \/ srtlaId' \in 1 .. MaxId
      BY <3>3 DEF receive_reg2, regVars
    <3> QED
      BY <3>1, <3>2, <3>3, Zenon DEF handle_srtla_data, receive_reg3, receive_traffic
  <2>2. MaxId \in Nat
    BY SenderConstants
  <2> QED
    BY <2>1, <2>2 DEF Shape, Links
<1>4. active' \in Nat /\ hasConnected' \in BOOLEAN
  <2>1. UNCHANGED <<active, hasConnected>> \/ (active' = active + 1 /\ hasConnected' = TRUE)
    BY Zenon DEF handle_srtla_data, receive_ngp, receive_reg2, receive_reg3, receive_traffic
  <2>2. active' \in Nat
    BY <2>1 DEF Shape
  <2>3. hasConnected' \in BOOLEAN
    BY <2>1, Zenon DEF Shape
  <2> QED
    BY <2>2, <2>3
<1>5. UNCHANGED <<conns, lastRan, reloads, exited>>
  BY DEF handle_srtla_data, hkVars
<1> QED
  BY <1>2, <1>3, <1>4, <1>5 DEF Shape

LEMMA ShapeNext == IInv /\ Shape /\ [Next]_vars => Shape'
<1> SUFFICES ASSUME IInv, Shape, [Next]_vars  PROVE  Shape'
  OBVIOUS
<1>1. CASE connection_housekeeping
  BY <1>1, HousekeepingShape DEF IInv
<1>2. ASSUME NEW sn \in Sn \cup {Free}, handle_srt_data(sn)  PROVE  Shape'
  <2>1. DOMAIN link' = DOMAIN link /\ link' = [k \in DOMAIN link' |-> link'[k]]
    BY <1>2 DEF handle_srt_data, Shape
  <2>2. UNCHANGED <<conns, pending, srtlaId, active, hasConnected, lastRan, exited, reloads>>
    BY <1>2 DEF handle_srt_data, regVars, hkVars
  <2> QED
    BY <2>1, <2>2 DEF Shape
<1>3. ASSUME NEW l \in DOMAIN link, NEW kind \in Packets, handle_srtla_data(l, kind)
      PROVE  Shape'
  BY <1>3, SrtlaDataShape DEF IInv
<1>4. ASSUME NEW F \in SUBSET Link, update_conns(F)  PROVE  Shape'
  BY <1>4, ReloadShape DEF IInv
<1>5. CASE UNCHANGED vars
  BY <1>5 DEF vars, regVars, hkVars, Shape
<1> QED
  BY <1>1, <1>2, <1>3, <1>4, <1>5 DEF Next

LEMMA ShapeInit == Init => Shape
<1> SUFFICES ASSUME Init  PROVE  Shape
  OBVIOUS
<1>1. PICK S \in SUBSET Link : conns \in Orders(S)
  BY DEF Init
<1>2. {conns[i] : i \in DOMAIN conns} = S
  BY <1>1 DEF Orders
<1>3. DOMAIN link = S /\ link = [l \in DOMAIN link |-> link[l]]
  BY <1>2 DEF Init
<1>4. srtlaId \in 0 .. MaxId
  BY SenderConstants DEF Init
<1> QED
  BY <1>1, <1>3, <1>4, Zenon DEF Init, Shape

(***************************************************************************)
(* TypeOK: whatever is reloaded, the list holds exactly the links that     *)
(* have a conn_t, each once (update_conns frees and adds both together),   *)
(* and every field keeps its type.                                         *)
(***************************************************************************)
THEOREM TypeCorrect == Spec => []TypeOK
<1>1. IInv /\ Shape => TypeOK
  <2> SUFFICES ASSUME IInv, Shape  PROVE  TypeOK
    OBVIOUS
  <2>1. \A l \in DOMAIN link : link[l] \in conn_t
    BY GoodIsTyped DEF IInv, Links
  <2>2. link \in [DOMAIN link -> conn_t] /\ DOMAIN link \in SUBSET Link
    BY <2>1 DEF Shape, IInv, Links
  <2> QED
    BY <2>2 DEF TypeOK, IInv, Shape, Clock, Registration, Outage
<1> QED
  BY <1>1, ShapeInit, ShapeNext, Invariance, PTL DEF Spec
=============================================================================
