--------------------------- MODULE QualityProofs ---------------------------
(***************************************************************************)
(* Proofs of the properties of module Quality for every value of its       *)
(* constants.  For the invariants it plays no part how points are          *)
(* computed: their proofs use only what evaluations and adjustments do to  *)
(* the fields start, evalTime, points and weight (lemmas ScoredFields to   *)
(* NewFields).  The inductive invariant says what the order of             *)
(* last_quality_eval and last_load_balance_eval tells about the weights    *)
(* (Balanced), and when the links were last evaluated (Bases).             *)
(*                                                                         *)
(* The action property at the end is about the points: the median of the   *)
(* bandwidths, and so what a link is held to, is never above the largest.  *)
(***************************************************************************)
EXTENDS Quality, FiniteSetTheorems, WellFoundedInduction, TLAPS

Fields ==
  {"start", "bytes", "packets", "lost", "evalTime", "points", "weight", "nacks",
   "rtt", "rtts", "rttIdx", "keepalive", "window", "inFlight", "nakCount",
   "lastNakCount", "extended", "legacyPoints", "legacyWeight"}

IsStats(c) == DOMAIN c = Fields /\ c.start \in Nat /\ c.evalTime \in Nat

Current(c) == c.weight = WeightOf(c.points)

\* c and d differ at most in what packets and keepalives change.
SameScore(c, d) ==
  /\ IsStats(d)
  /\ d.start = c.start /\ d.evalTime = c.evalTime
  /\ d.points = c.points /\ d.weight = c.weight

Times ==
  /\ now \in Nat /\ ts \in Nat /\ lastEval \in Nat /\ lastBalance \in Nat
  /\ phase \in {"wait", "events"}
  /\ ts * MS <= now
  /\ lastEval <= ts /\ lastBalance <= ts

Links(C) == \A l \in DOMAIN C : IsStats(C[l]) /\ C[l].start <= ts

(***************************************************************************)
(* If adjust_weights has seen the last evaluation, at second "at", the     *)
(* weights of the links C are current.  When it ran after that second, it  *)
(* ran late, for an evaluation it missed because the group was empty: all  *)
(* links have joined since.                                                *)
(***************************************************************************)
Balanced(C, at) ==
  /\ at <= lastBalance => \A l \in DOMAIN C : Current(C[l])
  /\ at < lastBalance => \A l \in DOMAIN C : C[l].start >= lastBalance
  /\ lastBalance < at /\ at < ts => \A l \in DOMAIN C : C[l].start = ts

\* A link that was evaluated was past its grace period in the last evaluation.
Bases(C, at) ==
  \A l \in DOMAIN C :
    Measured(C[l]) =>
      /\ at - C[l].start >= CONNECTION_GRACE_PERIOD
      /\ C[l].evalTime < (at + 1) * MS + MaxLag

SameBase(C) ==
  \A l, k \in DOMAIN C :
    Measured(C[l]) /\ Measured(C[k]) => C[l].evalTime = C[k].evalTime

Good(C, at) == Links(C) /\ Balanced(C, at) /\ Bases(C, at) /\ SameBase(C)

IInv ==
  /\ Times
  /\ Good(conn, lastEval)
  /\ phase = "wait" /\ lastBalance < lastEval => DOMAIN conn = {}
-----------------------------------------------------------------------------
(***************************************************************************)
(* What the operations do to the statistics of a link.                     *)
(***************************************************************************)
LEMMA ScoredFields ==
  ASSUME NEW C, NEW l, NEW t, NEW ms \in Nat, IsStats(C[l])
  PROVE  /\ IsStats(Scored(C, l, t, ms))
         /\ Scored(C, l, t, ms).start = C[l].start
         /\ Scored(C, l, t, ms).evalTime = ms
<1>1. PICK p, q, r, n :
        Scored(C, l, t, ms) =
          [C[l] EXCEPT !.points = p, !.legacyPoints = q, !.legacyWeight = r,
                       !.bytes = 0, !.packets = 0, !.lost = 0, !.nacks = 0,
                       !.evalTime = ms, !.lastNakCount = n]
  BY Zenon DEF Scored
<1>2. DOMAIN Scored(C, l, t, ms) = DOMAIN C[l]
  BY <1>1, Zenon
<1>3. "start" \in DOMAIN C[l] => Scored(C, l, t, ms).start = C[l].start
  BY <1>1
<1>4. "evalTime" \in DOMAIN C[l] => Scored(C, l, t, ms).evalTime = ms
  BY <1>1
<1>5. {"start", "evalTime"} \subseteq DOMAIN C[l]
  BY DEF IsStats, Fields
<1> QED
  BY <1>2, <1>3, <1>4, <1>5 DEF IsStats

LEMMA WeightedFields ==
  ASSUME NEW c, NEW w, IsStats(c)
  PROVE  LET d == [c EXCEPT !.weight = w]
         IN  /\ IsStats(d) /\ d.start = c.start /\ d.evalTime = c.evalTime
             /\ d.points = c.points /\ d.weight = w
BY DEF IsStats, Fields

LEMMA PacketFields ==
  ASSUME NEW c, NEW n, IsStats(c)
  PROVE  SameScore(c, on_packet_received(c, n))
BY DEF IsStats, Fields, SameScore, on_packet_received

LEMMA NakFields ==
  ASSUME NEW c, IsStats(c)
  PROVE  SameScore(c, on_nak_detected(c))
BY DEF IsStats, Fields, SameScore, on_nak_detected

LEMMA TelemetryFields ==
  ASSUME NEW c, NEW info, NEW t, IsStats(c)
  PROVE  SameScore(c, update_connection_telemetry(c, info, t))
BY DEF IsStats, Fields, SameScore, update_connection_telemetry

LEMMA NewFields ==
  ASSUME NEW t \in Nat
  PROVE  /\ IsStats(NewStats(t)) /\ NewStats(t).start = t /\ NewStats(t).evalTime = 0
         /\ Current(NewStats(t))
<1>1. WeightOf(0) = WEIGHT_FULL
  BY DEF WeightOf
<1>2. IsStats(NewStats(t)) /\ NewStats(t).start = t /\ NewStats(t).evalTime = 0
  BY DEF IsStats, Fields, NewStats
<1>3. NewStats(t).points = 0 /\ NewStats(t).weight = WEIGHT_FULL
  BY DEF NewStats
<1> QED
  BY <1>1, <1>2, <1>3 DEF Current
-----------------------------------------------------------------------------
\* Links that leave disturb nothing.
LEMMA RestrictGood ==
  ASSUME NEW C, NEW at, Good(C, at), NEW left \in SUBSET DOMAIN C
  PROVE  Good([l \in left |-> C[l]], at)
BY DEF Good, Links, Balanced, Bases, SameBase

\* Nor do packets and keepalives.
LEMMA UpdateGood ==
  ASSUME NEW C, NEW at, Good(C, at), NEW l \in DOMAIN C, NEW d, SameScore(C[l], d)
  PROVE  Good([C EXCEPT ![l] = d], at) /\ DOMAIN [C EXCEPT ![l] = d] = DOMAIN C
<1> DEFINE D == [C EXCEPT ![l] = d]
<1>1. DOMAIN D = DOMAIN C /\ \A k \in DOMAIN C : D[k] = IF k = l THEN d ELSE C[k]
  OBVIOUS
<1>2. \A k \in DOMAIN C : IsStats(C[k]) => SameScore(C[k], D[k])
  BY <1>1 DEF SameScore
<1> HIDE DEF D
<1>3. Links(D)
  BY <1>1, <1>2 DEF Good, Links, SameScore
<1>4. Balanced(D, at)
  BY <1>1, <1>2 DEF Good, Links, Balanced, SameScore, Current
<1>5. Bases(D, at)
  BY <1>1, <1>2 DEF Good, Links, Bases, SameScore, Measured
<1>6. SameBase(D)
  BY <1>1, <1>2 DEF Good, Links, SameBase, SameScore, Measured
<1> QED
  BY <1>1, <1>3, <1>4, <1>5, <1>6 DEF Good, D

(***************************************************************************)
(* An evaluation.  It scores every link that ever was evaluated, because   *)
(* those are past their grace period.  When adjust_weights already ran in  *)
(* this second, it scores none: then all links are in their grace period.  *)
(***************************************************************************)
LEMMA EvaluateGood ==
  ASSUME Times, NEW C, Good(C, lastEval), NEW ms \in Nat, ms < (ts + 1) * MS + MaxLag,
         Due(C)
  PROVE  Good(Evaluated(C, ts, ms), ts)
<1> DEFINE D == Evaluated(C, ts, ms)
<1>1. DOMAIN D = DOMAIN C
  BY DEF Evaluated
<1>2. ASSUME NEW l \in DOMAIN C
      PROVE  /\ IsStats(D[l]) /\ D[l].start = C[l].start
             /\ in_grace_period(C[l], ts) => D[l] = C[l]
             /\ ~in_grace_period(C[l], ts) => D[l].evalTime = ms
  <2>1. IsStats(C[l])
    BY DEF Good, Links
  <2>2. D[l] = IF in_grace_period(C[l], ts) THEN C[l] ELSE Scored(C, l, ts, ms)
    BY DEF Evaluated
  <2> QED
    BY <2>1, <2>2, ScoredFields
<1> HIDE DEF D
<1>3. lastEval + CONN_QUALITY_EVAL_PERIOD <= ts /\ lastEval < ts
  BY QualityConstants DEF Due, Times
<1>4. ASSUME NEW l \in DOMAIN C, in_grace_period(C[l], ts)
      PROVE  ~Measured(C[l])
  <2>1. IsStats(C[l])
    BY DEF Good, Links
  <2>2. ts - C[l].start < CONNECTION_GRACE_PERIOD
    BY <1>4 DEF in_grace_period
  <2>3. Measured(C[l]) => lastEval - C[l].start >= CONNECTION_GRACE_PERIOD
    BY DEF Good, Bases
  <2> QED
    BY <2>1, <2>2, <2>3, <1>3, ScoreConstants DEF IsStats, Times
<1>5. Links(D)
  BY <1>1, <1>2 DEF Good, Links
<1>6. Balanced(D, ts)
  <2>1. ASSUME ts <= lastBalance, NEW l \in DOMAIN C
        PROVE  Current(D[l])
    <3>1. lastBalance = ts /\ lastEval < lastBalance
      BY <2>1, <1>3 DEF Times
    <3>2. C[l].start >= ts /\ IsStats(C[l]) /\ Current(C[l])
      BY <3>1, <2>1, <1>3 DEF Good, Balanced, Links, Times
    <3>3. in_grace_period(C[l], ts)
      <4>1. C[l].start \in Nat /\ ts \in Nat /\ CONNECTION_GRACE_PERIOD \in Nat \ {0}
        BY <3>2, ScoreConstants DEF IsStats, Times
      <4> QED
        BY <4>1, <3>2 DEF in_grace_period
    <3> QED
      BY <3>2, <3>3, <1>2
  <2> QED
    BY <2>1, <1>1 DEF Balanced, Times
<1>7. Bases(D, ts)
  <2> SUFFICES ASSUME NEW l \in DOMAIN C, Measured(D[l])
               PROVE  /\ ts - D[l].start >= CONNECTION_GRACE_PERIOD
                      /\ D[l].evalTime < (ts + 1) * MS + MaxLag
    BY <1>1 DEF Bases
  <2>1. ~in_grace_period(C[l], ts)
    BY <1>2, <1>4
  <2>2. IsStats(C[l]) /\ D[l].start = C[l].start /\ D[l].evalTime = ms
    BY <2>1, <1>2 DEF Good, Links
  <2> QED
    BY <2>1, <2>2, ScoreConstants DEF in_grace_period, IsStats, Times
<1>8. SameBase(D)
  BY <1>1, <1>2, <1>4 DEF SameBase
<1> QED
  BY <1>5, <1>6, <1>7, <1>8 DEF Good, D
-----------------------------------------------------------------------------
\* Later seconds do not come before earlier ones.
LEMMA SecondsMonotone ==
  ASSUME NEW a \in Nat, NEW m \in Nat, a * MS <= m
  PROVE  m \div MS \in Nat /\ a <= m \div MS /\ (m \div MS) * MS <= m
<1>1. MS \in Nat \ {0}
  BY ScoreConstants
<1> DEFINE q == m \div MS
<1>2. q \in Nat /\ q * MS <= m /\ m < (q + 1) * MS
  BY <1>1
<1> HIDE DEF q
<1>3. a < q + 1
  <2> SUFFICES ASSUME a >= q + 1
               PROVE  FALSE
    BY <1>2
  <2>1. (q + 1) * MS <= a * MS
    BY <1>1, <1>2
  <2> QED
    BY <1>1, <1>2, <2>1
<1> QED
  BY <1>2, <1>3 DEF q

\* What evaluate_group returns.
LEMMA OutcomeGood ==
  ASSUME Times, NEW C, Good(C, lastEval), NEW ms \in Nat, ms < (ts + 1) * MS + MaxLag,
         NEW e \in evaluate_group(C, ms)
  PROVE  /\ Good(e.conn, e.at) /\ DOMAIN e.conn = DOMAIN C
         /\ e.at \in Nat /\ e.at <= ts
<1>1. CASE e = [conn |-> C, at |-> lastEval]
  BY <1>1 DEF Times
<1>2. CASE Due(C) /\ e = [conn |-> Evaluated(C, ts, ms), at |-> ts]
  <2>1. DOMAIN Evaluated(C, ts, ms) = DOMAIN C
    BY DEF Evaluated
  <2> QED
    BY <1>2, <2>1, EvaluateGood DEF Times
<1> QED
  BY <1>1, <1>2 DEF evaluate_group

LEMMA ClockStep ==
  ASSUME Times, ReadClock
  PROVE  now' \in Nat /\ now <= now' /\ now' < (ts + 1) * MS + MaxLag
BY QualityConstants DEF Times, ReadClock

LEMMA EpollWaitStep ==
  ASSUME IInv, EpollWait
  PROVE  IInv'
<1>1. now' \in Nat /\ now <= now'
  BY QualityConstants DEF IInv, Times, EpollWait
<1>2. ts * MS \in Nat /\ ts * MS <= now'
  BY <1>1, ScoreConstants DEF IInv, Times
<1>3. ts' \in Nat /\ ts <= ts' /\ ts' * MS <= now'
  BY <1>1, <1>2, SecondsMonotone DEF IInv, Times, EpollWait
<1>4. UNCHANGED <<conn, lastEval, lastBalance>> /\ phase = "wait" /\ phase' = "events"
  BY DEF EpollWait
<1>5. Times'
  BY <1>1, <1>3, <1>4 DEF IInv, Times
<1>6. Links(conn)'
  BY <1>3, <1>4 DEF IInv, Good, Links, IsStats, Times
<1>7. Balanced(conn, lastEval)'
  BY <1>4 DEF IInv, Good, Balanced
<1>8. (Bases(conn, lastEval) /\ SameBase(conn))'
  BY <1>4 DEF IInv, Good, Bases, SameBase
<1> QED
  BY <1>4, <1>5, <1>6, <1>7, <1>8 DEF IInv, Good

LEMMA JoinStep ==
  ASSUME IInv, NEW l \in Link, Join(l)
  PROVE  IInv'
<1>1. UNCHANGED <<lastEval, now, lastBalance, ts, phase>> /\ phase = "events"
  BY DEF Join, InRound
<1>2. ts \in Nat /\ lastBalance \in Nat /\ lastBalance <= ts
  BY DEF IInv, Times
<1>3. /\ DOMAIN conn' = DOMAIN conn \cup {l} /\ l \notin DOMAIN conn
      /\ conn'[l] = NewStats(ts) /\ \A k \in DOMAIN conn : conn'[k] = conn[k]
  BY DEF Join
<1>4. IsStats(conn'[l]) /\ conn'[l].start = ts /\ ~Measured(conn'[l]) /\ Current(conn'[l])
  BY <1>2, <1>3, NewFields DEF Measured
<1>5. Times'
  BY <1>1 DEF IInv, Times
<1>6. Links(conn)'
  BY <1>1, <1>2, <1>3, <1>4 DEF IInv, Good, Links
<1>7. Balanced(conn, lastEval)'
  BY <1>1, <1>2, <1>3, <1>4 DEF IInv, Good, Balanced
<1>8. Bases(conn, lastEval)'
  BY <1>1, <1>3, <1>4 DEF IInv, Good, Bases
<1>9. SameBase(conn)'
  BY <1>3, <1>4 DEF IInv, Good, SameBase
<1> QED
  BY <1>1, <1>5, <1>6, <1>7, <1>8, <1>9 DEF IInv, Good

\* A step within a round that leaves good links, evaluated at second at.
LEMMA RoundStep ==
  ASSUME IInv, InRound, NEW C, NEW at \in Nat, Good(C, at), at <= ts,
         conn' = C, lastEval' = at, now' \in Nat, now <= now'
  PROVE  IInv'
<1>1. UNCHANGED <<lastBalance, ts, phase>> /\ phase = "events"
  BY DEF InRound
<1>2. ts * MS \in Nat
  BY ScoreConstants DEF IInv, Times
<1>3. Times'
  BY <1>1, <1>2 DEF IInv, Times
<1>4. Good(conn, lastEval)'
  BY <1>1 DEF Good, Links, Balanced, Bases, SameBase
<1> QED
  BY <1>1, <1>3, <1>4 DEF IInv

LEMMA PacketStep ==
  ASSUME IInv, NEW l \in DOMAIN conn, NEW n, receive_packet(l, n)
  PROVE  IInv'
<1>1. SameScore(conn[l], on_packet_received(conn[l], n))
  BY PacketFields DEF IInv, Good, Links
<1>2. Good([conn EXCEPT ![l] = on_packet_received(conn[l], n)], lastEval)
  BY <1>1, UpdateGood DEF IInv
<1>3. /\ InRound /\ conn' = [conn EXCEPT ![l] = on_packet_received(conn[l], n)]
      /\ lastEval' = lastEval /\ now' = now
  BY DEF receive_packet
<1>4. lastEval \in Nat /\ lastEval <= ts /\ now' \in Nat /\ now <= now'
  BY <1>3 DEF IInv, Times
<1> QED
  BY <1>2, <1>3, <1>4, RoundStep, Zenon

\* The links after a NAK on link l, before any evaluation.
LEMMA NakGood ==
  ASSUME IInv, NEW l \in DOMAIN conn, NEW n
  PROVE  Good([conn EXCEPT ![l] = on_nak_detected(on_packet_received(conn[l], n))], lastEval)
<1>1. SameScore(conn[l], on_packet_received(conn[l], n))
  BY PacketFields DEF IInv, Good, Links
<1>2. SameScore(on_packet_received(conn[l], n), on_nak_detected(on_packet_received(conn[l], n)))
  BY <1>1, NakFields DEF SameScore
<1>3. SameScore(conn[l], on_nak_detected(on_packet_received(conn[l], n)))
  BY <1>1, <1>2 DEF SameScore
<1> QED
  BY <1>3, UpdateGood DEF IInv

LEMMA NakStep ==
  ASSUME IInv, NEW l \in DOMAIN conn, NEW n, receive_nak(l, n)
  PROVE  IInv'
<1> DEFINE C == [conn EXCEPT ![l] = on_nak_detected(on_packet_received(conn[l], n))]
<1>1. Good(C, lastEval)
  BY NakGood
<1>2. InRound
  BY DEF receive_nak
<1>3. \/ ReadClock /\ \E e \in evaluate_group(C, now') : conn' = e.conn /\ lastEval' = e.at
      \/ conn' = C /\ lastEval' = lastEval /\ now' = now
  BY Zenon DEF receive_nak
<1> HIDE DEF C
<1>4. CASE conn' = C /\ lastEval' = lastEval /\ now' = now
  <2>1. lastEval \in Nat /\ lastEval <= ts /\ now' \in Nat /\ now <= now'
    BY <1>4 DEF IInv, Times
  <2> QED
    BY <1>1, <1>2, <1>4, <2>1, RoundStep
<1>5. ASSUME ReadClock, NEW e \in evaluate_group(C, now'), conn' = e.conn, lastEval' = e.at
      PROVE  IInv'
  <2>1. now' \in Nat /\ now <= now' /\ now' < (ts + 1) * MS + MaxLag
    BY <1>5, ClockStep DEF IInv
  <2>2. Good(e.conn, e.at) /\ e.at \in Nat /\ e.at <= ts
    BY <1>1, <2>1, OutcomeGood DEF IInv
  <2> QED
    BY <1>2, <1>5, <2>1, <2>2, RoundStep
<1> QED
  BY <1>3, <1>4, <1>5

LEMMA KeepaliveStep ==
  ASSUME IInv, NEW l \in DOMAIN conn, NEW info, handle_keepalive(l, info)
  PROVE  IInv'
<1>1. PICK t : conn' = [conn EXCEPT ![l] = update_connection_telemetry(conn[l], info, t)]
  BY Zenon DEF handle_keepalive
<1>2. SameScore(conn[l], update_connection_telemetry(conn[l], info, t))
  BY TelemetryFields DEF IInv, Good, Links
<1>3. Good([conn EXCEPT ![l] = update_connection_telemetry(conn[l], info, t)], lastEval)
  BY <1>2, UpdateGood DEF IInv
<1>4. InRound /\ lastEval' = lastEval /\ now' \in Nat /\ now <= now'
  BY ClockStep DEF IInv, handle_keepalive
<1>5. lastEval \in Nat /\ lastEval <= ts
  BY DEF IInv, Times
<1> QED
  BY <1>1, <1>3, <1>4, <1>5, RoundStep, Zenon

(***************************************************************************)
(* The end of a round.  adjust_weights either makes all weights current or *)
(* has seen the evaluation; it runs after the second of the evaluation     *)
(* only when all links have joined in this round.                          *)
(***************************************************************************)
LEMMA EndRoundStep ==
  ASSUME IInv, EndRound
  PROVE  IInv'
<1>1. now' \in Nat /\ now <= now' /\ now' < (ts + 1) * MS + MaxLag
  BY ClockStep DEF IInv, EndRound
<1>0. PICK left \in SUBSET DOMAIN conn :
        \E e \in evaluate_group([l \in left |-> conn[l]], now') :
          /\ lastEval' = e.at
          /\ \/ Unseen(e.conn, e.at) /\ conn' = Weighted(e.conn) /\ lastBalance' = ts
             \/ ~Unseen(e.conn, e.at) /\ conn' = e.conn /\ lastBalance' = lastBalance
  BY Zenon DEF EndRound
<1>2. PICK e \in evaluate_group([l \in left |-> conn[l]], now') :
        /\ lastEval' = e.at
        /\ \/ Unseen(e.conn, e.at) /\ conn' = Weighted(e.conn) /\ lastBalance' = ts
           \/ ~Unseen(e.conn, e.at) /\ conn' = e.conn /\ lastBalance' = lastBalance
  BY <1>0
<1>3. Good([l \in left |-> conn[l]], lastEval)
  BY RestrictGood DEF IInv
<1>4. Good(e.conn, e.at) /\ e.at \in Nat /\ e.at <= ts
  BY <1>1, <1>3, OutcomeGood DEF IInv
<1>5. ts' = ts /\ phase' = "wait" /\ phase = "events"
  BY DEF EndRound
<1>6. ts \in Nat /\ lastBalance \in Nat /\ lastBalance <= ts
  BY DEF IInv, Times
<1>7. ts * MS \in Nat
  BY ScoreConstants DEF IInv, Times
<1>8. Times'
  BY <1>1, <1>2, <1>4, <1>5, <1>6, <1>7 DEF IInv, Times
<1>9. CASE ~Unseen(e.conn, e.at)
  <2>1. conn' = e.conn /\ lastBalance' = lastBalance /\ lastEval' = e.at
    BY <1>2, <1>9
  <2>2. Good(conn, lastEval)'
    BY <2>1, <1>4, <1>5 DEF Good, Links, Balanced, Bases, SameBase
  <2> QED
    BY <1>8, <1>9, <2>1, <2>2 DEF IInv, Unseen
<1>10. CASE Unseen(e.conn, e.at)
  <2>1. conn' = Weighted(e.conn) /\ lastBalance' = ts /\ lastEval' = e.at
    BY <1>2, <1>10
  <2>2. DOMAIN conn' = DOMAIN e.conn /\ lastBalance < e.at
    BY <2>1, <1>10 DEF Weighted, Unseen
  <2>3. ASSUME NEW l \in DOMAIN e.conn
        PROVE  /\ IsStats(conn'[l]) /\ conn'[l].start = e.conn[l].start
               /\ conn'[l].evalTime = e.conn[l].evalTime /\ Current(conn'[l])
    <3>1. conn'[l] = [e.conn[l] EXCEPT !.weight = WeightOf(e.conn[l].points)]
      BY <2>1 DEF Weighted
    <3>2. IsStats(e.conn[l])
      BY <1>4 DEF Good, Links
    <3> QED
      BY <3>1, <3>2, WeightedFields DEF Current
  <2>4. Links(conn)'
    BY <1>4, <1>5, <2>2, <2>3 DEF Good, Links
  <2>5. Balanced(conn, lastEval)'
    BY <1>4, <1>5, <1>6, <2>1, <2>2, <2>3 DEF Good, Balanced
  <2>6. Bases(conn, lastEval)'
    BY <1>4, <2>1, <2>2, <2>3 DEF Good, Bases, Measured
  <2>7. SameBase(conn)'
    BY <1>4, <2>2, <2>3 DEF Good, SameBase, Measured
  <2> QED
    BY <1>4, <1>6, <1>8, <2>1, <2>4, <2>5, <2>6, <2>7 DEF IInv, Good
<1> QED
  BY <1>9, <1>10

LEMMA InitIInv == Init => IInv
<1> SUFFICES ASSUME Init
             PROVE  IInv
  OBVIOUS
<1>1. StartTime \in Nat /\ 0 * MS <= StartTime
  BY QualityConstants, ScoreConstants
<1>2. ts \in Nat /\ ts * MS <= now
  BY <1>1, SecondsMonotone DEF Init
<1>3. Times
  BY <1>1, <1>2 DEF Init, Times
<1>4. DOMAIN conn = {}
  BY DEF Init
<1> QED
  BY <1>3, <1>4 DEF IInv, Good, Links, Balanced, Bases, SameBase

LEMMA NextIInv == IInv /\ [Next]_vars => IInv'
<1> SUFFICES ASSUME IInv, [Next]_vars
             PROVE  IInv'
  OBVIOUS
<1>1. CASE EpollWait
  BY <1>1, EpollWaitStep
<1>2. CASE EndRound
  BY <1>2, EndRoundStep
<1>3. ASSUME NEW l \in Link, Join(l)
      PROVE  IInv'
  BY <1>3, JoinStep
<1>4. ASSUME NEW l \in DOMAIN conn, NEW n \in Sizes, receive_packet(l, n)
      PROVE  IInv'
  BY <1>4, PacketStep
<1>5. ASSUME NEW l \in DOMAIN conn, NEW n \in Sizes, receive_nak(l, n)
      PROVE  IInv'
  BY <1>5, NakStep
<1>6. ASSUME NEW l \in DOMAIN conn, NEW info \in Infos, handle_keepalive(l, info)
      PROVE  IInv'
  BY <1>6, KeepaliveStep
<1>7. CASE UNCHANGED vars
  BY <1>7 DEF vars, IInv, Times, Good, Links, Balanced, Bases, SameBase
<1> QED
  BY <1>1, <1>2, <1>3, <1>4, <1>5, <1>6, <1>7 DEF Next

\* IInv holds throughout; the theorems below rest on it.
THEOREM QualityInvariant == Spec => []IInv
BY InitIInv, NextIInv, PTL DEF Spec

(***************************************************************************)
(* Whenever the loop of srtla_rec waits, adjust_weights has applied the    *)
(* last evaluation to every link of the group.                             *)
(***************************************************************************)
THEOREM WeightsAreCurrent == Spec => []WeightsCurrent
<1>1. IInv => WeightsCurrent
  BY DEF IInv, Times, Good, Balanced, Current, WeightsCurrent
<1> QED
  BY <1>1, QualityInvariant, PTL

(***************************************************************************)
(* The bandwidths that evaluate_group compares are measured from the same  *)
(* time on.                                                                *)
(***************************************************************************)
THEOREM TimeBasesAgree == Spec => []SameTimeBase
<1>1. IInv => SameTimeBase
  BY DEF IInv, Good, SameBase, SameTimeBase
<1> QED
  BY <1>1, QualityInvariant, PTL
-----------------------------------------------------------------------------
\* An evaluation comes a period after the last, less a second and a lag.
LEMMA EvaluatedLater ==
  ASSUME Times, NEW C, Good(C, lastEval), Due(C), NEW l \in DOMAIN C, Measured(C[l]),
         NEW ms \in Nat, ts * MS <= ms
  PROVE  /\ Evaluated(C, ts, ms)[l].evalTime = ms
         /\ ms - C[l].evalTime > (CONN_QUALITY_EVAL_PERIOD - 1) * MS - MaxLag
<1>1. /\ ts \in Nat /\ lastEval \in Nat /\ MS \in Nat \ {0} /\ MaxLag \in Nat
      /\ CONN_QUALITY_EVAL_PERIOD \in Nat \ {0} /\ CONNECTION_GRACE_PERIOD \in Nat
  BY ScoreConstants, QualityConstants DEF Times
<1>2. lastEval + CONN_QUALITY_EVAL_PERIOD <= ts
  BY DEF Due
<1>3. /\ IsStats(C[l]) /\ lastEval - C[l].start >= CONNECTION_GRACE_PERIOD
      /\ C[l].evalTime < (lastEval + 1) * MS + MaxLag
  BY DEF Good, Links, Bases
<1>4. ~in_grace_period(C[l], ts)
  BY <1>1, <1>2, <1>3 DEF in_grace_period, IsStats
<1>5. Evaluated(C, ts, ms)[l].evalTime = ms
  BY <1>3, <1>4, ScoredFields DEF Evaluated
<1>6. (lastEval + CONN_QUALITY_EVAL_PERIOD) * MS <= ts * MS
  BY <1>1, <1>2
<1>7. C[l].evalTime \in Nat
  BY <1>3 DEF IsStats
<1>8. ms - C[l].evalTime > (lastEval + CONN_QUALITY_EVAL_PERIOD) * MS - ((lastEval + 1) * MS + MaxLag)
  BY <1>1, <1>3, <1>6, <1>7
<1>9. (lastEval + CONN_QUALITY_EVAL_PERIOD) * MS - ((lastEval + 1) * MS + MaxLag)
        = (CONN_QUALITY_EVAL_PERIOD - 1) * MS - MaxLag
  BY <1>1
<1> QED
  BY <1>5, <1>8, <1>9

LongEnough ==
  lastEval' # lastEval =>
    \A l \in DOMAIN conn \cap DOMAIN conn' :
      Measured(conn[l]) =>
        conn'[l].evalTime - conn[l].evalTime > (CONN_QUALITY_EVAL_PERIOD - 1) * MS - MaxLag

LEMMA NakLongEnough ==
  ASSUME IInv, NEW l \in DOMAIN conn, NEW n, receive_nak(l, n)
  PROVE  LongEnough
<1> DEFINE C == [conn EXCEPT ![l] = on_nak_detected(on_packet_received(conn[l], n))]
<1>1. Good(C, lastEval)
  BY NakGood
<1>2. \A k \in DOMAIN conn : k \in DOMAIN C /\ C[k].evalTime = conn[k].evalTime
  <2>1. SameScore(conn[l], on_packet_received(conn[l], n))
    BY PacketFields DEF IInv, Good, Links
  <2>2. SameScore(on_packet_received(conn[l], n), C[l])
    BY <2>1, NakFields DEF SameScore
  <2> QED
    BY <2>1, <2>2 DEF SameScore
<1>3. lastEval' # lastEval =>
        ReadClock /\ \E e \in evaluate_group(C, now') : conn' = e.conn /\ lastEval' = e.at
  BY Zenon DEF receive_nak
<1> HIDE DEF C
<1> SUFFICES ASSUME lastEval' # lastEval, NEW k \in DOMAIN conn, Measured(conn[k])
             PROVE  conn'[k].evalTime - conn[k].evalTime
                      > (CONN_QUALITY_EVAL_PERIOD - 1) * MS - MaxLag
  BY DEF LongEnough
<1>4. now' \in Nat /\ ts * MS <= now'
  <2>1. ReadClock /\ ts * MS \in Nat
    BY <1>3, ScoreConstants DEF IInv, Times
  <2> QED
    BY <2>1, ClockStep DEF IInv, Times
<1>5. Due(C) /\ conn' = Evaluated(C, ts, now')
  BY <1>3 DEF evaluate_group
<1>6. k \in DOMAIN C /\ Measured(C[k]) /\ C[k].evalTime = conn[k].evalTime
  BY <1>2 DEF Measured
<1> QED
  BY <1>1, <1>4, <1>5, <1>6, EvaluatedLater DEF IInv

LEMMA EndRoundLongEnough ==
  ASSUME IInv, EndRound
  PROVE  LongEnough
<1> SUFFICES ASSUME lastEval' # lastEval,
                    NEW k \in DOMAIN conn \cap DOMAIN conn', Measured(conn[k])
             PROVE  conn'[k].evalTime - conn[k].evalTime
                      > (CONN_QUALITY_EVAL_PERIOD - 1) * MS - MaxLag
  BY DEF LongEnough
<1>1. now' \in Nat /\ ts * MS <= now' /\ now' < (ts + 1) * MS + MaxLag
  <2>1. ts * MS \in Nat
    BY ScoreConstants DEF IInv, Times
  <2> QED
    BY <2>1, ClockStep DEF IInv, Times, EndRound
<1>2. PICK left \in SUBSET DOMAIN conn :
        \E e \in evaluate_group([l \in left |-> conn[l]], now') :
          lastEval' = e.at /\ (conn' = Weighted(e.conn) \/ conn' = e.conn)
  BY Zenon DEF EndRound
<1> DEFINE C == [l \in left |-> conn[l]]
           D == Evaluated(C, ts, now')
<1>3. Due(C) /\ (conn' = Weighted(D) \/ conn' = D)
  BY <1>2 DEF evaluate_group
<1>4. Good(C, lastEval)
  BY RestrictGood DEF IInv
<1>5. DOMAIN C = left
  OBVIOUS
<1>6. Good(D, ts) /\ DOMAIN D = left
  BY <1>1, <1>3, <1>4, <1>5, EvaluateGood DEF IInv, Evaluated
<1>7. k \in left /\ C[k] = conn[k]
  BY <1>3, <1>6 DEF Weighted
<1> HIDE DEF C
<1>8. D[k].evalTime = now'
      /\ now' - conn[k].evalTime > (CONN_QUALITY_EVAL_PERIOD - 1) * MS - MaxLag
  BY <1>1, <1>3, <1>4, <1>5, <1>7, EvaluatedLater DEF IInv
<1> HIDE DEF D
<1>9. conn'[k].evalTime = D[k].evalTime
  <2>1. IsStats(D[k]) /\ Weighted(D)[k] = [D[k] EXCEPT !.weight = WeightOf(D[k].points)]
    BY <1>6, <1>7 DEF Good, Links, Weighted
  <2>2. Weighted(D)[k].evalTime = D[k].evalTime
    BY <2>1, WeightedFields
  <2> QED
    BY <1>3, <2>2
<1> QED
  BY <1>8, <1>9

(***************************************************************************)
(* A link's bandwidth is never computed over less than a period, less the  *)
(* second that is cut off and the time a round takes.                      *)
(***************************************************************************)
THEOREM PeriodsAreMeasured == Spec => MeasuredLongEnough
<1>1. IInv /\ [Next]_vars => [LongEnough]_vars
  <2> SUFFICES ASSUME IInv, Next
               PROVE  LongEnough
    BY DEF vars
  <2>1. CASE EndRound
    BY <2>1, EndRoundLongEnough
  <2>2. ASSUME NEW l \in DOMAIN conn, NEW n \in Sizes, receive_nak(l, n)
        PROVE  LongEnough
    BY <2>2, NakLongEnough
  <2> QED
    BY <2>1, <2>2, Zenon
    DEF Next, LongEnough, EpollWait, Join, receive_packet, handle_keepalive
<1>2. [][LongEnough]_vars => MeasuredLongEnough
  BY PTL DEF MeasuredLongEnough, LongEnough
<1> QED
  BY <1>1, <1>2, QualityInvariant, PTL DEF Spec
-----------------------------------------------------------------------------
(***************************************************************************)
(* The median.                                                             *)
(***************************************************************************)

\* A set of naturals has a least element.
LEMMA LeastNatural ==
  ASSUME NEW T \in SUBSET Nat, T # {}
  PROVE  \E x \in T : \A y \in T : x <= y
<1>1. PICK x \in T : \A y \in T : ~ (<<y, x>> \in OpToRel(<, Nat))
  BY WFMin, NatLessThanWellFounded, Zenon
<1>2. \A y \in T : ~ (y < x)
  BY <1>1, Zenon DEF OpToRel
<1> QED
  BY <1>2

LEMMA MaxIs ==
  ASSUME NEW T \in SUBSET Nat, NEW x \in T, \A y \in T : y <= x
  PROVE  Max(T) = x
<1>1. \A y \in T : x >= y
  OBVIOUS
<1> DEFINE m == Max(T)
<1>2. m \in T /\ \A y \in T : m >= y
  BY <1>1, Zenon DEF Max
<1> HIDE DEF m
<1>3. m \in Nat /\ x \in Nat /\ m >= x /\ x >= m
  BY <1>1, <1>2
<1>4. m = x
  BY <1>3
<1> QED
  BY <1>4 DEF m

LEMMA MaxOfTwo ==
  ASSUME NEW a \in Nat, NEW b \in Nat
  PROVE  Max({a, b}) = IF a <= b THEN b ELSE a
<1>1. CASE a <= b
  BY <1>1, MaxIs
<1>2. CASE ~(a <= b)
  BY <1>2, MaxIs
<1> QED
  BY <1>1, <1>2

(***************************************************************************)
(* Counting up to the k-th smallest value ends at one of the values, the   *)
(* least one that k links do not exceed.                                   *)
(***************************************************************************)
LEMMA RankedIsValue ==
  ASSUME NEW S, IsFiniteSet(S), NEW f, \A l \in S : f[l] \in Nat,
         NEW top \in S, \A l \in S : f[l] <= f[top],
         NEW k \in Nat, 1 <= k, k <= Cardinality(S)
  PROVE  Ranked(f, S, k) \in Nat /\ Ranked(f, S, k) <= f[top]
<1> DEFINE V        == {f[l] : l \in S}
           Below(v) == {l \in S : f[l] < v}
           UpTo(v)  == {l \in S : f[l] <= v}
           T        == {v \in V : k <= Cardinality(UpTo(v))}
<1>1. V \subseteq Nat /\ T \subseteq Nat
  OBVIOUS
<1>2. f[top] \in T
  <2>1. UpTo(f[top]) = S
    OBVIOUS
  <2> QED
    BY <2>1
<1>3. PICK v \in T : \A w \in T : v <= w
  <2> HIDE DEF T
  <2> QED
    BY <1>1, <1>2, LeastNatural
<1>4. Cardinality(Below(v)) < k
  <2> SUFFICES ASSUME ~(Cardinality(Below(v)) < k)
               PROVE  FALSE
    OBVIOUS
  <2> DEFINE B == Below(v)
             G == {v - f[l] : l \in B}
  <2>1. IsFiniteSet(B) /\ Cardinality(B) \in Nat
    BY FS_Subset, FS_CardinalityType
  <2>2. k <= Cardinality(B) /\ B # {}
    <3>1. k <= Cardinality(B)
      BY <2>1
    <3>2. Cardinality(B) # 0
      BY <2>1, <3>1
    <3> HIDE DEF B
    <3> QED
      BY <2>1, <3>1, <3>2, FS_EmptySet
  <2>3. v \in Nat
    BY <1>1
  <2>4. G \subseteq Nat /\ G # {}
    BY <2>2, <2>3
  <2>5. PICK g \in G : \A h \in G : g <= h
    <3> HIDE DEF G
    <3> QED
      BY <2>4, LeastNatural
  <2>6. PICK m \in B : g = v - f[m]
    OBVIOUS
  <2>7. \A l \in B : f[l] <= f[m]
    <3> SUFFICES ASSUME NEW l \in B
                 PROVE  f[l] <= f[m]
      OBVIOUS
    <3>1. v - f[m] <= v - f[l]
      BY <2>5, <2>6
    <3>2. f[l] \in Nat /\ f[m] \in Nat
      OBVIOUS
    <3> QED
      BY <2>3, <3>1, <3>2
  <2>8. UpTo(f[m]) = B
    <3>1. f[m] < v /\ f[m] \in Nat
      OBVIOUS
    <3>2. ASSUME NEW l \in S  PROVE  f[l] <= f[m] <=> f[l] < v
      BY <2>3, <2>7, <3>1
    <3> QED
      BY <3>2
  <2>9. f[m] \in T
    BY <2>2, <2>8, Zenon
  <2> QED
    BY <1>3, <2>3, <2>9
<1>5. v \in V /\ k <= Cardinality(UpTo(v))
  OBVIOUS
<1>6. Ranked(f, S, k) \in V
  BY <1>4, <1>5, Zenon DEF Ranked
<1> QED
  BY <1>6

\* So the median is no more than the greatest value.
LEMMA MedianBounded ==
  ASSUME NEW S, IsFiniteSet(S), NEW f, \A l \in S : f[l] \in Nat,
         NEW top \in S, \A l \in S : f[l] <= f[top]
  PROVE  Median(f, S) \in Nat /\ Median(f, S) <= f[top]
<1> DEFINE n == Cardinality(S)
<1>1. n \in Nat /\ n # 0
  BY FS_CardinalityType, FS_EmptySet
<1>2. \A k \in Nat : 1 <= k /\ k <= n =>
        Ranked(f, S, k) \in Nat /\ Ranked(f, S, k) <= f[top]
  BY RankedIsValue
<1>3. Median(f, S) = IF n % 2 = 1 THEN Ranked(f, S, (n + 1) \div 2)
                     ELSE (Ranked(f, S, n \div 2) + Ranked(f, S, n \div 2 + 1)) \div 2
  BY DEF Median
<1> HIDE DEF n
<1>4. CASE n % 2 = 1
  <2>1. (n + 1) \div 2 \in Nat /\ 1 <= (n + 1) \div 2 /\ (n + 1) \div 2 <= n
    BY <1>1
  <2> QED
    BY <1>2, <1>3, <1>4, <2>1
<1>5. CASE n % 2 # 1
  <2> DEFINE h == n \div 2
             a == Ranked(f, S, h)
             b == Ranked(f, S, h + 1)
  <2>1. h \in Nat /\ 1 <= h /\ h + 1 <= n /\ h <= n /\ h + 1 \in Nat /\ 1 <= h + 1
    BY <1>1, <1>5
  <2>2. Median(f, S) = (a + b) \div 2
    BY <1>3, <1>5
  <2> HIDE DEF h
  <2>3. a \in Nat /\ b \in Nat /\ a <= f[top] /\ b <= f[top]
    BY <1>2, <2>1
  <2>4. f[top] \in Nat
    OBVIOUS
  <2> HIDE DEF a, b
  <2> QED
    BY <2>2, <2>3, <2>4
<1> QED
  BY <1>4, <1>5
-----------------------------------------------------------------------------
(***************************************************************************)
(* The points of the fastest link.                                         *)
(***************************************************************************)
LEMMA Quotient ==
  ASSUME NEW a \in Nat, NEW b \in Nat \ {0}
  PROVE  a \div b \in Nat
OBVIOUS

\* What a link that carries more than the others and the minimum is held to.
LEMMA ExpectedBounded ==
  ASSUME NEW bw, IsFiniteSet(DOMAIN bw), \A k \in DOMAIN bw : bw[k] \in Nat,
         NEW l \in DOMAIN bw, \A k \in DOMAIN bw : bw[k] <= bw[l],
         bw[l] >= MinExpected(bw)
  PROVE  Expected(bw, l) \in Nat /\ Expected(bw, l) <= bw[l]
<1> DEFINE V == {bw[k] : k \in DOMAIN bw}
           S == {k \in DOMAIN bw : 2 * bw[k] >= bw[l]}
<1>1. bw[l] \in Nat
  OBVIOUS
<1>2. Max(V) = bw[l]
  <2>1. V \subseteq Nat /\ bw[l] \in V /\ \A y \in V : y <= bw[l]
    OBVIOUS
  <2> HIDE DEF V
  <2> QED
    BY <2>1, MaxIs
<1>3. GoodMedian(bw) = IF bw[l] = 0 THEN 0 ELSE Median(bw, S)
  BY <1>2, Zenon DEF GoodMedian
<1>4. Median(bw, S) \in Nat /\ Median(bw, S) <= bw[l]
  <2>1. IsFiniteSet(S)
    BY FS_Subset
  <2>2. l \in S
    BY <1>1
  <2>3. \A k \in S : bw[k] \in Nat /\ bw[k] <= bw[l]
    OBVIOUS
  <2> HIDE DEF S
  <2> QED
    BY <2>1, <2>2, <2>3, MedianBounded
<1> DEFINE g == GoodMedian(bw)
           m == MinExpected(bw)
<1>5. g \in Nat /\ g <= bw[l]
  <2> HIDE DEF S
  <2> QED
    BY <1>1, <1>3, <1>4
<1>6. m \in Nat
  <2>1. Cardinality(DOMAIN bw) \in Nat \ {0}
    BY FS_CardinalityType, FS_EmptySet
  <2>2. MIN_PER_LINK \in Nat /\ MIN_ACCEPTABLE_TOTAL \in Nat
    BY ScoreConstants
  <2>3. MIN_ACCEPTABLE_TOTAL \div Cardinality(DOMAIN bw) \in Nat
    BY <2>1, <2>2, Quotient
  <2> QED
    BY <2>2, <2>3, MaxOfTwo DEF MinExpected
<1>7. Expected(bw, l) = IF 2 * bw[l] < g THEN m ELSE Max({g, m})
  BY DEF Expected
<1>8. m <= bw[l]
  BY <1>1, <1>6
<1> HIDE DEF g, m
<1>9. Max({g, m}) \in Nat /\ Max({g, m}) <= bw[l]
  BY <1>5, <1>6, <1>8, MaxOfTwo
<1> QED
  BY <1>6, <1>7, <1>8, <1>9

LEMMA NoBandwidthPoints ==
  ASSUME NEW bw, NEW l, bw[l] \in Nat,
         Expected(bw, l) \in Nat, Expected(bw, l) <= bw[l]
  PROVE  BandwidthPoints(bw, l, BandwidthSteps) = 0
<1> DEFINE x == Expected(bw, l)
           b == bw[l]
<1>1. x \in Nat /\ b \in Nat /\ x <= b
  OBVIOUS
<1> HIDE DEF x, b
<1>2. ~(100 * b < 30 * x) /\ ~(100 * b < 50 * x) /\ ~(100 * b < 70 * x) /\ ~(100 * b < 85 * x)
  BY <1>1
<1>3. \A s \in BandwidthSteps : ~(100 * b < s[1] * x)
  BY <1>2 DEF BandwidthSteps
<1>4. {s \in BandwidthSteps : 100 * bw[l] < s[1] * Expected(bw, l)} = {}
  BY <1>3 DEF x, b
<1> QED
  BY <1>4 DEF BandwidthPoints, Points

LEMMA NoLossPoints ==
  ASSUME NEW c, NEW ms, c.packets \in Nat, c.lost = 0
  PROVE  LossPoints(c, ms) = 0
<1>1. \A s \in LossSteps : ~(100 * 0 > s[1] * (c.packets + 0))
  <2> DEFINE p == c.packets
  <2>1. /\ ~(100 * 0 > 20 * (p + 0)) /\ ~(100 * 0 > 10 * (p + 0))
        /\ ~(100 * 0 > 5 * (p + 0)) /\ ~(100 * 0 > 1 * (p + 0))
    OBVIOUS
  <2> HIDE DEF p
  <2>2. \A s \in LossSteps : ~(100 * 0 > s[1] * (p + 0))
    BY <2>1 DEF LossSteps
  <2> QED
    BY <2>2 DEF p
<1>2. {s \in LossSteps : 100 * c.lost > s[1] * (c.packets + c.lost)} = {}
  BY <1>1
<1>3. SharePoints(c.lost, c.packets + c.lost) = 0
  BY <1>2 DEF SharePoints, Points
<1> QED
  BY <1>3 DEF LossPoints
-----------------------------------------------------------------------------
(***************************************************************************)
(* The counters of a link, and when its sender was last heard of.          *)
(***************************************************************************)
Counted(c) ==
  /\ DOMAIN c = Fields
  /\ c.bytes \in Nat /\ c.packets \in Nat
  /\ c.extended = TRUE \/ c.keepalive = 0

Counters == IsFiniteSet(DOMAIN conn) /\ \A l \in DOMAIN conn : Counted(conn[l])

LEMMA PacketCounted ==
  ASSUME NEW c, Counted(c), NEW n \in Nat
  PROVE  Counted(on_packet_received(c, n))
BY DEF Counted, Fields, on_packet_received

LEMMA NakCounted ==
  ASSUME NEW c, Counted(c)
  PROVE  Counted(on_nak_detected(c))
BY DEF Counted, Fields, on_nak_detected

LEMMA TelemetryCounted ==
  ASSUME NEW c, Counted(c), NEW info, NEW t
  PROVE  Counted(update_connection_telemetry(c, info, t))
BY DEF Counted, Fields, update_connection_telemetry

LEMMA WeightedCounted ==
  ASSUME NEW c, Counted(c), NEW w
  PROVE  Counted([c EXCEPT !.weight = w])
BY DEF Counted, Fields

LEMMA ScoredCounted ==
  ASSUME NEW C, NEW l, NEW t, NEW ms, Counted(C[l])
  PROVE  Counted(Scored(C, l, t, ms))
<1>1. PICK p, q, r, n :
        Scored(C, l, t, ms) =
          [C[l] EXCEPT !.points = p, !.legacyPoints = q, !.legacyWeight = r,
                       !.bytes = 0, !.packets = 0, !.lost = 0, !.nacks = 0,
                       !.evalTime = ms, !.lastNakCount = n]
  BY Zenon DEF Scored
<1>2. {"bytes", "packets", "extended", "keepalive"} \subseteq DOMAIN C[l]
  BY DEF Counted, Fields
<1>3. DOMAIN Scored(C, l, t, ms) = DOMAIN C[l]
  BY <1>1, Zenon
<1>4. Scored(C, l, t, ms).bytes = 0 /\ Scored(C, l, t, ms).packets = 0
  BY <1>1, <1>2
<1>5. Scored(C, l, t, ms).extended = C[l].extended
  BY <1>1, <1>2
<1>6. Scored(C, l, t, ms).keepalive = C[l].keepalive
  BY <1>1, <1>2
<1> QED
  BY <1>3, <1>4, <1>5, <1>6 DEF Counted

\* An evaluation, and an adjustment of the weights.
LEMMA OutcomeCounted ==
  ASSUME NEW C, NEW ms, NEW e \in evaluate_group(C, ms), \A l \in DOMAIN C : Counted(C[l])
  PROVE  /\ DOMAIN e.conn = DOMAIN C /\ \A l \in DOMAIN C : Counted(e.conn[l])
         /\ DOMAIN Weighted(e.conn) = DOMAIN C
         /\ \A l \in DOMAIN C : Counted(Weighted(e.conn)[l])
<1>1. DOMAIN e.conn = DOMAIN C /\ \A l \in DOMAIN C : Counted(e.conn[l])
  <2>1. e.conn = C \/ e.conn = Evaluated(C, ts, ms)
    BY DEF evaluate_group
  <2>2. ASSUME NEW l \in DOMAIN C  PROVE  Counted(Evaluated(C, ts, ms)[l])
    BY ScoredCounted DEF Evaluated
  <2>3. DOMAIN Evaluated(C, ts, ms) = DOMAIN C
    BY DEF Evaluated
  <2> QED
    BY <2>1, <2>2, <2>3
<1> QED
  BY <1>1, WeightedCounted DEF Weighted

LEMMA CountersNext == Counters /\ [Next]_vars => Counters'
<1> SUFFICES ASSUME Counters, [Next]_vars
             PROVE  Counters'
  OBVIOUS
<1>1. CASE EpollWait
  BY <1>1 DEF EpollWait, Counters
<1>2. CASE EndRound
  <2>1. PICK left \in SUBSET DOMAIN conn :
          \E e \in evaluate_group([l \in left |-> conn[l]], now') :
            conn' = Weighted(e.conn) \/ conn' = e.conn
    BY <1>2, Zenon DEF EndRound
  <2>2. DOMAIN conn' = left /\ \A l \in left : Counted(conn'[l])
    BY <2>1, OutcomeCounted DEF Counters
  <2> QED
    BY <2>2, FS_Subset DEF Counters
<1>3. ASSUME NEW l \in Link, Join(l)
      PROVE  Counters'
  <2>1. Counted(NewStats(ts))
    BY DEF Counted, Fields, NewStats
  <2>2. /\ DOMAIN conn' = DOMAIN conn \cup {l}
        /\ conn'[l] = NewStats(ts) /\ \A k \in DOMAIN conn \ {l} : conn'[k] = conn[k]
    BY <1>3 DEF Join
  <2>3. IsFiniteSet(DOMAIN conn')
    BY <2>2, FS_AddElement DEF Counters
  <2> QED
    BY <2>1, <2>2, <2>3 DEF Counters
<1>4. ASSUME NEW l \in DOMAIN conn, NEW n \in Sizes, receive_packet(l, n)
      PROVE  Counters'
  <2>1. Counted(on_packet_received(conn[l], n))
    BY QualityConstants, PacketCounted DEF Counters
  <2> QED
    BY <1>4, <2>1 DEF receive_packet, Counters
<1>5. ASSUME NEW l \in DOMAIN conn, NEW n \in Sizes, receive_nak(l, n)
      PROVE  Counters'
  <2> DEFINE C == [conn EXCEPT ![l] = on_nak_detected(on_packet_received(conn[l], n))]
  <2>1. Counted(on_nak_detected(on_packet_received(conn[l], n)))
    BY QualityConstants, PacketCounted, NakCounted DEF Counters
  <2>2. DOMAIN C = DOMAIN conn /\ \A k \in DOMAIN C : Counted(C[k])
    BY <2>1 DEF Counters
  <2>3. conn' = C \/ \E e \in evaluate_group(C, now') : conn' = e.conn
    BY <1>5, Zenon DEF receive_nak
  <2> HIDE DEF C
  <2>4. DOMAIN conn' = DOMAIN conn /\ \A k \in DOMAIN conn : Counted(conn'[k])
    BY <2>2, <2>3, OutcomeCounted
  <2> QED
    BY <2>4 DEF Counters
<1>6. ASSUME NEW l \in DOMAIN conn, NEW info \in Infos, handle_keepalive(l, info)
      PROVE  Counters'
  <2>1. PICK t : conn' = [conn EXCEPT ![l] = update_connection_telemetry(conn[l], info, t)]
    BY <1>6, Zenon DEF handle_keepalive
  <2>2. Counted(update_connection_telemetry(conn[l], info, t))
    BY TelemetryCounted DEF Counters
  <2> QED
    BY <2>1, <2>2 DEF Counters
<1>7. CASE UNCHANGED vars
  BY <1>7 DEF vars, Counters
<1> QED
  BY <1>1, <1>2, <1>3, <1>4, <1>5, <1>6, <1>7 DEF Next

LEMMA BandwidthType ==
  ASSUME NEW c, c.bytes \in Nat, c.evalTime \in Nat, NEW ms \in Nat
  PROVE  Bandwidth(c, ms) \in Nat
<1>1. CASE ms > c.evalTime
  <2>1. c.bytes * MS \in Nat /\ ms - c.evalTime \in Nat \ {0}
    BY <1>1, ScoreConstants
  <2> QED
    BY <2>1, Quotient DEF Bandwidth
<1>2. CASE ~(ms > c.evalTime)
  BY <1>2 DEF Bandwidth
<1> QED
  BY <1>1, <1>2

\* The points an evaluation of the links C gives to the fastest.
LEMMA FastestPoints ==
  ASSUME NEW C, IsFiniteSet(DOMAIN C), NEW ms \in Nat, NEW t,
         \A k \in DOMAIN C : Counted(C[k]) /\ IsStats(C[k]),
         NEW l \in DOMAIN C, C[l].lost = 0, ~C[l].extended,
         LET bw == [k \in DOMAIN C |-> Bandwidth(C[k], ms)]
         IN  (\A k \in DOMAIN bw : bw[k] <= bw[l]) /\ bw[l] >= MinExpected(bw)
  PROVE  Scored(C, l, t, ms).points = 0
<1> DEFINE bw     == [k \in DOMAIN C |-> Bandwidth(C[k], ms)]
           steps  == IF C[l].extended THEN LightSteps ELSE BandwidthSteps
           points == BandwidthPoints(bw, l, steps)
                       + LossPoints(C[l], ms) + TelemetryPoints(C[l], t, ms)
<1>1. "points" \in DOMAIN C[l] => Scored(C, l, t, ms).points = points
  <2>1. PICK q, r, n :
          Scored(C, l, t, ms) =
            [C[l] EXCEPT !.points = points, !.legacyPoints = q, !.legacyWeight = r,
                         !.bytes = 0, !.packets = 0, !.lost = 0, !.nacks = 0,
                         !.evalTime = ms, !.lastNakCount = n]
    BY Zenon DEF Scored
  <2> HIDE DEF points
  <2> QED
    BY <2>1
<1>2. "points" \in DOMAIN C[l]
  BY DEF Counted, Fields
<1>3. DOMAIN bw = DOMAIN C /\ \A k \in DOMAIN C : bw[k] \in Nat
  BY BandwidthType DEF Counted, IsStats
<1>4. (\A k \in DOMAIN bw : bw[k] <= bw[l]) /\ bw[l] >= MinExpected(bw)
  OBVIOUS
<1> HIDE DEF bw
<1>5. BandwidthPoints(bw, l, BandwidthSteps) = 0
  <2>1. Expected(bw, l) \in Nat /\ Expected(bw, l) <= bw[l]
    BY <1>3, <1>4, ExpectedBounded
  <2> QED
    BY <1>3, <2>1, NoBandwidthPoints
<1>6. LossPoints(C[l], ms) = 0
  BY NoLossPoints DEF Counted
<1>7. TelemetryPoints(C[l], t, ms) = 0
  <2>1. C[l].keepalive = 0
    BY DEF Counted
  <2> QED
    BY <2>1 DEF TelemetryPoints, has_valid_sender_telemetry
<1>8. steps = BandwidthSteps
  OBVIOUS
<1>9. points = 0 + 0 + 0
  BY <1>5, <1>6, <1>7, <1>8
<1> HIDE DEF points
<1> QED
  BY <1>1, <1>2, <1>9

Fastest ==
  \A l \in DOMAIN conn \cap DOMAIN conn' :
    LET bw == [k \in DOMAIN conn' |-> Bandwidth(conn[k], now')]
    IN  /\ DOMAIN conn' \subseteq DOMAIN conn
        /\ Measured(conn[l]) /\ conn'[l].evalTime # conn[l].evalTime
        /\ EndRound
        /\ \A k \in DOMAIN bw : bw[k] <= bw[l]
        /\ bw[l] >= MinExpected(bw)
        /\ conn[l].lost = 0 /\ ~conn[l].extended
        => conn'[l].points = 0

LEMMA FastestStep ==
  ASSUME IInv, Counters
  PROVE  Fastest
<1> DEFINE bw == [k \in DOMAIN conn' |-> Bandwidth(conn[k], now')]
<1> SUFFICES ASSUME NEW l \in DOMAIN conn \cap DOMAIN conn', EndRound,
                    conn'[l].evalTime # conn[l].evalTime,
                    \A k \in DOMAIN bw : bw[k] <= bw[l], bw[l] >= MinExpected(bw),
                    conn[l].lost = 0, ~conn[l].extended
             PROVE  conn'[l].points = 0
  BY DEF Fastest
<1>1. now' \in Nat /\ now' < (ts + 1) * MS + MaxLag
  BY ClockStep DEF IInv, EndRound
<1>2. PICK left \in SUBSET DOMAIN conn :
        \E e \in evaluate_group([k \in left |-> conn[k]], now') :
          conn' = Weighted(e.conn) \/ conn' = e.conn
  BY Zenon DEF EndRound
<1> DEFINE C == [k \in left |-> conn[k]]
<1>3. PICK e \in evaluate_group(C, now') : conn' = Weighted(e.conn) \/ conn' = e.conn
  BY <1>2
<1>4. Good(C, lastEval) /\ DOMAIN C = left
  BY RestrictGood DEF IInv
<1>5. IsFiniteSet(left) /\ \A k \in left : C[k] = conn[k] /\ Counted(C[k]) /\ IsStats(C[k])
  BY FS_Subset DEF Counters, IInv, Good, Links
<1>6. DOMAIN e.conn = left /\ Good(e.conn, e.at)
  BY <1>1, <1>4, OutcomeGood DEF IInv
<1>7. DOMAIN conn' = left /\ l \in left
  BY <1>3, <1>6 DEF Weighted
<1>8. bw = [k \in DOMAIN C |-> Bandwidth(C[k], now')]
  BY <1>4, <1>5, <1>7
<1>9. conn'[l].evalTime = e.conn[l].evalTime /\ conn'[l].points = e.conn[l].points
  <2>1. IsStats(e.conn[l])
    BY <1>6, <1>7 DEF Good, Links
  <2>2. Weighted(e.conn)[l] = [e.conn[l] EXCEPT !.weight = WeightOf(e.conn[l].points)]
    BY <1>6, <1>7 DEF Weighted
  <2>3. /\ Weighted(e.conn)[l].evalTime = e.conn[l].evalTime
        /\ Weighted(e.conn)[l].points = e.conn[l].points
    BY <2>1, <2>2, WeightedFields
  <2> QED
    BY <1>3, <2>3
<1>10. e.conn[l] = Scored(C, l, ts, now')
  <2> HIDE DEF C, bw
  <2>1. e.conn = C \/ e.conn = Evaluated(C, ts, now')
    BY <1>3 DEF evaluate_group
  <2>2. C[l].evalTime = conn[l].evalTime
    BY <1>5, <1>7
  <2>3. e.conn[l] # C[l]
    BY <1>9, <2>2
  <2> QED
    BY <1>4, <1>7, <2>1, <2>3 DEF Evaluated
<1>11. C[l].lost = 0 /\ ~C[l].extended
  BY <1>5, <1>7
<1> HIDE DEF C
<1>12. Scored(C, l, ts, now').points = 0
  BY <1>1, <1>4, <1>5, <1>7, <1>8, <1>11, FastestPoints, Zenon
<1> QED
  BY <1>9, <1>10, <1>12

(***************************************************************************)
(* evaluate_group never penalises the fastest link of a group that carries *)
(* the minimum, lost nothing and sends no telemetry, however many links    *)
(* there are: the median of the good links is one of their bandwidths, or  *)
(* lies between two, and cannot exceed the best.                           *)
(***************************************************************************)
THEOREM FastestIsUnpenalised == Spec => FastestUnpenalised
<1>1. Init => Counters
  BY FS_EmptySet DEF Init, Counters
<1>2. IInv /\ Counters /\ [Next]_vars => [Fastest]_vars
  BY FastestStep
<1>3. [][Fastest]_vars => FastestUnpenalised
  BY PTL DEF FastestUnpenalised, Fastest
<1> QED
  BY <1>1, <1>2, <1>3, CountersNext, QualityInvariant, PTL DEF Spec
=============================================================================
