---------------------------- MODULE QualityScore ----------------------------
(***************************************************************************)
(* How srtla_rec scores the links of a group: ConnectionStats and the      *)
(* arithmetic of quality_evaluator.cpp and load_balancer.cpp.              *)
(*                                                                         *)
(* bytes, packets and lost are the counters' growth since the last_*       *)
(* values were set; setting those is setting the growth to 0.  Rates are   *)
(* whole bytes a second where the code has doubles, and a ratio r < 0.3 is *)
(* written 100 * value < 30 * reference.  Bitrates are only logged.        *)
(***************************************************************************)
EXTENDS Integers, FiniteSets, FiniteSetsExt

CONSTANTS
  MS,                              \* milliseconds in a second
  CONNECTION_GRACE_PERIOD, KEEPALIVE_STALENESS_THRESHOLD,
  MIN_PER_LINK, MIN_ACCEPTABLE_TOTAL,   \* bytes a second
  RTT_HISTORY_SIZE,
  NAK_MOD                          \* 2^32, where the sender's NAK counter wraps

ASSUME ScoreConstants ==
  /\ {MS, CONNECTION_GRACE_PERIOD, KEEPALIVE_STALENESS_THRESHOLD, MIN_PER_LINK,
      MIN_ACCEPTABLE_TOTAL, RTT_HISTORY_SIZE, NAK_MOD} \subseteq Nat \ {0}

WEIGHT_FULL == 100

\* Steps of a scale: the points of the highest limit that is passed, or 0.
Points(passed) == IF passed = {} THEN 0 ELSE Max({step[2] : step \in passed})

BandwidthSteps == {<<30, 40>>, <<50, 25>>, <<70, 15>>, <<85, 5>>}
LightSteps == {<<30, 10>>, <<50, 7>>, <<70, 4>>, <<85, 2>>}
LossSteps == {<<20, 40>>, <<10, 20>>, <<5, 10>>, <<1, 5>>}
RttSteps == {<<500, 20>>, <<200, 10>>, <<100, 5>>}
RTT_VARIANCE_THRESHOLD == 50
WINDOW_UTILIZATION_CONGESTED == 95

NewStats(t) ==
  [start |-> t, bytes |-> 0, packets |-> 0, lost |-> 0, evalTime |-> 0,
   points |-> 0, weight |-> WEIGHT_FULL, nacks |-> 0,
   rtt |-> 0, rtts |-> [i \in 0 .. RTT_HISTORY_SIZE - 1 |-> 0], rttIdx |-> 0,
   keepalive |-> 0, window |-> 0, inFlight |-> 0, nakCount |-> 0,
   lastNakCount |-> 0, extended |-> FALSE,
   legacyPoints |-> 0, legacyWeight |-> WEIGHT_FULL]

\* A keepalive with connection info, at second t (0 if the clock failed).
update_connection_telemetry(c, info, t) ==
  [c EXCEPT !.extended = TRUE, !.keepalive = t,
            !.rtt = info.rtt, !.rtts[c.rttIdx] = info.rtt,
            !.rttIdx = (@ + 1) % RTT_HISTORY_SIZE,
            !.window = info.window, !.inFlight = info.inFlight,
            !.nakCount = info.nakCount]

has_valid_sender_telemetry(c, t) ==
  /\ c.keepalive # 0
  /\ t - c.keepalive <= KEEPALIVE_STALENESS_THRESHOLD
  /\ c.rtt > 0 \/ c.window > 0
-----------------------------------------------------------------------------
\* A link that was never evaluated has no time base and measures nothing.
Measured(c) == c.evalTime > 0

Bandwidth(c, ms) ==
  IF Measured(c) /\ ms > c.evalTime THEN (c.bytes * MS) \div (ms - c.evalTime) ELSE 0

PacketsDiff(c, ms) == IF Measured(c) /\ ms > c.evalTime THEN c.packets ELSE 0

\* The k-th smallest of the values f has on S.
Ranked(f, S, k) ==
  CHOOSE v \in {f[l] : l \in S} :
    /\ Cardinality({l \in S : f[l] < v}) < k
    /\ k <= Cardinality({l \in S : f[l] <= v})

\* A mutant of Median: the two values in the middle are added only.
Median_sum(f, S) ==
  LET n == Cardinality(S)
  IN  IF n % 2 = 1 THEN Ranked(f, S, (n + 1) \div 2)
      ELSE Ranked(f, S, n \div 2) + Ranked(f, S, n \div 2 + 1)

Median(f, S) ==
  LET n == Cardinality(S)
  IN  IF n % 2 = 1 THEN Ranked(f, S, (n + 1) \div 2)
      ELSE (Ranked(f, S, n \div 2) + Ranked(f, S, n \div 2 + 1)) \div 2

\* The median of the links with at least half the bandwidth of the best.
GoodMedian(bw) ==
  LET best == Max({bw[l] : l \in DOMAIN bw})
  IN  IF best = 0 THEN 0 ELSE Median(bw, {l \in DOMAIN bw : 2 * bw[l] >= best})

MinExpected(bw) ==
  Max({MIN_PER_LINK, MIN_ACCEPTABLE_TOTAL \div Cardinality(DOMAIN bw)})

\* A poor link is held to the minimum, the others to the median.
Expected(bw, l) ==
  IF 2 * bw[l] < GoodMedian(bw) THEN MinExpected(bw)
  ELSE Max({GoodMedian(bw), MinExpected(bw)})

BandwidthPoints(bw, l, steps) ==
  Points({s \in steps : 100 * bw[l] < s[1] * Expected(bw, l)})

\* part > limit % of whole; the code's ratio is 0 without packets.
SharePoints(part, whole) == Points({s \in LossSteps : 100 * part > s[1] * whole})

LossPoints(c, ms) ==
  IF PacketsDiff(c, ms) = 0 THEN 0 ELSE SharePoints(c.lost, c.packets + c.lost)

\* The standard deviation of the round trip times on record is over its limit.
Jittery(c) ==
  LET seen == {i \in DOMAIN c.rtts : c.rtts[i] > 0}
      n    == Cardinality(seen)
      sum  == MapThenSumSet(LAMBDA i : c.rtts[i], seen)
      sq   == MapThenSumSet(LAMBDA i : c.rtts[i] * c.rtts[i], seen)
  IN  n >= 2 /\ n * sq - sum * sum > (n * RTT_VARIANCE_THRESHOLD) * (n * RTT_VARIANCE_THRESHOLD)

calculate_rtt_error_points(c) ==
  Points({s \in RttSteps : c.rtt > s[1]}) + (IF Jittery(c) THEN 10 ELSE 0)

\* The difference is unsigned: a counter that restarted seems to have run on.
NaksKnown(c, ms) == PacketsDiff(c, ms) > 0 /\ c.nakCount > 0

calculate_nak_error_points(c, ms) ==
  IF NaksKnown(c, ms)
  THEN SharePoints((c.nakCount - c.lastNakCount) % NAK_MOD, c.packets) ELSE 0

calculate_window_error_points(c) ==
  IF c.window > 0 /\ 100 * c.inFlight > WINDOW_UTILIZATION_CONGESTED * c.window
  THEN 15 ELSE 0

TelemetryPoints(c, t, ms) ==
  IF ~has_valid_sender_telemetry(c, t) THEN 0
  ELSE calculate_rtt_error_points(c) + calculate_nak_error_points(c, ms)
         + calculate_window_error_points(c)
-----------------------------------------------------------------------------
in_grace_period(c, t) == t - c.start < CONNECTION_GRACE_PERIOD

\* adjust_weights
WeightOf(points) ==
  CASE points >= 40 -> 10
    [] points \in 25 .. 39 -> 40
    [] points \in 15 .. 24 -> 55
    [] points \in 10 .. 14 -> 70
    [] points \in 5 .. 9 -> 85
    [] OTHER -> WEIGHT_FULL

\* evaluate_connection_legacy: no telemetry, and a scale of weights of its own.
LegacyPoints(bw, l, c, ms) ==
  BandwidthPoints(bw, l, BandwidthSteps) + LossPoints(c, ms)

LegacyWeightOf(points) ==
  CASE points >= 40 -> 10
    [] points \in 30 .. 39 -> 40
    [] points \in 20 .. 29 -> 55
    [] points \in 10 .. 19 -> 70
    [] points \in 5 .. 9 -> 85
    [] OTHER -> WEIGHT_FULL

\* The second loop of evaluate_group on a link l of group C that is past its
\* grace period; last_sender_nak_count moves only when the rate was computed.
Scored(C, l, t, ms) ==
  LET c      == C[l]
      bw     == [k \in DOMAIN C |-> Bandwidth(C[k], ms)]
      legacy == LegacyPoints(bw, l, c, ms)
      points == BandwidthPoints(bw, l, IF c.extended THEN LightSteps ELSE BandwidthSteps)
                  + LossPoints(c, ms) + TelemetryPoints(c, t, ms)
  IN  [c EXCEPT !.points = points,
                !.legacyPoints = legacy, !.legacyWeight = LegacyWeightOf(legacy),
                !.bytes = 0, !.packets = 0, !.lost = 0, !.nacks = 0,
                !.evalTime = ms,
                !.lastNakCount = IF has_valid_sender_telemetry(c, t) /\ NaksKnown(c, ms)
                                 THEN c.nakCount ELSE @]

\* A mutant of Evaluated: links in their grace period get a time base.
Evaluated_based(C, t, ms) ==
  [l \in DOMAIN C |-> IF in_grace_period(C[l], t) THEN [C[l] EXCEPT !.evalTime = t * MS]
                      ELSE Scored(C, l, t, ms)]

Evaluated(C, t, ms) ==
  [l \in DOMAIN C |-> IF in_grace_period(C[l], t) THEN C[l] ELSE Scored(C, l, t, ms)]

Weighted(C) == [l \in DOMAIN C |-> [C[l] EXCEPT !.weight = WeightOf(C[l].points)]]
=============================================================================
