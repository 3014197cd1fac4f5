------------------------------ MODULE Quality ------------------------------
(***************************************************************************)
(* The quality of the links of one group, round by round: what packets     *)
(* leave in the statistics (metrics_collector.cpp, srtla_handler.cpp),     *)
(* when evaluate_group scores them (at the end of a round and on a burst   *)
(* of NAKs), and when adjust_weights turns the scores into weights.        *)
(*                                                                         *)
(* Which links time out is the business of module Receiver: here any may.  *)
(* A round works with the second ts it began in, while the evaluator and   *)
(* the keepalives read the clock again.                                    *)
(***************************************************************************)
EXTENDS QualityScore

CONSTANTS
  Link, Informed,           \* the links, and those whose sender sends its info
  CONN_QUALITY_EVAL_PERIOD,
  NACK_BURST,               \* NAKs on a link that ask for an evaluation
  NACK_MOD,                 \* 2^16, where nack_count wraps
  Sizes,                    \* bytes in a packet
  Infos,                    \* connection info in keepalives
  MaxLag,                   \* bound on the milliseconds a round runs past its second
  StartTime, MaxTime,       \* bounds of the clock, in milliseconds
  MaxPackets                \* bound on the packets between two evaluations

ASSUME QualityConstants ==
  /\ {CONN_QUALITY_EVAL_PERIOD, NACK_MOD} \subseteq Nat \ {0}
  /\ {NACK_BURST, MaxLag, MaxTime, MaxPackets} \subseteq Nat
  /\ Informed \subseteq Link /\ StartTime \in Nat \ {0} /\ Sizes \subseteq Nat
  /\ \A i \in Infos : {i.rtt, i.window, i.inFlight, i.nakCount} \subseteq Nat

VARIABLES
  conn,         \* the links of the group, with their ConnectionStats
  lastEval,     \* last_quality_eval, in seconds
  lastBalance,  \* last_load_balance_eval
  now,          \* the last time read from the clock, in milliseconds
  ts,           \* the second the round began in
  phase         \* "wait": in epoll_wait, "events": handling a round

vars == <<conn, lastEval, lastBalance, now, ts, phase>>

Init ==
  /\ conn = [l \in {} |-> {}]
  /\ lastEval = 0 /\ lastBalance = 0
  /\ now = StartTime /\ ts = StartTime \div MS
  /\ phase = "wait"

EpollWait ==
  /\ phase = "wait" /\ phase' = "events"
  /\ now' \in now .. MaxTime
  /\ ts' = now' \div MS
  /\ UNCHANGED <<conn, lastEval, lastBalance>>

\* The clock is read again in the course of a round.
ReadClock == now' \in {m \in now .. MaxTime : m < (ts + 1) * MS + MaxLag}

InRound == phase = "events" /\ UNCHANGED <<lastBalance, ts, phase>>
-----------------------------------------------------------------------------
(***************************************************************************)
(* What evaluate_group, called with second ts and reading clock ms, makes  *)
(* of the links C: nothing before the period is over, or if the clock      *)
(* fails.  The mutants forget the period, or count it from the wrong end.  *)
(***************************************************************************)
Due_always(C) == DOMAIN C # {}

Due_early(C) == DOMAIN C # {} /\ lastEval + CONN_QUALITY_EVAL_PERIOD <= ts + 1

Due(C) == DOMAIN C # {} /\ lastEval + CONN_QUALITY_EVAL_PERIOD <= ts

evaluate_group(C, ms) ==
  {[conn |-> C, at |-> lastEval]} \cup
    (IF Due(C) THEN {[conn |-> Evaluated(C, ts, ms), at |-> ts]} ELSE {})

\* adjust_weights: only after an evaluation it has not seen.
Unseen(C, at) == DOMAIN C # {} /\ lastBalance < at

\* A link registers.
Join(l) ==
  /\ InRound
  /\ l \notin DOMAIN conn
  /\ conn' = [k \in DOMAIN conn \cup {l} |-> IF k = l THEN NewStats(ts) ELSE conn[k]]
  /\ UNCHANGED <<lastEval, now>>

\* An SRT packet of n bytes; a NAK the filter suppressed is one, too.
on_packet_received(c, n) == [c EXCEPT !.bytes = @ + n, !.packets = @ + 1]

receive_packet(l, n) ==
  /\ InRound
  /\ conn[l].packets < MaxPackets
  /\ conn' = [conn EXCEPT ![l] = on_packet_received(@, n)]
  /\ UNCHANGED <<lastEval, now>>

on_nak_detected(c) == [c EXCEPT !.lost = @ + 1, !.nacks = (@ + 1) % NACK_MOD]

\* A NAK that was let through; a burst of them asks for an evaluation.
receive_nak(l, n) ==
  /\ InRound
  /\ conn[l].packets < MaxPackets
  /\ LET C == [conn EXCEPT ![l] = on_nak_detected(on_packet_received(@, n))]
     IN  \/ /\ C[l].nacks > NACK_BURST /\ lastEval + 1 < ts
            /\ ReadClock
            /\ \E e \in evaluate_group(C, now') : conn' = e.conn /\ lastEval' = e.at
         \/ /\ ~(C[l].nacks > NACK_BURST /\ lastEval + 1 < ts)
            /\ conn' = C
            /\ UNCHANGED <<lastEval, now>>

\* A keepalive with connection info; others leave the statistics alone.
handle_keepalive(l, info) ==
  /\ InRound
  /\ ReadClock
  /\ \E t \in {0, now' \div MS} :
       conn' = [conn EXCEPT ![l] = update_connection_telemetry(@, info, t)]
  /\ UNCHANGED lastEval

\* The end of a round: links time out, the rest is evaluated and weighted.
EndRound ==
  /\ phase = "events" /\ phase' = "wait"
  /\ ReadClock
  /\ \E left \in SUBSET DOMAIN conn :
       \E e \in evaluate_group([l \in left |-> conn[l]], now') :
         /\ lastEval' = e.at
         /\ IF Unseen(e.conn, e.at)
            THEN conn' = Weighted(e.conn) /\ lastBalance' = ts
            ELSE conn' = e.conn /\ UNCHANGED lastBalance
  /\ UNCHANGED ts

Next ==
  \/ EpollWait
  \/ EndRound
  \/ \E l \in Link : Join(l)
  \/ \E l \in DOMAIN conn, n \in Sizes : receive_packet(l, n) \/ receive_nak(l, n)
  \/ \E l \in DOMAIN conn \cap Informed, info \in Infos : handle_keepalive(l, info)

Spec == Init /\ [][Next]_vars
-----------------------------------------------------------------------------
(***************************************************************************)
(* Whenever the loop waits, the weight of every link is the one its error  *)
(* points call for.  adjust_weights compares whole seconds to see whether  *)
(* there is an evaluation it has not applied: this rests on evaluations    *)
(* being a period apart, even those that bursts of NAKs ask for, and, when *)
(* a clock failure or an empty group upsets the order of the two times, on *)
(* the grace period of the links that joined since.                        *)
(***************************************************************************)
WeightsCurrent ==
  phase = "wait" => \A l \in DOMAIN conn : conn[l].weight = WeightOf(conn[l].points)

(***************************************************************************)
(* Between two evaluations of a link there are more than                   *)
(* CONN_QUALITY_EVAL_PERIOD - 1 seconds less the time a round may take:    *)
(* the period is measured from the seconds in which rounds began, the      *)
(* bandwidth between two later readings of the clock.                      *)
(***************************************************************************)
MeasuredLongEnough ==
  [][lastEval' # lastEval =>
       \A l \in DOMAIN conn \cap DOMAIN conn' :
         Measured(conn[l]) =>
           conn'[l].evalTime - conn[l].evalTime
             > (CONN_QUALITY_EVAL_PERIOD - 1) * MS - MaxLag]_vars

(***************************************************************************)
(* The links that were ever evaluated were evaluated together last time:   *)
(* their bandwidths are measured over the same time and can be compared    *)
(* with each other's and with the median.                                  *)
(***************************************************************************)
SameTimeBase ==
  \A l, k \in DOMAIN conn :
    Measured(conn[l]) /\ Measured(conn[k]) => conn[l].evalTime = conn[k].evalTime

(***************************************************************************)
(* The fastest link, if it carries what is expected at least, lost nothing *)
(* and reports no telemetry, comes out of an evaluation without points:    *)
(* the median it is held to is never above it.                             *)
(***************************************************************************)
FastestUnpenalised ==
  [][\A l \in DOMAIN conn \cap DOMAIN conn' :
       LET bw == [k \in DOMAIN conn' |-> Bandwidth(conn[k], now')]
       IN  /\ DOMAIN conn' \subseteq DOMAIN conn
           /\ Measured(conn[l]) /\ conn'[l].evalTime # conn[l].evalTime
           /\ EndRound
           /\ \A k \in DOMAIN bw : bw[k] <= bw[l]
           /\ bw[l] >= MinExpected(bw)
           /\ conn[l].lost = 0 /\ ~conn[l].extended
           => conn'[l].points = 0]_vars
=============================================================================
