----------------------------- MODULE SenderLink -----------------------------
(***************************************************************************)
(* One link of srtla_send: the struct conn_t of sender.cpp and what the    *)
(* handlers do to it.                                                      *)
(*                                                                         *)
(* A link remembers the last PKT_LOG_SZ data packets it sent in a ring;    *)
(* idx is the slot the next one takes.  A slot is Free once its packet is  *)
(* acknowledged or reported lost.  window and inFlight make up the score   *)
(* by which select_conn shares out the packets.                            *)
(***************************************************************************)
EXTENDS Integers, FiniteSets

CONSTANTS
  Sn,                       \* SRT sequence numbers
  PKT_LOG_SZ, CONN_TIMEOUT,
  WINDOW_MIN, WINDOW_DEF, WINDOW_MAX, WINDOW_MULT, WINDOW_DECR, WINDOW_INCR

(***************************************************************************)
(* calloc fills the ring of a new link with 0: a slot that never held a    *)
(* packet cannot be told from one that holds packet 0, so that number is   *)
(* left out.                                                               *)
(***************************************************************************)
ASSUME LinkConstants ==
  /\ Sn \subseteq Nat \ {0}
  /\ {PKT_LOG_SZ, CONN_TIMEOUT, WINDOW_MULT, WINDOW_INCR} \subseteq Nat \ {0}
  /\ {WINDOW_MIN, WINDOW_DEF, WINDOW_MAX} \subseteq Nat /\ WINDOW_DECR \in Nat
  /\ WINDOW_MIN <= WINDOW_DEF /\ WINDOW_DEF <= WINDOW_MAX

Slots == 0 .. PKT_LOG_SZ - 1

Free == -1

WindowFloor == WINDOW_MIN * WINDOW_MULT
WindowCeiling == WINDOW_MAX * WINDOW_MULT

\* fd says that the socket is open.  lastRcvd is 0 until the link is heard and
\* again once it failed, and 1 when a packet could not be sent on it.
conn_t ==
  [fd : BOOLEAN, lastRcvd : Nat, window : Nat, inFlight : Nat,
   idx : Slots, log : [Slots -> Sn \cup {Free, 0}]]

\* What setup_conns allocates.
NewConn ==
  [fd |-> FALSE, lastRcvd |-> 0, window |-> WINDOW_DEF * WINDOW_MULT,
   inFlight |-> 0, idx |-> 0, log |-> [i \in Slots |-> 0]]

\* A new socket bound to the link's address, if the system provides one.
open_socket(c, ok) == [c EXCEPT !.fd = ok]

conn_timed_out(c, t) == c.lastRcvd + CONN_TIMEOUT < t
-----------------------------------------------------------------------------
\* A mutant of reg_pkt: the index wraps one slot too late.
reg_pkt_late(c, sn) ==
  [c EXCEPT !.log[c.idx] = sn, !.idx = (@ + 1) % (PKT_LOG_SZ + 1),
            !.inFlight = @ + 1]

reg_pkt(c, sn) ==
  [c EXCEPT !.log[c.idx] = sn, !.idx = (@ + 1) % PKT_LOG_SZ,
            !.inFlight = @ + 1]

\* The loops over the log run backwards from the newest packet and stop
\* before the slot at idx.
Scanned(c) == Slots \ {c.idx}

Age(c, i) == (c.idx - 1 - i) % PKT_LOG_SZ

Hits(c, sn) == {i \in Scanned(c) : c.log[i] = sn}

NewestHit(c, sn) ==
  CHOOSE i \in Hits(c, sn) : \A j \in Hits(c, sn) : Age(c, i) <= Age(c, j)

\* The link that sent sn, when sn is reported lost.  in_flight_pkts stays.
Nakked(c, sn) ==
  [c EXCEPT !.log[NewestHit(c, sn)] = Free,
            !.window = IF @ - WINDOW_DECR > WindowFloor THEN @ - WINDOW_DECR
                                                        ELSE WindowFloor]

\* The link that sent sn, when an SRTLA ACK names it.
Acked(c, sn) ==
  LET n == IF c.inFlight > 0 THEN c.inFlight - 1 ELSE 0
  IN  [c EXCEPT !.log[NewestHit(c, sn)] = Free,
                !.inFlight = n,
                !.window = IF n * WINDOW_MULT > @ THEN @ + WINDOW_INCR - 1 ELSE @]

\* A mutant of Credited: the window grows without limit.
Credited_unlimited(c) ==
  IF c.lastRcvd = 0 THEN c ELSE [c EXCEPT !.window = @ + 1]

\* Every number in an SRTLA ACK also widens every link that is connected.
Credited(c) ==
  IF c.lastRcvd = 0 THEN c
  ELSE [c EXCEPT !.window = IF @ + 1 < WindowCeiling THEN @ + 1 ELSE WindowCeiling]

\* An SRT ACK frees the older packets of a link and counts the others anew.
conn_register_srt_ack(c, ack) ==
  [c EXCEPT !.log = [i \in Slots |-> IF i \in Scanned(c) /\ @[i] < ack THEN Free
                                                                      ELSE @[i]],
            !.inFlight = Cardinality({i \in Scanned(c) : c.log[i] >= ack})]

\* A mutant of Failed: the log survives the reset.
Failed_keepsLog(c) ==
  IF c.lastRcvd = 0 THEN c
  ELSE [c EXCEPT !.lastRcvd = 0, !.window = WindowFloor, !.inFlight = 0]

\* connection_housekeeping on a link that timed out; idx stays.
Failed(c) ==
  IF c.lastRcvd = 0 THEN c
  ELSE [c EXCEPT !.lastRcvd = 0, !.window = WindowFloor, !.inFlight = 0,
                 !.log = [i \in Slots |-> Free]]

Score(c) == c.window \div (c.inFlight + 1)
=============================================================================
