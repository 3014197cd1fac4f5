------------------------------ MODULE NakDedup ------------------------------
(***************************************************************************)
(* The filter on repeated NAKs of one group (src/utils/nak_dedup.cpp), as  *)
(* is_duplicate_nak drives it.  A NAK is named by the hash of its payload. *)
(* is_duplicate_nak ignores a failure of get_ms, which leaves the time at  *)
(* 0: the filter may see time run backwards.                               *)
(***************************************************************************)
EXTENDS Integers, Sequences

CONSTANTS
  Hash,                     \* hashes of NAK payloads
  SUPPRESS_MS, MAX_REPEATS,
  Word,                     \* times are unsigned: modulo 2^64 in the code
  MaxMs                     \* bound of the clock

ASSUME NakConstants ==
  /\ SUPPRESS_MS \in Nat \ {0} /\ MAX_REPEATS \in Nat /\ MaxMs \in Nat
  /\ Word \in Nat /\ MaxMs < Word

VARIABLES
  cache,        \* nak_cache: hash (those seen) -> time and repeats
  now,          \* the clock, in milliseconds
  passed        \* history: the times at which each hash was let through

vars == <<cache, now, passed>>

Init ==
  /\ cache = [h \in {} |-> {}]
  /\ now = 1
  /\ passed = [h \in Hash |-> <<>>]

\* A mutant of MayRepeat: the test for a clock that moved backwards is missing.
MayRepeat_unguarded(e, t) ==
  (t - e.time) % Word >= SUPPRESS_MS /\ e.repeats < MAX_REPEATS

\* A hash that is in the cache passes again.
MayRepeat(e, t) ==
  /\ t >= e.time
  /\ (t - e.time) % Word >= SUPPRESS_MS
  /\ e.repeats < MAX_REPEATS

should_accept_nak(h, t) == h \in DOMAIN cache => MayRepeat(cache[h], t)

\* A mutant of Accepted: the count of repeats starts one too low.
Accepted_tooLow(h, t) ==
  [k \in DOMAIN cache \cup {h} |->
     IF k # h THEN cache[k]
     ELSE [time |-> t,
           repeats |-> IF h \in DOMAIN cache THEN cache[h].repeats + 1 ELSE -1]]

Accepted(h, t) ==
  [k \in DOMAIN cache \cup {h} |->
     IF k # h THEN cache[k]
     ELSE [time |-> t,
           repeats |-> IF h \in DOMAIN cache THEN cache[h].repeats + 1 ELSE 0]]

\* One NAK arrives; get_ms yields the time, or fails.
Receive(h) ==
  /\ now' \in now .. MaxMs
  /\ \E t \in {0, now'} :
       IF should_accept_nak(h, t)
       THEN /\ cache' = Accepted(h, t)
            /\ passed' = [passed EXCEPT ![h] = Append(@, t)]
       ELSE UNCHANGED <<cache, passed>>

Next == \E h \in Hash : Receive(h)

Spec == Init /\ [][Next]_vars
-----------------------------------------------------------------------------
TypeOK ==
  /\ DOMAIN cache \subseteq Hash
  /\ cache \in [DOMAIN cache -> [time : Nat, repeats : Nat]]
  /\ now \in Nat
  /\ passed \in [Hash -> Seq(Nat)]

(***************************************************************************)
(* However often a NAK is repeated, and whatever the clock does, the SRT   *)
(* server gets it at most 1 + MAX_REPEATS times in the life of the group,  *)
(* each SUPPRESS_MS or more after the one before.                          *)
(***************************************************************************)
RepeatsSpaced ==
  \A h \in Hash :
    /\ Len(passed[h]) <= 1 + MAX_REPEATS
    /\ \A i \in 1 .. Len(passed[h]) - 1 :
         passed[h][i + 1] - passed[h][i] >= SUPPRESS_MS

(***************************************************************************)
(* The counter by which module Receiver abstracts the cache: it moves only *)
(* while MayPassNak allows it, and the first NAK is never held back.       *)
(***************************************************************************)
Count(h) == IF h \in DOMAIN cache THEN 1 + cache[h].repeats ELSE 0

ImplementsCounter ==
  [][\A h \in Hash :
       /\ Count(h)' # Count(h) => Count(h) <= MAX_REPEATS /\ Count(h)' = Count(h) + 1
       /\ Receive(h) /\ Count(h) = 0 => Count(h)' = 1]_vars
=============================================================================
