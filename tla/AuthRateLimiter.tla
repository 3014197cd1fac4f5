-------------------------- MODULE AuthRateLimiter --------------------------
(***************************************************************************)
(* The throttle on source IPs that fail SRT authentication                 *)
(* (src/utils/auth_rate_limiter.cpp).  Every operation gets the time from  *)
(* its caller.  Time 0 in windowStart means "no window".                   *)
(***************************************************************************)
EXTENDS Integers

CONSTANTS
  Ip,                       \* source IPs, the limiter's keys
  AUTH_FAIL_THRESHOLD, AUTH_FAIL_WINDOW, AUTH_FAIL_COOLDOWN

VARIABLE entries            \* the map: Ip (those present) -> Entry

Entry == [failures : Nat, windowStart : Nat, blockedUntil : Nat]

NoEntry == [failures |-> 0, windowStart |-> 0, blockedUntil |-> 0]

\* entries_[ip]: the entry, or a fresh one.
EntryOf(map, ip) == IF ip \in DOMAIN map THEN map[ip] ELSE NoEntry

\* Mutants of Failed: the window is stamped with its start, looking back;
\* a running block is prolonged; the window never expires.
Failed_lookingBack(e, now) ==
  [e EXCEPT !.failures = 1, !.windowStart = now - AUTH_FAIL_WINDOW]

Failed_prolongs(e, now) ==
  [e EXCEPT !.blockedUntil = AUTH_FAIL_COOLDOWN + (IF @ > now THEN @ ELSE now)]

Failed_forever(e, now) ==
  IF e.failures + 1 >= AUTH_FAIL_THRESHOLD
  THEN [NoEntry EXCEPT !.blockedUntil = now + AUTH_FAIL_COOLDOWN]
  ELSE [e EXCEPT !.failures = @ + 1, !.windowStart = IF @ = 0 THEN now ELSE @]

\* The entry after one more failure at time now.
Failed(e, now) ==
  LET expired == \/ e.windowStart = 0
                 \/ now - e.windowStart > AUTH_FAIL_WINDOW
      count   == 1 + (IF expired THEN 0 ELSE e.failures)
  IN  IF count >= AUTH_FAIL_THRESHOLD
      THEN [failures |-> 0, windowStart |-> 0,
            blockedUntil |-> now + AUTH_FAIL_COOLDOWN]
      ELSE [failures |-> count, blockedUntil |-> e.blockedUntil,
            windowStart |-> IF expired THEN now ELSE e.windowStart]

record_failure(ip, now) ==
  entries' = [k \in DOMAIN entries \cup {ip} |->
                IF k = ip THEN Failed(EntryOf(entries, ip), now)
                          ELSE entries[k]]

is_blocked(ip, now) ==
  ip \in DOMAIN entries /\ entries[ip].blockedUntil > now

\* A mutant of Needed: an entry that only blocks is dropped.
Needed_countingOnly(e, now) ==
  e.windowStart # 0 /\ now - e.windowStart <= AUTH_FAIL_WINDOW

\* cleanup keeps the entries that still block or still count.
Needed(e, now) ==
  \/ e.blockedUntil > now
  \/ e.windowStart # 0 /\ now - e.windowStart <= AUTH_FAIL_WINDOW

cleanup(now) ==
  entries' = [k \in {i \in DOMAIN entries : Needed(entries[i], now)} |->
                entries[k]]
=============================================================================
