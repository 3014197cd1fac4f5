---------------------------- MODULE AuthThrottle ----------------------------
(***************************************************************************)
(* The rate limiter as the receiver drives it.  SRTHandler stamps a        *)
(* failure with the clock it reads; register_group asks, and the main loop *)
(* cleans up, with the time ts read at the start of the round, which may   *)
(* be older.  log and kept are history: every failure of an IP, and what   *)
(* the limiter's map would be if cleanup never dropped anything.           *)
(***************************************************************************)
EXTENDS AuthRateLimiter, Sequences

CONSTANTS
  MaxTime,                  \* bound of the clock
  MaxFailures               \* bound on the failures of an IP

ASSUME ThrottleConstants ==
  /\ {AUTH_FAIL_THRESHOLD, AUTH_FAIL_WINDOW, AUTH_FAIL_COOLDOWN}
        \subseteq Nat \ {0}
  /\ MaxTime \in Nat /\ MaxFailures \in Nat

VARIABLES clock, ts, log, kept

vars == <<entries, clock, ts, log, kept>>

Init ==
  /\ entries = [i \in {} |-> NoEntry]
  /\ clock = 1
  /\ ts = 1
  /\ log = [i \in Ip |-> <<>>]
  /\ kept = [i \in Ip |-> NoEntry]

\* A new round of the main loop.
Round ==
  /\ clock' \in clock .. MaxTime
  /\ ts' = clock'
  /\ UNCHANGED <<entries, log, kept>>

\* The SRT server turns a client of ip away (handle_srt_data).
Fail(ip) ==
  /\ Len(log[ip]) < MaxFailures
  /\ clock' \in clock .. MaxTime
  /\ record_failure(ip, clock')
  /\ log' = [log EXCEPT ![ip] = Append(@, clock')]
  /\ kept' = [kept EXCEPT ![ip] = Failed(@, clock')]
  /\ ts' = ts

Cleanup ==
  /\ cleanup(ts)
  /\ UNCHANGED <<clock, ts, log, kept>>

Next == Round \/ Cleanup \/ \E ip \in Ip : Fail(ip)

Spec == Init /\ [][Next]_vars
-----------------------------------------------------------------------------
TypeOK ==
  /\ DOMAIN entries \subseteq Ip
  /\ entries \in [DOMAIN entries -> Entry]
  /\ clock \in Nat /\ ts \in Nat
  /\ log \in [Ip -> Seq(Nat)]
  /\ kept \in [Ip -> Entry]

(***************************************************************************)
(* cleanup forgets nothing that matters: whether an IP is refused in this  *)
(* or a later round is what it would be without any cleanup, although a    *)
(* failure may be stamped later than the time the cleanup ran with.        *)
(***************************************************************************)
CleanupInvisible ==
  \A ip \in Ip : is_blocked(ip, ts) <=> kept[ip].blockedUntil > ts

(***************************************************************************)
(* No block lasts longer than AUTH_FAIL_COOLDOWN from now: it is stamped   *)
(* on the clock that register_group and cleanup compare it with.           *)
(***************************************************************************)
BlockExpires ==
  \A ip \in Ip : EntryOf(entries, ip).blockedUntil <= clock + AUTH_FAIL_COOLDOWN

\* The n-th failure of ip and the AUTH_FAIL_THRESHOLD - 1 before it fall
\* within AUTH_FAIL_WINDOW.
Burst(ip, n) ==
  /\ n >= AUTH_FAIL_THRESHOLD
  /\ log[ip][n] - log[ip][n - AUTH_FAIL_THRESHOLD + 1] <= AUTH_FAIL_WINDOW

(***************************************************************************)
(* Only a burst blocks: an IP is blocked because AUTH_FAIL_THRESHOLD of    *)
(* its failures fell within AUTH_FAIL_WINDOW, the last of them when the    *)
(* block began.  A client that fails now and then is never locked out.     *)
(***************************************************************************)
BlockJustified ==
  \A ip \in Ip :
    LET until == EntryOf(entries, ip).blockedUntil IN
    until # 0 => \E n \in DOMAIN log[ip] :
                   Burst(ip, n) /\ log[ip][n] + AUTH_FAIL_COOLDOWN = until

(***************************************************************************)
(* "AUTH_FAIL_THRESHOLD (5) failures inside AUTH_FAIL_WINDOW (60 s) block" *)
(* (docs/TROUBLESHOOTING.md): an IP that was never blocked had no burst.   *)
(***************************************************************************)
BurstBlocks ==
  \A ip \in Ip :
    kept[ip].blockedUntil = 0 => ~\E n \in DOMAIN log[ip] : Burst(ip, n)
=============================================================================
