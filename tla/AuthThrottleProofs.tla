------------------------- MODULE AuthThrottleProofs -------------------------
(***************************************************************************)
(* Proofs of the properties of module AuthThrottle for every set of IPs    *)
(* and every threshold, window and cooldown.                               *)
(*                                                                         *)
(* The inductive invariant relates an entry of the map to the history in   *)
(* two ways: Agrees says how it may differ from the entry that was never   *)
(* cleaned up, Counts that its window is made of the last failures logged. *)
(***************************************************************************)
EXTENDS AuthThrottle, TLAPS

\* e counts what k counts, or k's window is over and e has none; e blocks
\* until k does, or both blocks are over.
Agrees(e, k, t) ==
  /\ \/ e.failures = k.failures /\ e.windowStart = k.windowStart
     \/ /\ e.failures = 0 /\ e.windowStart = 0
        /\ k.windowStart # 0 /\ t - k.windowStart > AUTH_FAIL_WINDOW
  /\ \/ e.blockedUntil = k.blockedUntil
     \/ e.blockedUntil <= t /\ k.blockedUntil <= t

\* The open window of e began with the first of its e.failures last failures.
Counts(e, l) ==
  /\ e.failures < AUTH_FAIL_THRESHOLD
  /\ e.failures <= Len(l)
  /\ e.windowStart # 0 <=> e.failures # 0
  /\ e.failures # 0 => e.windowStart = l[Len(l) - e.failures + 1]

\* The block of e began with a failure that ended a burst (or there is none).
Justified(until, l) ==
  until # 0 =>
    \E n \in 1 .. Len(l) :
      /\ n >= AUTH_FAIL_THRESHOLD
      /\ l[n] - l[n - AUTH_FAIL_THRESHOLD + 1] <= AUTH_FAIL_WINDOW
      /\ l[n] + AUTH_FAIL_COOLDOWN = until

Tracked(e, k, l, t, c) ==
  /\ e \in Entry /\ k \in Entry /\ l \in Seq(Nat)
  /\ Agrees(e, k, t)
  /\ Counts(e, l)
  /\ Justified(e.blockedUntil, l)
  /\ e.blockedUntil <= c + AUTH_FAIL_COOLDOWN

IInv ==
  /\ TypeOK
  /\ ts > 0 /\ ts <= clock
  /\ \A ip \in Ip : Tracked(EntryOf(entries, ip), kept[ip], log[ip], ts, clock)
-----------------------------------------------------------------------------
LEMMA NoEntryType == NoEntry \in Entry
  BY DEF NoEntry, Entry

\* The window of Failed(e, now), and the failures in it.
Fresh(e, now) == e.windowStart = 0 \/ now - e.windowStart > AUTH_FAIL_WINDOW

InWindow(e, now) == 1 + (IF Fresh(e, now) THEN 0 ELSE e.failures)

Start(e, now) == IF Fresh(e, now) THEN now ELSE e.windowStart

LEMMA FailedFields ==
  ASSUME NEW e \in Entry, NEW now \in Nat
  PROVE  /\ Failed(e, now) \in Entry
         /\ InWindow(e, now) \in Nat \ {0} /\ Start(e, now) \in Nat
         /\ IF InWindow(e, now) >= AUTH_FAIL_THRESHOLD
            THEN /\ Failed(e, now).failures = 0
                 /\ Failed(e, now).windowStart = 0
                 /\ Failed(e, now).blockedUntil = now + AUTH_FAIL_COOLDOWN
            ELSE /\ Failed(e, now).failures = InWindow(e, now)
                 /\ Failed(e, now).windowStart = Start(e, now)
                 /\ Failed(e, now).blockedUntil = e.blockedUntil
<1>1. /\ e.failures \in Nat /\ e.windowStart \in Nat /\ e.blockedUntil \in Nat
      /\ AUTH_FAIL_COOLDOWN \in Nat
  BY ThrottleConstants DEF Entry
<1>2. InWindow(e, now) \in Nat \ {0} /\ Start(e, now) \in Nat
  BY <1>1 DEF InWindow, Start
<1>3. Failed(e, now) =
        IF InWindow(e, now) >= AUTH_FAIL_THRESHOLD
        THEN [failures |-> 0, windowStart |-> 0,
              blockedUntil |-> now + AUTH_FAIL_COOLDOWN]
        ELSE [failures |-> InWindow(e, now), blockedUntil |-> e.blockedUntil,
              windowStart |-> Start(e, now)]
  BY DEF Failed, Fresh, InWindow, Start
<1>4. CASE InWindow(e, now) >= AUTH_FAIL_THRESHOLD
  BY <1>1, <1>2, <1>3, <1>4 DEF Entry
<1>5. CASE ~(InWindow(e, now) >= AUTH_FAIL_THRESHOLD)
  BY <1>1, <1>2, <1>3, <1>5 DEF Entry
<1> QED
  BY <1>4, <1>5

\* Entries that agree, agree after one more failure.
LEMMA FailedAgrees ==
  ASSUME NEW e \in Entry, NEW k \in Entry, NEW t \in Nat, NEW now \in Nat,
         t > 0, t <= now, Agrees(e, k, t)
  PROVE  Agrees(Failed(e, now), Failed(k, now), t)
<1>1. /\ e.failures \in Nat /\ e.windowStart \in Nat
      /\ k.failures \in Nat /\ k.windowStart \in Nat
      /\ AUTH_FAIL_WINDOW \in Nat
  BY ThrottleConstants DEF Entry
<1>2. InWindow(e, now) = InWindow(k, now) /\ Start(e, now) = Start(k, now)
  BY <1>1 DEF Agrees, Fresh, InWindow, Start
<1>3. \/ e.blockedUntil = k.blockedUntil
      \/ e.blockedUntil <= t /\ k.blockedUntil <= t
  BY DEF Agrees
<1> DEFINE f == Failed(e, now)
           j == Failed(k, now)
<1>4. /\ f.failures = j.failures /\ f.windowStart = j.windowStart
      /\ \/ f.blockedUntil = j.blockedUntil
         \/ f.blockedUntil = e.blockedUntil /\ j.blockedUntil = k.blockedUntil
  <2> HIDE DEF f, j
  <2>1. CASE InWindow(e, now) >= AUTH_FAIL_THRESHOLD
    BY <1>2, <2>1, FailedFields, Zenon DEF f, j
  <2>2. CASE ~(InWindow(e, now) >= AUTH_FAIL_THRESHOLD)
    <3>1. /\ f.failures = InWindow(e, now) /\ f.windowStart = Start(e, now)
          /\ f.blockedUntil = e.blockedUntil
      BY <2>2, FailedFields DEF f
    <3>2. ~(InWindow(k, now) >= AUTH_FAIL_THRESHOLD)
      BY <1>2, <2>2
    <3>3. /\ j.failures = InWindow(k, now) /\ j.windowStart = Start(k, now)
          /\ j.blockedUntil = k.blockedUntil
      BY <3>2, FailedFields DEF j
    <3> QED
      BY <1>2, <3>1, <3>3
  <2> QED
    BY <2>1, <2>2
<1> QED
  BY <1>3, <1>4 DEF Agrees

\* One more failure, at a time not before the round's, keeps an entry tracked.
LEMMA FailedTracked ==
  ASSUME NEW e \in Entry, NEW k \in Entry, NEW l \in Seq(Nat),
         NEW t \in Nat, NEW c \in Nat, NEW now \in Nat,
         t > 0, t <= c, c <= now, Tracked(e, k, l, t, c)
  PROVE  Tracked(Failed(e, now), Failed(k, now), Append(l, now), t, now)
<1> DEFINE f == Failed(e, now)
           m == Append(l, now)
           count == InWindow(e, now)
           start == Start(e, now)
<1>1. /\ AUTH_FAIL_THRESHOLD \in Nat \ {0} /\ AUTH_FAIL_WINDOW \in Nat \ {0}
      /\ AUTH_FAIL_COOLDOWN \in Nat \ {0}
  BY ThrottleConstants
<1>2. /\ Counts(e, l) /\ Justified(e.blockedUntil, l)
      /\ e.blockedUntil <= c + AUTH_FAIL_COOLDOWN
  BY DEF Tracked
<1>3. e.failures \in Nat /\ e.windowStart \in Nat /\ e.blockedUntil \in Nat
  BY DEF Entry
<1>4. /\ m \in Seq(Nat) /\ Len(m) = Len(l) + 1 /\ Len(l) \in Nat
      /\ m[Len(m)] = now
      /\ \A i \in 1 .. Len(l) : m[i] = l[i] /\ m[i] \in Nat
  OBVIOUS
<1>5. f \in Entry /\ Failed(k, now) \in Entry
  BY FailedFields, Zenon
<1>6. Agrees(f, Failed(k, now), t)
  BY FailedAgrees DEF Tracked
<1> HIDE DEF m
<1>7. /\ count \in 1 .. Len(m) /\ count <= AUTH_FAIL_THRESHOLD
      /\ start = m[Len(m) - count + 1]
      /\ now - start <= AUTH_FAIL_WINDOW
      /\ start # 0
  <2>1. CASE Fresh(e, now)
    <3>1. count = 1 /\ start = now
      BY <2>1 DEF InWindow, Start
    <3> QED
      BY <3>1, <1>1, <1>4
  <2>2. CASE ~Fresh(e, now)
    <3>1. /\ count = 1 + e.failures /\ start = e.windowStart
          /\ e.windowStart # 0 /\ now - e.windowStart <= AUTH_FAIL_WINDOW
      BY <2>2, <1>1, <1>3 DEF InWindow, Start, Fresh
    <3>2. /\ e.failures # 0 /\ e.failures <= Len(l)
          /\ e.failures < AUTH_FAIL_THRESHOLD
          /\ e.windowStart = l[Len(l) - e.failures + 1]
      BY <3>1, <1>2 DEF Counts
    <3> DEFINE n == e.failures
               w == e.windowStart
               i == Len(l) - n + 1
    <3>3. /\ n \in Nat /\ w \in Nat /\ count = 1 + n /\ start = w /\ n # 0
          /\ n <= Len(l) /\ n < AUTH_FAIL_THRESHOLD /\ w = l[i]
          /\ w # 0 /\ now - w <= AUTH_FAIL_WINDOW
      BY <3>1, <3>2, <1>3
    <3> HIDE DEF n, w, count, start
    <3>4. i \in 1 .. Len(l) /\ Len(m) - count + 1 = i
      BY <3>3, <1>4
    <3>5. count \in 1 .. Len(m) /\ count <= AUTH_FAIL_THRESHOLD
      BY <3>3, <1>1, <1>4
    <3> QED
      BY <3>3, <3>4, <3>5, <1>4, Zenon
  <2> QED
    BY <2>1, <2>2
<1>8. IF count >= AUTH_FAIL_THRESHOLD
      THEN /\ f.failures = 0 /\ f.windowStart = 0
           /\ f.blockedUntil = now + AUTH_FAIL_COOLDOWN
      ELSE /\ f.failures = count /\ f.windowStart = start
           /\ f.blockedUntil = e.blockedUntil
  BY FailedFields
<1> HIDE DEF count, start, f
<1>9. Counts(f, m)
  <2>1. CASE count >= AUTH_FAIL_THRESHOLD
    BY <2>1, <1>1, <1>4, <1>8 DEF Counts
  <2>2. CASE ~(count >= AUTH_FAIL_THRESHOLD)
    <3>1. f.failures = count /\ f.windowStart = start
      BY <2>2, <1>8
    <3>2. count # 0 /\ count < AUTH_FAIL_THRESHOLD /\ count <= Len(m)
      BY <2>2, <1>1, <1>4, <1>7
    <3> QED
      BY <3>1, <3>2, <1>7 DEF Counts
  <2> QED
    BY <2>1, <2>2
<1>10. Justified(f.blockedUntil, m)
  <2>1. CASE count >= AUTH_FAIL_THRESHOLD
    <3>1. count = AUTH_FAIL_THRESHOLD /\ f.blockedUntil = now + AUTH_FAIL_COOLDOWN
      BY <2>1, <1>1, <1>7, <1>8
    <3>2. /\ Len(m) \in 1 .. Len(m) /\ Len(m) >= AUTH_FAIL_THRESHOLD
          /\ m[Len(m)] - m[Len(m) - AUTH_FAIL_THRESHOLD + 1] <= AUTH_FAIL_WINDOW
          /\ m[Len(m)] + AUTH_FAIL_COOLDOWN = f.blockedUntil
      BY <3>1, <1>1, <1>4, <1>7
    <3> QED
      BY <3>2 DEF Justified
  <2>2. CASE ~(count >= AUTH_FAIL_THRESHOLD)
    <3>1. f.blockedUntil = e.blockedUntil
      BY <2>2, <1>8
    <3> SUFFICES ASSUME f.blockedUntil # 0
                 PROVE  \E n \in 1 .. Len(m) :
                          /\ n >= AUTH_FAIL_THRESHOLD
                          /\ m[n] - m[n - AUTH_FAIL_THRESHOLD + 1] <= AUTH_FAIL_WINDOW
                          /\ m[n] + AUTH_FAIL_COOLDOWN = f.blockedUntil
      BY DEF Justified
    <3>2. PICK n \in 1 .. Len(l) :
            /\ n >= AUTH_FAIL_THRESHOLD
            /\ l[n] - l[n - AUTH_FAIL_THRESHOLD + 1] <= AUTH_FAIL_WINDOW
            /\ l[n] + AUTH_FAIL_COOLDOWN = e.blockedUntil
      BY <3>1, <1>2 DEF Justified
    <3>3. n - AUTH_FAIL_THRESHOLD + 1 \in 1 .. Len(l) /\ n \in 1 .. Len(m)
      BY <3>2, <1>1, <1>4
    <3> QED
      BY <3>1, <3>2, <3>3, <1>4, Zenon
  <2> QED
    BY <2>1, <2>2
<1>11. f.blockedUntil <= now + AUTH_FAIL_COOLDOWN
  BY <1>1, <1>2, <1>3, <1>8
<1> QED
  BY <1>4, <1>5, <1>6, <1>9, <1>10, <1>11 DEF Tracked, f, m

\* An entry that cleanup drops differs from none only in what is over.
LEMMA DroppedTracked ==
  ASSUME NEW e \in Entry, NEW k \in Entry, NEW l \in Seq(Nat),
         NEW t \in Nat, NEW c \in Nat,
         Tracked(e, k, l, t, c), ~Needed(e, t)
  PROVE  Tracked(NoEntry, k, l, t, c)
<1>1. /\ AUTH_FAIL_THRESHOLD \in Nat \ {0} /\ AUTH_FAIL_WINDOW \in Nat \ {0}
      /\ AUTH_FAIL_COOLDOWN \in Nat \ {0}
  BY ThrottleConstants
<1>2. /\ e.failures \in Nat /\ e.windowStart \in Nat /\ e.blockedUntil \in Nat
      /\ k.failures \in Nat /\ k.windowStart \in Nat /\ k.blockedUntil \in Nat
  BY DEF Tracked, Entry
<1>3. /\ NoEntry.failures = 0 /\ NoEntry.windowStart = 0
      /\ NoEntry.blockedUntil = 0
  BY DEF NoEntry
<1>4. Agrees(NoEntry, k, t)
  <2>1. Agrees(e, k, t) /\ (e.windowStart # 0 <=> e.failures # 0)
    BY DEF Tracked, Counts
  <2>2. e.blockedUntil <= t /\ (e.windowStart = 0 \/ t - e.windowStart > AUTH_FAIL_WINDOW)
    BY <1>1, <1>2 DEF Needed
  <2>3. /\ \/ k.failures = 0 /\ k.windowStart = 0
           \/ k.windowStart # 0 /\ t - k.windowStart > AUTH_FAIL_WINDOW
        /\ k.blockedUntil <= t
    BY <1>2, <2>1, <2>2 DEF Agrees
  <2> QED
    BY <1>3, <2>3 DEF Agrees
<1>5. Counts(NoEntry, l) /\ Justified(NoEntry.blockedUntil, l) /\ l \in Seq(Nat)
  BY <1>1, <1>3 DEF Tracked, Counts, Justified
<1> QED
  BY <1>1, <1>3, <1>4, <1>5, NoEntryType DEF Tracked

\* Time passes.
LEMMA LaterTracked ==
  ASSUME NEW e \in Entry, NEW k \in Entry, NEW l \in Seq(Nat),
         NEW t \in Nat, NEW c \in Nat,
         NEW u \in Nat, NEW d \in Nat, t <= u, c <= d, Tracked(e, k, l, t, c)
  PROVE  Tracked(e, k, l, u, d)
<1>1. /\ e.failures \in Nat /\ e.windowStart \in Nat /\ e.blockedUntil \in Nat
      /\ k.failures \in Nat /\ k.windowStart \in Nat /\ k.blockedUntil \in Nat
  BY DEF Tracked, Entry
<1>2. Agrees(e, k, u)
  <2> DEFINE w == k.windowStart
             b == e.blockedUntil
             f == k.blockedUntil
  <2>1. w \in Nat /\ b \in Nat /\ f \in Nat /\ AUTH_FAIL_WINDOW \in Nat
    BY <1>1, ThrottleConstants
  <2>2. /\ \/ e.failures = k.failures /\ e.windowStart = w
           \/ /\ e.failures = 0 /\ e.windowStart = 0
              /\ w # 0 /\ t - w > AUTH_FAIL_WINDOW
        /\ b = f \/ (b <= t /\ f <= t)
    BY DEF Tracked, Agrees
  <2> HIDE DEF w, b, f
  <2>3. t - w > AUTH_FAIL_WINDOW => u - w > AUTH_FAIL_WINDOW
    BY <2>1
  <2>4. b <= t /\ f <= t => b <= u /\ f <= u
    BY <2>1
  <2> QED
    BY <2>2, <2>3, <2>4 DEF Agrees, w, b, f
<1>3. e.blockedUntil <= d + AUTH_FAIL_COOLDOWN
  BY <1>1, ThrottleConstants DEF Tracked
<1> QED
  BY <1>2, <1>3 DEF Tracked
-----------------------------------------------------------------------------
\* What record_failure and cleanup leave of the entry of an IP.
LEMMA RecordFailureEntry ==
  ASSUME NEW ip \in Ip, NEW now, record_failure(ip, now), NEW i \in Ip
  PROVE  EntryOf(entries', i) =
           IF i = ip THEN Failed(EntryOf(entries, ip), now) ELSE EntryOf(entries, i)
  BY DEF record_failure, EntryOf

LEMMA CleanupEntry ==
  ASSUME NEW now, cleanup(now), NEW i \in Ip
  PROVE  EntryOf(entries', i) =
           IF i \in DOMAIN entries /\ ~Needed(entries[i], now)
           THEN NoEntry ELSE EntryOf(entries, i)
  BY DEF cleanup, EntryOf

LEMMA InvInit == Init => IInv
<1> SUFFICES ASSUME Init PROVE IInv
  OBVIOUS
<1>1. DOMAIN entries = {} /\ kept = [i \in Ip |-> NoEntry] /\ log = [i \in Ip |-> <<>>]
  BY DEF Init
<1>2. TypeOK
  BY <1>1, NoEntryType DEF Init, TypeOK
<1>3. Tracked(NoEntry, NoEntry, <<>>, 1, 1)
  <2>1. /\ NoEntry.failures = 0 /\ NoEntry.windowStart = 0
        /\ NoEntry.blockedUntil = 0
    BY DEF NoEntry
  <2> QED
    BY <2>1, NoEntryType, ThrottleConstants DEF Tracked, Agrees, Counts, Justified
<1>4. \A ip \in Ip : EntryOf(entries, ip) = NoEntry
  BY <1>1 DEF EntryOf
<1> QED
  BY <1>1, <1>2, <1>3, <1>4 DEF Init, IInv

LEMMA InvNext == IInv /\ [Next]_vars => IInv'
<1> SUFFICES ASSUME IInv, [Next]_vars PROVE IInv'
  OBVIOUS
<1>1. /\ TypeOK /\ ts \in Nat /\ clock \in Nat /\ ts > 0 /\ ts <= clock
      /\ \A i \in Ip : Tracked(EntryOf(entries, i), kept[i], log[i], ts, clock)
      /\ \A i \in Ip : /\ EntryOf(entries, i) \in Entry /\ kept[i] \in Entry
                       /\ log[i] \in Seq(Nat)
  BY DEF IInv, TypeOK, Tracked
<1>2. CASE Round
  <2>1. /\ ts' = clock' /\ clock' \in Nat /\ clock <= clock'
        /\ UNCHANGED <<entries, log, kept>>
    BY <1>1, <1>2, ThrottleConstants DEF Round
  <2>2. TypeOK'
    BY <1>1, <2>1 DEF TypeOK
  <2>3. ASSUME NEW i \in Ip
        PROVE  Tracked(EntryOf(entries, i), kept[i], log[i], ts', clock')
    BY <1>1, <2>1, LaterTracked
  <2>4. \A i \in Ip : Tracked(EntryOf(entries', i), kept'[i], log'[i], ts', clock')
    BY <2>1, <2>3
  <2> QED
    BY <1>1, <2>1, <2>2, <2>4 DEF IInv
<1>3. CASE Cleanup
  <2>1. cleanup(ts) /\ UNCHANGED <<clock, ts, log, kept>>
    BY <1>3 DEF Cleanup
  <2>2. TypeOK'
    BY <1>1, <2>1 DEF TypeOK, cleanup
  <2>3. ASSUME NEW i \in Ip
        PROVE  Tracked(EntryOf(entries', i), kept[i], log[i], ts, clock)
    <3>1. CASE i \in DOMAIN entries /\ ~Needed(entries[i], ts)
      <4>1. EntryOf(entries', i) = NoEntry /\ ~Needed(EntryOf(entries, i), ts)
        BY <2>1, <3>1, CleanupEntry DEF EntryOf
      <4> QED
        BY <1>1, <4>1, DroppedTracked
    <3>2. CASE ~(i \in DOMAIN entries /\ ~Needed(entries[i], ts))
      BY <1>1, <2>1, <3>2, CleanupEntry
    <3> QED
      BY <3>1, <3>2
  <2> QED
    BY <1>1, <2>1, <2>2, <2>3 DEF IInv
<1>4. ASSUME NEW ip \in Ip, Fail(ip)
      PROVE  IInv'
  <2>1. /\ clock' \in Nat /\ clock <= clock' /\ ts' = ts
        /\ record_failure(ip, clock')
        /\ log' = [log EXCEPT ![ip] = Append(@, clock')]
        /\ kept' = [kept EXCEPT ![ip] = Failed(@, clock')]
    BY <1>1, <1>4, ThrottleConstants DEF Fail
  <2>2. /\ Failed(kept[ip], clock') \in Entry
        /\ Failed(EntryOf(entries, ip), clock') \in Entry
        /\ Append(log[ip], clock') \in Seq(Nat)
    <3>1. kept[ip] \in Entry /\ EntryOf(entries, ip) \in Entry /\ log[ip] \in Seq(Nat)
      BY <1>1
    <3>2. \A e \in Entry, now \in Nat : Failed(e, now) \in Entry
      BY FailedFields
    <3> QED
      BY <2>1, <3>1, <3>2
  <2>3. TypeOK'
    BY <1>1, <2>1, <2>2 DEF TypeOK, record_failure
  <2>4. ASSUME NEW i \in Ip
        PROVE  Tracked(EntryOf(entries', i), kept'[i], log'[i], ts, clock')
    <3>1. CASE i = ip
      <4>1. /\ EntryOf(entries', i) = Failed(EntryOf(entries, ip), clock')
            /\ kept'[i] = Failed(kept[ip], clock')
            /\ log'[i] = Append(log[ip], clock')
        BY <1>1, <2>1, <3>1, RecordFailureEntry DEF TypeOK
      <4>2. Tracked(Failed(EntryOf(entries, ip), clock'), Failed(kept[ip], clock'),
                    Append(log[ip], clock'), ts, clock')
        BY <1>1, <2>1, FailedTracked
      <4> QED
        BY <4>1, <4>2
    <3>2. CASE i # ip
      <4>1. /\ EntryOf(entries', i) = EntryOf(entries, i)
            /\ kept'[i] = kept[i] /\ log'[i] = log[i]
        BY <1>1, <2>1, <3>2, RecordFailureEntry DEF TypeOK
      <4>2. /\ EntryOf(entries, i) \in Entry /\ kept[i] \in Entry /\ log[i] \in Seq(Nat)
            /\ ts \in Nat /\ clock \in Nat /\ ts <= ts
            /\ Tracked(EntryOf(entries, i), kept[i], log[i], ts, clock)
        BY <1>1
      <4>3. Tracked(EntryOf(entries, i), kept[i], log[i], ts, clock')
        BY <2>1, <4>2, LaterTracked
      <4> QED
        BY <4>1, <4>3
    <3> QED
      BY <3>1, <3>2
  <2> QED
    BY <1>1, <2>1, <2>3, <2>4 DEF IInv
<1>5. CASE UNCHANGED vars
  BY <1>5 DEF vars, IInv, TypeOK
<1> QED
  BY <1>2, <1>3, <1>4, <1>5 DEF Next

LEMMA Invariance == Spec => []IInv
  BY InvInit, InvNext, PTL DEF Spec
-----------------------------------------------------------------------------
\* The map and its history always have their types.
THEOREM TypeCorrect == Spec => []TypeOK
<1>1. IInv => TypeOK
  BY DEF IInv
<1> QED
  BY <1>1, Invariance, PTL

(***************************************************************************)
(* Dropping entries in cleanup never changes an answer of is_blocked, for  *)
(* any failures, any rounds and any threshold, window and cooldown.        *)
(***************************************************************************)
THEOREM CleanupCorrect == Spec => []CleanupInvisible
<1>1. IInv => CleanupInvisible
  <2> SUFFICES ASSUME IInv, NEW ip \in Ip
               PROVE  is_blocked(ip, ts) <=> kept[ip].blockedUntil > ts
    BY Zenon DEF CleanupInvisible
  <2>1. ts \in Nat /\ ts > 0
    BY DEF IInv, TypeOK
  <2>2. /\ Agrees(EntryOf(entries, ip), kept[ip], ts)
        /\ EntryOf(entries, ip) \in Entry /\ kept[ip] \in Entry
    BY DEF IInv, Tracked
  <2>3. EntryOf(entries, ip).blockedUntil \in Nat /\ kept[ip].blockedUntil \in Nat
    BY <2>2 DEF Entry
  <2>4. is_blocked(ip, ts) <=> EntryOf(entries, ip).blockedUntil > ts
    BY <2>1 DEF is_blocked, EntryOf, NoEntry
  <2> QED
    BY <2>1, <2>2, <2>3, <2>4 DEF Agrees
<1> QED
  BY <1>1, Invariance, PTL

\* No block reaches further than AUTH_FAIL_COOLDOWN into the future.
THEOREM ExpiryCorrect == Spec => []BlockExpires
<1>1. IInv => BlockExpires
  BY Zenon DEF IInv, Tracked, BlockExpires
<1> QED
  BY <1>1, Invariance, PTL

(***************************************************************************)
(* Every block ends a burst of AUTH_FAIL_THRESHOLD failures of the same IP *)
(* within AUTH_FAIL_WINDOW.                                                *)
(***************************************************************************)
THEOREM BlockCorrect == Spec => []BlockJustified
<1>1. IInv => BlockJustified
  <2> SUFFICES ASSUME IInv, NEW ip \in Ip, EntryOf(entries, ip).blockedUntil # 0
               PROVE  \E n \in DOMAIN log[ip] :
                        /\ Burst(ip, n)
                        /\ log[ip][n] + AUTH_FAIL_COOLDOWN
                              = EntryOf(entries, ip).blockedUntil
    BY DEF BlockJustified
  <2>1. log[ip] \in Seq(Nat) /\ Justified(EntryOf(entries, ip).blockedUntil, log[ip])
    BY DEF IInv, Tracked
  <2>2. DOMAIN log[ip] = 1 .. Len(log[ip])
    BY <2>1
  <2> QED
    BY <2>1, <2>2 DEF Justified, Burst
<1> QED
  BY <1>1, Invariance, PTL
=============================================================================
