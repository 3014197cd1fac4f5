--------------------------- MODULE NakDedupProofs ---------------------------
(***************************************************************************)
(* Proofs of the properties of module NakDedup for every set of hashes,    *)
(* suppression time, number of repeats and clock, failures of the clock    *)
(* included.                                                               *)
(***************************************************************************)
EXTENDS NakDedup, TLAPS

\* The times in l are SUPPRESS_MS or more apart.
Spaced(l) == \A i \in 1 .. Len(l) - 1 : l[i + 1] - l[i] >= SUPPRESS_MS

\* The cache holds the last of the times in l, and their number.
Tracks(e, l) ==
  /\ e.repeats <= MAX_REPEATS
  /\ Len(l) = 1 + e.repeats
  /\ l[Len(l)] = e.time
  /\ e.time <= MaxMs

IInv ==
  /\ TypeOK
  /\ now <= MaxMs \/ now = 1
  /\ \A h \in Hash :
       /\ Spaced(passed[h])
       /\ IF h \in DOMAIN cache THEN Tracks(cache[h], passed[h])
                                ELSE passed[h] = <<>>
-----------------------------------------------------------------------------
\* Unsigned subtraction of a smaller time does not wrap.
LEMMA NoWrap ==
  ASSUME NEW x \in Nat, NEW w \in Nat, x < w
  PROVE  x % w = x
  BY SMT

\* A payload that may pass again does so SUPPRESS_MS after its last time.
LEMMA RepeatLater ==
  ASSUME NEW e \in [time : Nat, repeats : Nat], NEW t \in Nat,
         t <= MaxMs, MayRepeat(e, t)
  PROVE  t - e.time >= SUPPRESS_MS /\ e.repeats < MAX_REPEATS
<1> DEFINE s == e.time
<1>1. s \in Nat /\ t >= s /\ (t - s) % Word >= SUPPRESS_MS /\ e.repeats < MAX_REPEATS
  BY DEF MayRepeat
<1> HIDE DEF s
<1>2. t - s \in Nat /\ t - s < Word /\ Word \in Nat
  BY <1>1, NakConstants
<1>3. (t - s) % Word = t - s
  BY <1>2, NoWrap
<1> QED
  BY <1>1, <1>3 DEF s

LEMMA SpacedAppend ==
  ASSUME NEW l \in Seq(Nat), NEW t \in Nat, Spaced(l),
         l # <<>> => t - l[Len(l)] >= SUPPRESS_MS
  PROVE  Spaced(Append(l, t))
<1> DEFINE m == Append(l, t)
<1>1. /\ Len(l) \in Nat /\ Len(m) = Len(l) + 1 /\ m[Len(l) + 1] = t
      /\ \A i \in 1 .. Len(l) : m[i] = l[i]
      /\ Len(l) # 0 => l # <<>>
  OBVIOUS
<1> HIDE DEF m
<1> SUFFICES ASSUME NEW i \in 1 .. Len(m) - 1
             PROVE  m[i + 1] - m[i] >= SUPPRESS_MS
  BY DEF Spaced, m
<1>2. CASE i = Len(l)
  BY <1>1, <1>2
<1>3. CASE i # Len(l)
  <2>1. i \in 1 .. Len(l) - 1 /\ i + 1 \in 1 .. Len(l) /\ i \in 1 .. Len(l)
    BY <1>1, <1>3
  <2> QED
    BY <1>1, <2>1 DEF Spaced
<1> QED
  BY <1>2, <1>3

LEMMA InvInit == Init => IInv
<1> SUFFICES ASSUME Init PROVE IInv
  OBVIOUS
<1>1. DOMAIN cache = {} /\ now = 1 /\ passed = [h \in Hash |-> <<>>]
  BY DEF Init
<1>2. Spaced(<<>>)
  BY DEF Spaced
<1> QED
  BY <1>1, <1>2 DEF IInv, TypeOK

\* A NAK that passes at time t.
LEMMA PassStep ==
  ASSUME IInv, NEW h \in Hash, NEW t \in Nat, t <= MaxMs,
         should_accept_nak(h, t), cache' = Accepted(h, t),
         passed' = [passed EXCEPT ![h] = Append(@, t)],
         now' \in Nat, now' <= MaxMs
  PROVE  IInv'
<1>1. /\ DOMAIN cache \subseteq Hash /\ passed \in [Hash -> Seq(Nat)]
      /\ \A k \in DOMAIN cache : cache[k] \in [time : Nat, repeats : Nat]
      /\ MAX_REPEATS \in Nat
  BY NakConstants DEF IInv, TypeOK
<1> DEFINE r == IF h \in DOMAIN cache THEN cache[h].repeats + 1 ELSE 0
           l == passed[h]
<1>2. /\ DOMAIN cache' = DOMAIN cache \cup {h}
      /\ cache'[h] = [time |-> t, repeats |-> r]
      /\ \A k \in DOMAIN cache : k # h => cache'[k] = cache[k]
      /\ passed'[h] = Append(l, t)
      /\ \A k \in Hash : k # h => passed'[k] = passed[k]
  BY <1>1 DEF Accepted
<1>3. r \in Nat /\ r <= MAX_REPEATS /\ Len(l) = r /\ l \in Seq(Nat) /\ Spaced(l)
      /\ (l # <<>> => t - l[Len(l)] >= SUPPRESS_MS)
  <2>1. CASE h \in DOMAIN cache
    <3>1. /\ Tracks(cache[h], l) /\ Spaced(l) /\ MayRepeat(cache[h], t)
          /\ cache[h] \in [time : Nat, repeats : Nat]
      BY <1>1, <2>1 DEF IInv, should_accept_nak
    <3>2. t - cache[h].time >= SUPPRESS_MS /\ cache[h].repeats < MAX_REPEATS
      BY <3>1, RepeatLater
    <3>3. cache[h].repeats \in Nat /\ l \in Seq(Nat) /\ r = cache[h].repeats + 1
      BY <1>1, <2>1, <3>1
    <3>4. Len(l) = 1 + cache[h].repeats /\ l[Len(l)] = cache[h].time
      BY <3>1 DEF Tracks
    <3> HIDE DEF r, l
    <3>5. t - l[Len(l)] >= SUPPRESS_MS
      BY <3>2, <3>4
    <3>6. r \in Nat /\ r <= MAX_REPEATS /\ Len(l) = r
      <4> DEFINE n == cache[h].repeats
      <4>1. n \in Nat /\ MAX_REPEATS \in Nat /\ n < MAX_REPEATS
            /\ r = n + 1 /\ Len(l) = 1 + n
        BY <1>1, <3>2, <3>3, <3>4
      <4> HIDE DEF n
      <4> QED
        BY <4>1
    <3> QED
      BY <3>1, <3>3, <3>5, <3>6
  <2>2. CASE h \notin DOMAIN cache
    BY <1>1, <2>2 DEF IInv
  <2> QED
    BY <2>1, <2>2
<1> HIDE DEF r
<1>4. TypeOK'
  <2>1. [time |-> t, repeats |-> r] \in [time : Nat, repeats : Nat]
    BY <1>3
  <2>2. passed' \in [Hash -> Seq(Nat)]
    BY <1>1, <1>3
  <2>3. cache' = [k \in DOMAIN cache' |-> cache'[k]]
    BY DEF Accepted
  <2>4. \A k \in DOMAIN cache' : cache'[k] \in [time : Nat, repeats : Nat]
    BY <1>1, <1>2, <2>1
  <2> QED
    BY <1>1, <1>2, <2>2, <2>3, <2>4 DEF TypeOK
<1>5. Spaced(passed'[h]) /\ Tracks(cache'[h], passed'[h])
  <2>1. Spaced(Append(l, t))
    BY <1>3, SpacedAppend
  <2>2. Len(Append(l, t)) = 1 + r /\ Append(l, t)[1 + r] = t
    BY <1>3
  <2>3. cache'[h].time = t /\ cache'[h].repeats = r
    BY <1>2
  <2> QED
    BY <1>2, <1>3, <2>1, <2>2, <2>3 DEF Tracks
<1>6. ASSUME NEW k \in Hash, k # h
      PROVE  /\ Spaced(passed'[k])
             /\ IF k \in DOMAIN cache' THEN Tracks(cache'[k], passed'[k])
                                       ELSE passed'[k] = <<>>
  BY <1>2, <1>6 DEF IInv
<1> QED
  BY <1>2, <1>4, <1>5, <1>6 DEF IInv

LEMMA InvNext == IInv /\ [Next]_vars => IInv'
<1> SUFFICES ASSUME IInv, [Next]_vars PROVE IInv'
  OBVIOUS
<1>1. ASSUME NEW h \in Hash, Receive(h)
      PROVE  IInv'
  <2>1. now' \in Nat /\ now' <= MaxMs
    BY <1>1, NakConstants DEF Receive, IInv, TypeOK
  <2>2. PICK t \in {0, now'} :
          IF should_accept_nak(h, t)
          THEN /\ cache' = Accepted(h, t)
               /\ passed' = [passed EXCEPT ![h] = Append(@, t)]
          ELSE UNCHANGED <<cache, passed>>
    BY <1>1 DEF Receive
  <2>3. t \in Nat /\ t <= MaxMs
    BY <2>1, NakConstants
  <2>4. CASE should_accept_nak(h, t)
    BY <2>1, <2>2, <2>3, <2>4, PassStep
  <2>5. CASE ~should_accept_nak(h, t)
    BY <2>1, <2>2, <2>5 DEF IInv, TypeOK
  <2> QED
    BY <2>4, <2>5
<1>2. CASE UNCHANGED vars
  BY <1>2 DEF vars, IInv, TypeOK
<1> QED
  BY <1>1, <1>2 DEF Next

LEMMA Invariance == Spec => []IInv
  BY InvInit, InvNext, PTL DEF Spec
-----------------------------------------------------------------------------
(***************************************************************************)
(* The filter's cache holds only payloads that were seen, with a time and  *)
(* a count that are natural numbers, and the log of what passed is one of  *)
(* times.                                                                  *)
(***************************************************************************)
THEOREM TypeCorrect == Spec => []TypeOK
<1>1. IInv => TypeOK
  BY DEF IInv
<1> QED
  BY <1>1, Invariance, PTL

(***************************************************************************)
(* A NAK payload reaches the SRT server at most 1 + MAX_REPEATS times,     *)
(* SUPPRESS_MS or more apart, even when the clock fails.                   *)
(***************************************************************************)
THEOREM SpacingCorrect == Spec => []RepeatsSpaced
<1>1. IInv => RepeatsSpaced
  <2> SUFFICES ASSUME IInv, NEW h \in Hash
               PROVE  Len(passed[h]) <= 1 + MAX_REPEATS /\ Spaced(passed[h])
    BY Zenon DEF RepeatsSpaced, Spaced
  <2>1. MAX_REPEATS \in Nat /\ Spaced(passed[h])
    BY NakConstants DEF IInv
  <2>2. CASE h \in DOMAIN cache
    <3>1. cache[h].repeats \in Nat /\ Tracks(cache[h], passed[h])
      BY <2>2 DEF IInv, TypeOK
    <3> QED
      BY <2>1, <3>1 DEF Tracks
  <2>3. CASE h \notin DOMAIN cache
    BY <2>1, <2>3 DEF IInv
  <2> QED
    BY <2>2, <2>3
<1> QED
  BY <1>1, Invariance, PTL

(***************************************************************************)
(* Every step of the filter is one that module Receiver's counter allows:  *)
(* the count of a payload moves by one, and only up to 1 + MAX_REPEATS.    *)
(***************************************************************************)
THEOREM CounterCorrect == Spec => ImplementsCounter
<1> DEFINE A == \A h \in Hash :
                  /\ Count(h)' # Count(h) =>
                       Count(h) <= MAX_REPEATS /\ Count(h)' = Count(h) + 1
                  /\ Receive(h) /\ Count(h) = 0 => Count(h)' = 1
<1>1. IInv /\ [Next]_vars => [A]_vars
  <2> SUFFICES ASSUME IInv, NEW h \in Hash, NEW k \in Hash, Receive(k)
               PROVE  /\ Count(h)' # Count(h) =>
                           Count(h) <= MAX_REPEATS /\ Count(h)' = Count(h) + 1
                      /\ Receive(h) /\ Count(h) = 0 => Count(h)' = 1
    BY DEF Next
  <2>1. /\ DOMAIN cache \subseteq Hash /\ MAX_REPEATS \in Nat
        /\ \A i \in DOMAIN cache : cache[i].repeats \in Nat
    BY NakConstants DEF IInv, TypeOK
  <2>2. ASSUME NEW j \in Hash, NEW t \in Nat, cache' = Accepted(j, t)
        PROVE  Count(h)' = IF h = j THEN Count(h) + 1 ELSE Count(h)
    BY <2>1, <2>2 DEF Accepted, Count
  <2>3. ASSUME NEW j \in Hash, Receive(j)
        PROVE  \/ cache' = cache /\ j \in DOMAIN cache
               \/ \E t \in Nat : should_accept_nak(j, t) /\ cache' = Accepted(j, t)
    <3>1. now' \in Nat
      BY <2>3, NakConstants DEF Receive, IInv, TypeOK
    <3> QED
      BY <2>3, <3>1 DEF Receive, should_accept_nak
  <2>4. Count(h) \in Nat /\ (Count(h) = 0 <=> h \notin DOMAIN cache)
    BY <2>1 DEF Count
  <2>5. ASSUME NEW t \in Nat, should_accept_nak(h, t)
        PROVE  Count(h) <= MAX_REPEATS
    <3>1. CASE h \in DOMAIN cache
      BY <2>1, <2>5, <3>1 DEF should_accept_nak, MayRepeat, Count
    <3>2. CASE h \notin DOMAIN cache
      BY <2>1, <3>2 DEF Count
    <3> QED
      BY <3>1, <3>2
  <2>6. Count(h)' # Count(h) =>
          Count(h) <= MAX_REPEATS /\ Count(h)' = Count(h) + 1
    <3>1. CASE cache' = cache
      BY <3>1 DEF Count
    <3>2. CASE \E t \in Nat : should_accept_nak(k, t) /\ cache' = Accepted(k, t)
      BY <2>2, <2>5, <3>2
    <3> QED
      BY <2>3, <3>1, <3>2
  <2>7. Receive(h) /\ Count(h) = 0 => Count(h)' = 1
    BY <2>2, <2>3, <2>4
  <2> QED
    BY <2>6, <2>7
<1> QED
  BY <1>1, Invariance, PTL DEF Spec, ImplementsCounter
=============================================================================
