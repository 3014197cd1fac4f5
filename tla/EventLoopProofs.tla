-------------------------- MODULE EventLoopProofs --------------------------
(***************************************************************************)
(* Proofs about the receiver's main loop, for every number of addresses,   *)
(* groups, events and packets in a batch: what the comparison of the       *)
(* numbers of groups protects against, and that the invariants of module   *)
(* Receiver survive even the events it does not protect against.           *)
(***************************************************************************)
EXTENDS EventLoop, ReceiverProofs

(***************************************************************************)
(* In a batch, the groups and the pending events are among the groupCnt    *)
(* groups the batch began with, as long as no group is registered: if as   *)
(* many groups are left at its end, they are the same ones.                *)
(***************************************************************************)
FromSameGroups ==
  \E S : /\ IsFiniteSet(S) /\ Cardinality(S) = groupCnt
         /\ DOMAIN groups \subseteq S
         /\ events \ {SrtlaEvent} \subseteq S

Pending ==
  /\ \A e \in events : e \in Nat /\ e < nextId
  /\ \A e \in events : e \in DOMAIN groups => groups[e].sock
  /\ batch \in Nat /\ firstId \in Nat /\ firstId <= nextId
  /\ phase = "wait" => batch = 0

Matching ==
  nextId = firstId =>
    IF batch = 0 THEN events \ {SrtlaEvent} \subseteq DOMAIN groups
                 ELSE FromSameGroups

LoopInv == IInv /\ Pending /\ Matching
-----------------------------------------------------------------------------
\* What any handler does to the numbers and the sockets of the groups.
LEMMA EffectOnSockets ==
  ASSUME IInv, Effect
  PROVE  /\ \A g \in DOMAIN groups :
              g \in DOMAIN groups' /\ groups[g].sock => groups'[g].sock
         /\ \/ nextId' = nextId /\ DOMAIN groups' \subseteq DOMAIN groups
            \/ nextId' = nextId + 1 /\ DOMAIN groups' \subseteq DOMAIN groups \cup {nextId}
<1>1. nextId \notin DOMAIN groups
  BY DEF IInv, GroupTable
<1>2. \A room \in Rooms : room \subseteq DOMAIN groups
  BY DEF Rooms
<1>3. CASE Same
  BY <1>3 DEF Same
<1>4. CASE Evicted
  <2>1. PICK room \in Rooms : groups' = [g \in room |-> groups[g]] /\ nextId' = nextId
    BY <1>4 DEF Evicted
  <2> QED
    BY <1>2, <2>1
<1>5. CASE Opened
  <2>1. PICK room \in Rooms :
          \E G : groups' = [g \in room \cup {nextId} |-> IF g = nextId THEN G ELSE groups[g]]
    BY <1>5 DEF Opened
  <2>2. PICK G :
          groups' = [g \in room \cup {nextId} |-> IF g = nextId THEN G ELSE groups[g]]
    BY <2>1
  <2>3. /\ DOMAIN groups' = room \cup {nextId}
        /\ \A g \in DOMAIN groups : g \in DOMAIN groups' => groups'[g] = groups[g]
    BY <1>1, <2>2
  <2> QED
    BY <1>2, <1>5, <2>3, Zenon DEF Opened
<1>6. CASE Cleaned
  BY <1>6, CleanedGroups DEF Cleaned
<1>7. ASSUME NEW g \in DOMAIN groups, NEW H, groups[g].sock => H.sock,
             groups' = [groups EXCEPT ![g] = H], nextId' = nextId
      PROVE  /\ \A h \in DOMAIN groups :
                  h \in DOMAIN groups' /\ groups[h].sock => groups'[h].sock
             /\ nextId' = nextId /\ DOMAIN groups' \subseteq DOMAIN groups
  BY <1>7
<1>8. ASSUME NEW g \in DOMAIN groups, Updated(g)
      PROVE  \E H : /\ groups[g].sock => H.sock
                    /\ groups' = [groups EXCEPT ![g] = H] /\ nextId' = nextId
  BY <1>8, Zenon DEF Updated, SameLinks
<1>9. ASSUME NEW g \in DOMAIN groups, NEW a \in Addr, Entered(a, g)
      PROVE  \E H : /\ groups[g].sock => H.sock
                    /\ groups' = [groups EXCEPT ![g] = H] /\ nextId' = nextId
  BY <1>9, Zenon DEF Entered
<1>10. ASSUME NEW g \in DOMAIN groups, Removed(g)
       PROVE  /\ \A h \in DOMAIN groups :
                   h \in DOMAIN groups' /\ groups[h].sock => groups'[h].sock
              /\ nextId' = nextId /\ DOMAIN groups' \subseteq DOMAIN groups
  BY <1>10 DEF Removed, remove_group
<1> QED
  BY <1>3, <1>4, <1>5, <1>6, <1>7, <1>8, <1>9, <1>10 DEF Effect

(***************************************************************************)
(* A read of the wrong group's socket, behind a dangling pointer, costs    *)
(* that group at most, and keeps the invariant of module Receiver.         *)
(***************************************************************************)
LEMMA WrongGroupStep ==
  ASSUME IInv, NEW g \in DOMAIN groups, NEW kind, handle_srt_data(g, kind)
  PROVE  IInv'
<1>1. phase' = phase /\ ts' = ts /\ lastRun' = lastRun /\ nextId' = nextId
      /\ phase = "events"
  BY DEF handle_srt_data, InRound
<1>2. CASE groups[g].sock
  BY <1>1, <1>2, ServerStep DEF IInv, Times
<1>3. CASE ~groups[g].sock
  <2>1. groups' = remove_group(g) /\ UNCHANGED <<entries, clock>>
    BY <1>3 DEF handle_srt_data, FailedAuth
  <2>2. GroupTable'
    BY <1>1, <2>1, RemoveStep DEF remove_group, IInv
  <2> QED
    BY <1>1, <2>1, <2>2 DEF IInv, Entries, Times
<1> QED
  BY <1>2, <1>3
-----------------------------------------------------------------------------
\* Events are never added by a handler, and none is about a future group.
LEMMA PendingKept ==
  ASSUME LoopInv, Effect, events' \subseteq events, firstId' = firstId,
         batch' \in Nat, phase' = "wait" => batch' = 0
  PROVE  Pending'
<1>1. /\ nextId \in Nat \ {0} /\ firstId \in Nat /\ firstId <= nextId
      /\ \A e \in events : e \in Nat /\ e < nextId
  BY DEF LoopInv, Pending, IInv, GroupTable
<1>2. nextId' \in {nextId, nextId + 1} /\ DOMAIN groups' \subseteq DOMAIN groups \cup {nextId}
  BY EffectOnSockets DEF LoopInv
<1>3. (\A e \in events' : e \in Nat /\ e < nextId') /\ firstId <= nextId'
  BY <1>1, <1>2
<1>4. ASSUME NEW e \in events', e \in DOMAIN groups'
      PROVE  groups'[e].sock
  <2>1. e \in events /\ e # nextId
    BY <1>1, <1>4
  <2>2. e \in DOMAIN groups /\ groups[e].sock
    BY <1>2, <1>4, <2>1 DEF LoopInv, Pending
  <2> QED
    BY <1>4, <2>2, EffectOnSockets DEF LoopInv
<1> QED
  BY <1>1, <1>3, <1>4 DEF Pending

\* At the end of a batch, the same number of groups means the same groups.
LEMMA BatchEnds ==
  ASSUME NEW E, NEW D, NEW S, IsFiniteSet(S), D \subseteq S, E \ {SrtlaEvent} \subseteq S
  PROVE  Remaining(E, Cardinality(S), Cardinality(D)) \ {SrtlaEvent} \subseteq D
<1>1. /\ Cardinality(D) \in Nat /\ Cardinality(S) \in Nat
      /\ Cardinality(D) <= Cardinality(S)
      /\ Cardinality(D) = Cardinality(S) => D = S
  BY FS_Subset, FS_CardinalityType
<1>2. CASE Cardinality(D) < Cardinality(S)
  BY <1>2 DEF Remaining
<1>3. CASE D = S
  BY <1>3 DEF Remaining
<1> QED
  BY <1>1, <1>2, <1>3

LEMMA RemainingIsPending ==
  \A E, m, n : Remaining(E, m, n) \subseteq E
BY DEF Remaining
-----------------------------------------------------------------------------
LEMMA PacketsKeep ==
  ASSUME LoopInv, OnePacket
  PROVE  LoopInv'
<1>1. Next
  BY DEF OnePacket, Next
<1>2. IInv' /\ Effect
  BY <1>1, InvNext, NextEffect DEF LoopInv
<1>3. /\ batch \in Nat /\ batch > 0 /\ batch' = batch - 1
      /\ groupCnt' = groupCnt /\ firstId' = firstId
      /\ firstId \in Nat /\ firstId <= nextId /\ nextId \in Nat
  BY DEF OnePacket, LoopInv, Pending, IInv, GroupTable
<1>4. events' \subseteq events
  BY RemainingIsPending DEF OnePacket
<1>5. phase' = "events"
  BY DEF OnePacket, register_group, register_connection, process_single_packet, InRound
<1>6. Pending'
  BY <1>2, <1>3, <1>4, <1>5, PendingKept
<1>7. ASSUME nextId' = firstId'
      PROVE  IF batch' = 0 THEN events' \ {SrtlaEvent} \subseteq DOMAIN groups'
                           ELSE FromSameGroups'
  <2>1. nextId' = nextId /\ nextId = firstId /\ DOMAIN groups' \subseteq DOMAIN groups
    BY <1>2, <1>3, <1>7, EffectOnSockets DEF LoopInv
  <2>2. FromSameGroups
    BY <1>3, <2>1 DEF LoopInv, Matching
  <2>3. PICK S : /\ IsFiniteSet(S) /\ Cardinality(S) = groupCnt
                 /\ DOMAIN groups \subseteq S
                 /\ events \ {SrtlaEvent} \subseteq S
    BY <2>2 DEF FromSameGroups
  <2>4. CASE batch' = 0
    <3>1. events' = Remaining(events, Cardinality(S), Cardinality(DOMAIN groups'))
      BY <2>3, <2>4 DEF OnePacket
    <3> QED
      BY <2>1, <2>3, <2>4, <3>1, BatchEnds
  <2>5. CASE batch' # 0
    BY <1>3, <1>4, <2>1, <2>3, <2>5 DEF FromSameGroups
  <2> QED
    BY <2>4, <2>5
<1> QED
  BY <1>2, <1>6, <1>7 DEF LoopInv, Matching

LEMMA EndPacketsKeeps ==
  ASSUME LoopInv, EndPackets
  PROVE  LoopInv'
<1>1. UNCHANGED vars /\ batch' = 0 /\ groupCnt' = groupCnt /\ firstId' = firstId
  BY DEF EndPackets
<1>2. IInv' /\ Effect
  BY <1>1, InvNext, NextEffect DEF LoopInv
<1>3. Pending'
  BY <1>1, <1>2, PendingKept, RemainingIsPending DEF EndPackets
<1>4. ASSUME nextId' = firstId'
      PROVE  events' \ {SrtlaEvent} \subseteq DOMAIN groups'
  <2>1. FromSameGroups
    BY <1>1, <1>4 DEF vars, LoopInv, Matching, Pending, EndPackets
  <2>2. PICK S : /\ IsFiniteSet(S) /\ Cardinality(S) = groupCnt
                 /\ DOMAIN groups \subseteq S
                 /\ events \ {SrtlaEvent} \subseteq S
    BY <2>1 DEF FromSameGroups
  <2>3. events' = Remaining(events, Cardinality(S), Cardinality(DOMAIN groups))
    BY <2>2 DEF EndPackets
  <2> QED
    BY <1>1, <2>2, <2>3, BatchEnds DEF vars
<1> QED
  BY <1>1, <1>2, <1>3, <1>4 DEF LoopInv, Matching

LEMMA ServerEventKeeps ==
  ASSUME LoopInv, ServerEvent
  PROVE  LoopInv'
<1>1. PICK e \in events \ {SrtlaEvent} :
        \/ /\ \E g \in Resolved(e), kind \in ServerPackets : handle_srt_data(g, kind)
           /\ events' = Remaining(events \ {e}, groupCnt', Cardinality(DOMAIN groups'))
        \/ /\ e \notin DOMAIN groups
           /\ events' = events \ {e}
           /\ UNCHANGED vars
  BY DEF ServerEvent
<1>2. /\ batch' = batch /\ batch = 0 /\ firstId' = firstId
      /\ events' \subseteq events \ {e} /\ IInv
  BY <1>1, RemainingIsPending DEF ServerEvent, BetweenEvents, LoopInv
<1>3. CASE /\ \E g \in Resolved(e), kind \in ServerPackets : handle_srt_data(g, kind)
           /\ events' = Remaining(events \ {e}, groupCnt', Cardinality(DOMAIN groups'))
  <2>1. PICK g \in Resolved(e) : \E kind \in ServerPackets : handle_srt_data(g, kind)
    BY <1>3
  <2>2. PICK kind \in ServerPackets : handle_srt_data(g, kind)
    BY <2>1
  <2>3. g \in DOMAIN groups /\ (e \in DOMAIN groups => g = e)
    BY <2>1 DEF Resolved
  <2>4. IInv' /\ (Same \/ Removed(g) \/ Updated(g))
    BY <1>2, <2>2, <2>3, WrongGroupStep, ServerEffect
  <2>5. Effect
    BY <2>3, <2>4 DEF Effect
  <2>6. Pending'
    BY <1>2, <2>5, PendingKept
  <2>7. ASSUME nextId' = firstId'
        PROVE  events' \ {SrtlaEvent} \subseteq DOMAIN groups'
    <3>1. nextId' = nextId /\ DOMAIN groups \ {g} \subseteq DOMAIN groups'
      BY <2>4 DEF Same, Removed, Updated, remove_group
    <3>2. events \ {SrtlaEvent} \subseteq DOMAIN groups
      BY <1>2, <2>7, <3>1 DEF LoopInv, Matching
    <3> QED
      BY <1>2, <2>3, <3>1, <3>2
  <2> QED
    BY <1>2, <2>4, <2>6, <2>7 DEF LoopInv, Matching
<1>4. CASE e \notin DOMAIN groups /\ events' = events \ {e} /\ UNCHANGED vars
  <2>1. IInv' /\ Effect
    BY <1>2, <1>4, InvNext, NextEffect
  <2>2. Pending'
    BY <1>2, <2>1, PendingKept
  <2>3. nextId' = nextId /\ groups' = groups
    BY <1>4 DEF vars
  <2> QED
    BY <1>2, <2>1, <2>2, <2>3 DEF LoopInv, Matching
<1> QED
  BY <1>1, <1>3, <1>4

LEMMA RoundKeeps ==
  ASSUME LoopInv, Wait \/ StartPackets \/ LoopEnd
  PROVE  LoopInv'
<1>1. CASE Wait
  <2>1. EpollWait /\ UNCHANGED <<groups, nextId>> /\ phase' = "events" /\ phase = "wait"
    BY <1>1 DEF Wait, EpollWait
  <2>2. IInv' /\ nextId \in Nat \ {0} /\ DOMAIN groups \subseteq 1 .. nextId - 1
    BY <2>1, InvNext DEF Next, LoopInv, IInv, GroupTable
  <2>3. /\ events' \subseteq {0} \cup Sockets
        /\ firstId' = nextId /\ batch' = 0
    BY <1>1, <2>1 DEF Wait, SrtlaEvent, LoopInv, Pending
  <2>4. \A e \in events' : e \in Nat /\ e < nextId
    <3>1. \A g \in DOMAIN groups : g \in Nat /\ g < nextId
      BY <2>2
    <3> QED
      BY <2>2, <2>3, <3>1 DEF Sockets
  <2>5. Pending'
    BY <2>1, <2>2, <2>3, <2>4 DEF Pending, Sockets
  <2>6. Matching'
    BY <2>1, <2>3 DEF Matching, Sockets, SrtlaEvent
  <2> QED
    BY <2>2, <2>5, <2>6 DEF LoopInv
<1>2. CASE StartPackets
  <2>1. /\ UNCHANGED vars /\ firstId' = firstId /\ events' = events \ {SrtlaEvent}
        /\ groupCnt' = Cardinality(DOMAIN groups) /\ batch' \in {0, RECV_BATCH_SIZE}
        /\ batch = 0 /\ phase = "events"
    BY <1>2 DEF StartPackets, BetweenEvents
  <2>2. IInv' /\ Effect
    BY <2>1, InvNext, NextEffect DEF LoopInv
  <2>3. groups' = groups /\ nextId' = nextId /\ phase' = phase
    BY <2>1 DEF vars
  <2>4. batch' \in Nat
    BY <2>1, EventLoopConstants
  <2>5. Pending'
    BY <2>1, <2>2, <2>3, <2>4, PendingKept
  <2>6. ASSUME nextId' = firstId'
        PROVE  events' \ {SrtlaEvent} \subseteq DOMAIN groups' /\ FromSameGroups'
    <3>1. events' \ {SrtlaEvent} \subseteq DOMAIN groups'
      BY <2>1, <2>3, <2>6 DEF LoopInv, Matching
    <3>2. IsFiniteSet(DOMAIN groups') /\ Cardinality(DOMAIN groups') = groupCnt'
      BY <2>1, <2>3 DEF LoopInv, IInv, GroupTable
    <3> QED
      BY <3>1, <3>2 DEF FromSameGroups
  <2> QED
    BY <2>2, <2>5, <2>6 DEF LoopInv, Matching
<1>3. CASE LoopEnd
  <2>1. EndRound /\ UNCHANGED loopVars /\ events = {} /\ batch = 0
    BY <1>3 DEF LoopEnd, BetweenEvents
  <2>2. IInv' /\ Effect
    BY <2>1, InvNext, NextEffect DEF Next, LoopInv
  <2>3. events' = {} /\ batch' = 0 /\ firstId' = firstId
    BY <2>1 DEF loopVars
  <2>4. Pending'
    BY <2>2, <2>3, PendingKept
  <2> QED
    BY <2>2, <2>3, <2>4 DEF LoopInv, Matching
<1> QED
  BY <1>1, <1>2, <1>3

LEMMA LoopInvariance == LoopSpec => []LoopInv
<1>1. LoopInit => LoopInv
  <2> SUFFICES ASSUME LoopInit PROVE LoopInv
    OBVIOUS
  <2>1. IInv /\ nextId = 1 /\ events = {} /\ batch = 0 /\ firstId = 1
    BY InvInit DEF LoopInit, Init
  <2> QED
    BY <2>1 DEF LoopInv, Pending, Matching
<1>2. LoopInv /\ [LoopNext]_allVars => LoopInv'
  <2> SUFFICES ASSUME LoopInv, [LoopNext]_allVars PROVE LoopInv'
    OBVIOUS
  <2>1. CASE LoopNext
    BY <2>1, PacketsKeep, EndPacketsKeeps, ServerEventKeeps, RoundKeeps DEF LoopNext
  <2>2. CASE UNCHANGED allVars
    <3>1. UNCHANGED vars /\ UNCHANGED loopVars
      BY <2>2 DEF allVars
    <3>2. IInv'
      BY <3>1, InvNext DEF LoopInv
    <3>3. Pending' /\ Matching'
      BY <3>1 DEF vars, loopVars, LoopInv, Pending, Matching, FromSameGroups
    <3> QED
      BY <3>2, <3>3 DEF LoopInv
  <2> QED
    BY <2>1, <2>2
<1> QED
  BY <1>1, <1>2, PTL DEF LoopSpec
-----------------------------------------------------------------------------
(***************************************************************************)
(* A round that registers no group follows no dangling pointer: the        *)
(* comparison of the numbers of groups after each event suffices then,     *)
(* because groups can only have been lost.                                 *)
(***************************************************************************)
THEOREM BreakSuffices == LoopSpec => []DanglesOnlyAfterReplacement
<1>1. LoopInv => DanglesOnlyAfterReplacement
  BY DEF LoopInv, Matching, DanglesOnlyAfterReplacement, BetweenEvents
<1> QED
  BY <1>1, LoopInvariance, PTL

(***************************************************************************)
(* An eviction by register_group, which the comparison cannot see, takes a *)
(* group no pending event points to.                                       *)
(***************************************************************************)
THEOREM EvictionIsSafe == LoopSpec => []EvictionNeverDangles
<1>1. LoopInv => EvictionNeverDangles
  <2> SUFFICES ASSUME LoopInv, NEW e \in events, e \in Ghosts
               PROVE  FALSE
    BY DEF EvictionNeverDangles
  <2>1. e \in DOMAIN groups /\ ~groups[e].dataSeen
    BY DEF Ghosts
  <2>2. groups[e].sock
    BY <2>1 DEF LoopInv, Pending
  <2> QED
    BY <2>1, <2>2 DEF LoopInv, IInv, GroupTable, GoodGroup
<1> QED
  BY <1>1, LoopInvariance, PTL

(***************************************************************************)
(* Every step of the loop is a step of module Receiver, or follows a       *)
(* dangling pointer.                                                       *)
(***************************************************************************)
THEOREM LoopImplements == LoopSpec => ImplementsReceiver
<1>1. ASSUME LoopInv, [LoopNext]_allVars
      PROVE  [Next \/ ~(events \ {SrtlaEvent} \subseteq DOMAIN groups)]_vars
  <2>1. CASE UNCHANGED allVars
    BY <2>1 DEF allVars
  <2>2. CASE StartPackets \/ EndPackets
    BY <2>2 DEF StartPackets, EndPackets
  <2>3. CASE Wait \/ LoopEnd
    BY <2>3 DEF Wait, LoopEnd, Next
  <2>4. CASE OnePacket
    BY <2>4 DEF OnePacket, Next
  <2>5. ASSUME ServerEvent, events \ {SrtlaEvent} \subseteq DOMAIN groups
        PROVE  Next
    <3>1. PICK e \in events \ {SrtlaEvent} :
            \/ \E g \in Resolved(e), kind \in ServerPackets : handle_srt_data(g, kind)
            \/ e \notin DOMAIN groups
      BY <2>5 DEF ServerEvent
    <3>2. e \in DOMAIN groups /\ groups[e].sock
      BY <1>1, <2>5 DEF LoopInv, Pending
    <3>3. \E kind \in ServerPackets : handle_srt_data(e, kind)
      BY <3>1, <3>2 DEF Resolved
    <3> QED
      BY <3>2, <3>3 DEF Next
  <2> QED
    BY <1>1, <2>1, <2>2, <2>3, <2>4, <2>5 DEF LoopNext
<1> QED
  BY <1>1, LoopInvariance, PTL DEF LoopSpec, ImplementsReceiver

(***************************************************************************)
(* The invariants of module Receiver hold of the loop whatever pointers it *)
(* follows: an event read for the wrong group may cost that group, but not *)
(* the table's limits, its unambiguous lookups, the info files or the      *)
(* bounds of the logs and the timeouts.                                    *)
(***************************************************************************)
THEOREM LoopStaysSafe ==
  LoopSpec => [](/\ TypeOK /\ LookupUnambiguous /\ WithinLimits
                 /\ GhostsHaveNoSocket /\ InfoFileCurrent /\ RecvLogBounded)
<1>1. LoopInv => /\ TypeOK /\ LookupUnambiguous /\ WithinLimits
                 /\ GhostsHaveNoSocket /\ InfoFileCurrent /\ RecvLogBounded
  <2> SUFFICES ASSUME IInv
               PROVE  /\ TypeOK /\ LookupUnambiguous /\ WithinLimits
                      /\ GhostsHaveNoSocket /\ InfoFileCurrent /\ RecvLogBounded
    BY DEF LoopInv
  <2>1. TypeOK
    BY DEF IInv, GroupTable, GoodGroup, Times, Entries, TypeOK
  <2>2. LookupUnambiguous
    BY DEF IInv, GroupTable, Exclusive, GoodGroup, DistinctLinks, LookupUnambiguous
  <2>3. WithinLimits /\ GhostsHaveNoSocket
    BY DEF IInv, GroupTable, GoodGroup, WithinLimits, GhostsHaveNoSocket
  <2>4. InfoFileCurrent /\ RecvLogBounded
    BY DEF IInv, GroupTable, GoodGroup, InfoFileCurrent, RecvLogBounded
  <2> QED
    BY <2>1, <2>2, <2>3, <2>4
<1> QED
  BY <1>1, LoopInvariance, PTL
=============================================================================
