----------------------------- MODULE EventLoop -----------------------------
(***************************************************************************)
(* The main loop of srtla_rec around the handlers of module Receiver       *)
(* (receiver_main.cpp).  epoll_wait fills an array of events; an event of  *)
(* the SRTLA socket is handled by one recvmmsg of up to RECV_BATCH_SIZE    *)
(* packets, an event of a group's SRT socket by reading one packet.  The   *)
(* data of the latter event is the raw address of the ConnectionGroup,     *)
(* here the group's number.                                                *)
(***************************************************************************)
EXTENDS Receiver

CONSTANTS RECV_BATCH_SIZE, MAX_EPOLL_EVENTS

ASSUME EventLoopConstants ==
  {RECV_BATCH_SIZE, MAX_EPOLL_EVENTS} \subseteq Nat \ {0}

VARIABLES
  events,       \* the events of the array not yet taken
  batch,        \* packets process_packets may still handle, 0 outside it
  groupCnt,     \* group_cnt, taken when the event was
  firstId       \* nextId when the round began, for the properties

loopVars == <<events, batch, groupCnt, firstId>>
allVars == <<vars, loopVars>>

\* The event of the SRTLA socket (its data.ptr is null).
SrtlaEvent == 0

Sockets == {g \in DOMAIN groups : groups[g].sock}

LoopInit ==
  /\ Init
  /\ events = {} /\ batch = 0 /\ groupCnt = 0 /\ firstId = 1

\* epoll_wait returns some of the ready descriptors, in any order.
Wait ==
  /\ EpollWait
  /\ events' \in SUBSET ({SrtlaEvent} \cup Sockets)
  /\ Cardinality(events') <= MAX_EPOLL_EVENTS
  /\ firstId' = nextId
  /\ UNCHANGED <<batch, groupCnt>>

\* No handler is running.
BetweenEvents == phase = "events" /\ batch = 0

(***************************************************************************)
(* The end of one iteration: when there are fewer groups than the          *)
(* iteration began with, the other events are dropped (never, in the       *)
(* mutant).                                                                *)
(***************************************************************************)
Remaining_all(pending, before, after) == pending

Remaining(pending, before, after) ==
  IF after < before THEN {} ELSE pending
-----------------------------------------------------------------------------
\* process_packets: recvmmsg returned packets, or none.
StartPackets ==
  /\ BetweenEvents
  /\ SrtlaEvent \in events
  /\ events' = events \ {SrtlaEvent}
  /\ groupCnt' = Cardinality(DOMAIN groups)
  /\ batch' \in {0, RECV_BATCH_SIZE}
  /\ UNCHANGED <<vars, firstId>>

OnePacket ==
  /\ batch > 0
  /\ \E a \in Addr :
       \/ \E reply \in Replies : register_group(a, reply)
       \/ \E id \in 1 .. nextId, reply \in Replies :
            register_connection(a, id, reply)
       \/ process_single_packet(a)
  /\ batch' = batch - 1
  /\ events' = IF batch' > 0 THEN events
               ELSE Remaining(events, groupCnt, Cardinality(DOMAIN groups'))
  /\ UNCHANGED <<groupCnt, firstId>>

\* recvmmsg returned fewer packets than fit, or the rest were dropped.
EndPackets ==
  /\ batch > 0
  /\ batch' = 0
  /\ events' = Remaining(events, groupCnt, Cardinality(DOMAIN groups))
  /\ UNCHANGED <<vars, groupCnt, firstId>>

(***************************************************************************)
(* An event of a group's socket: the registry is searched for the id found *)
(* behind the pointer.  Behind a dangling pointer there may be any id, the *)
(* one of a group that reuses the memory included.                         *)
(***************************************************************************)
Resolved(g) == IF g \in DOMAIN groups THEN {g} ELSE DOMAIN groups

ServerEvent ==
  /\ BetweenEvents
  /\ \E e \in events \ {SrtlaEvent} :
       /\ groupCnt' = Cardinality(DOMAIN groups)
       /\ \/ /\ \E g \in Resolved(e), kind \in ServerPackets :
                  handle_srt_data(g, kind)
             /\ events' = Remaining(events \ {e}, groupCnt',
                                    Cardinality(DOMAIN groups'))
          \/ /\ e \notin DOMAIN groups
             /\ events' = events \ {e}
             /\ UNCHANGED vars
  /\ UNCHANGED <<batch, firstId>>

\* A mutant of LoopEnd: the loop goes back to epoll_wait without cleaning up.
LoopEnd_skipsCleanup ==
  /\ BetweenEvents
  /\ events = {}
  /\ phase' = "wait"
  /\ UNCHANGED <<groups, nextId, lastRun, entries, ts, clock, loopVars>>

LoopEnd ==
  /\ BetweenEvents
  /\ events = {}
  /\ EndRound
  /\ UNCHANGED loopVars

LoopNext ==
  \/ Wait \/ StartPackets \/ OnePacket \/ EndPackets \/ ServerEvent \/ LoopEnd

LoopSpec == LoopInit /\ [][LoopNext]_allVars

-----------------------------------------------------------------------------
(***************************************************************************)
(* What the comment in the loop claims for its early break: when the next  *)
(* event is taken, the group its pointer names still exists.               *)
(***************************************************************************)
EventsLive ==
  BetweenEvents => events \ {SrtlaEvent} \subseteq DOMAIN groups

(***************************************************************************)
(* What the break does achieve: a pending event dangles only if the same   *)
(* round also registered a new group, which hides the loss of the old one  *)
(* from the comparison of the counts.                                      *)
(***************************************************************************)
DanglesOnlyAfterReplacement ==
  BetweenEvents /\ nextId = firstId => events \ {SrtlaEvent} \subseteq DOMAIN groups

(***************************************************************************)
(* No event is pending for a ghost: an eviction, which also adds a group   *)
(* and so escapes the comparison of the counts, leaves no event dangling.  *)
(***************************************************************************)
EvictionNeverDangles == events \cap Ghosts = {}

(***************************************************************************)
(* Whatever the order and the batches, every step of the loop is a step of *)
(* module Receiver, which leaves the order free, unless it follows a       *)
(* dangling pointer: the properties of that module hold of the loop.       *)
(***************************************************************************)
ImplementsReceiver ==
  [][Next \/ ~(events \ {SrtlaEvent} \subseteq DOMAIN groups)]_vars
=============================================================================
