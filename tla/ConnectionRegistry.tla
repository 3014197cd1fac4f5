------------------------- MODULE ConnectionRegistry -------------------------
(***************************************************************************)
(* The receiver's table of groups and their connections: the classes       *)
(* Connection, ConnectionGroup and ConnectionRegistry of src/connection.   *)
(*                                                                         *)
(* A group is named by a number, its position in the order of              *)
(* registration.  It stands for the 256-byte group id (whose random half   *)
(* is never drawn twice) and for the address of the C++ object.            *)
(* push_back and erase keep the vector groups_ in that order, so "the      *)
(* first group in the vector that ..." is the least number that ...        *)
(***************************************************************************)
EXTENDS Integers, FiniteSets, Sequences

CONSTANTS
  Addr,                     \* source addresses (IP and port) of client links
  Sn,                       \* SRT sequence numbers
  Hash,                     \* hashes of NAK payloads
  MAX_CONNS_PER_GROUP, MAX_GROUPS,
  CLEANUP_PERIOD, GROUP_TIMEOUT, PENDING_GROUP_TIMEOUT, CONN_TIMEOUT,
  RECOVERY_CHANCE_PERIOD, RECV_ACK_INT

ASSUME RegistryConstants ==
  /\ {MAX_CONNS_PER_GROUP, MAX_GROUPS, RECV_ACK_INT} \subseteq Nat \ {0}
  /\ {CLEANUP_PERIOD, GROUP_TIMEOUT, PENDING_GROUP_TIMEOUT, CONN_TIMEOUT,
      RECOVERY_CHANCE_PERIOD} \subseteq Nat \ {0}
  /\ PENDING_GROUP_TIMEOUT <= GROUP_TIMEOUT

VARIABLES
  groups,       \* the registered groups: number -> ConnectionGroup
  nextId,       \* the number the next group gets
  lastRun       \* when cleanup_inactive last did its work

registryVars == <<groups, nextId, lastRun>>
-----------------------------------------------------------------------------
(***************************************************************************)
(* A connection.  recv is the filled part of recv_log_ (recv_idx_ is its   *)
(* length): the sequence numbers not yet acknowledged by an SRTLA ACK.     *)
(* recStart is recovery_start_, 0 when the connection is not recovering.   *)
(***************************************************************************)
Connection ==
  [addr : Addr, lastRcvd : Nat, recStart : Nat, recv : Seq(Sn)]

\* A mutant of NewConnection: it starts out as old as one that timed out.
NewConnection_aged(a, t) ==
  [addr |-> a, lastRcvd |-> t - CONN_TIMEOUT, recStart |-> 0, recv |-> <<>>]

NewConnection(a, t) ==
  [addr |-> a, lastRcvd |-> t, recStart |-> 0, recv |-> <<>>]

(***************************************************************************)
(* A group.  sock says that it has a socket to the SRT server, info is     *)
(* what its socket info file lists (nothing without a socket), and naks    *)
(* counts how often each NAK payload was let through.                      *)
(***************************************************************************)
ConnectionGroup ==
  [conns : SUBSET Connection, created : Nat, dataSeen : BOOLEAN,
   established : BOOLEAN, sock : BOOLEAN, lastAddr : Addr,
   info : SUBSET Addr, naks : [Hash -> Nat]]

NewGroup(a, t) ==
  [conns |-> {}, created |-> t, dataSeen |-> FALSE, established |-> FALSE,
   sock |-> FALSE, lastAddr |-> a, info |-> {}, naks |-> [h \in Hash |-> 0]]

get_client_addresses(G) == {c.addr : c \in G.conns}

\* A group without a socket has no info file.
write_socket_info_file(G) ==
  [G EXCEPT !.info = IF G.sock THEN get_client_addresses(G) ELSE {}]
-----------------------------------------------------------------------------
\* g is the first group of S in the vector.
IsFirst(g, S) == g \in S /\ \A h \in S : g <= h

(***************************************************************************)
(* A group answers for an address when one of its connections has it or    *)
(* when it is the group's last_address.  find_by_address returns the first *)
(* group that does (with its connection, if it is a connection's address). *)
(***************************************************************************)
Claims(G, a) == a \in get_client_addresses(G) \/ G.lastAddr = a

Claimants(a) == {g \in DOMAIN groups : Claims(groups[g], a)}

find_by_address(a, g) == IsFirst(g, Claimants(a))

remove_group(g) == [h \in DOMAIN groups \ {g} |-> groups[h]]

(***************************************************************************)
(* Ghosts are the groups that registered, have no connection and carried   *)
(* no data.  evict_oldest_pending_group takes the oldest, the first in the *)
(* vector among those of the same second.  Two mutants come first: one     *)
(* that forgets the connections, and one that forgets the data.            *)
(***************************************************************************)
Ghosts_connected == {g \in DOMAIN groups : ~groups[g].dataSeen}

Ghosts_streamed == {g \in DOMAIN groups : groups[g].conns = {}}

Ghosts == {g \in DOMAIN groups : groups[g].conns = {} /\ ~groups[g].dataSeen}

IsOldestGhost(g) ==
  /\ g \in Ghosts
  /\ \A h \in Ghosts : \/ groups[g].created < groups[h].created
                       \/ groups[g].created = groups[h].created /\ g <= h
-----------------------------------------------------------------------------
conn_timed_out(c, t) == c.lastRcvd + CONN_TIMEOUT < t

(***************************************************************************)
(* cleanup_inactive on one connection that stays: recovery is over once    *)
(* RECOVERY_CHANCE_PERIOD has passed.  It "completed" if the connection    *)
(* was heard after it began and "failed" if not; both branches test the    *)
(* same time and clear recovery_start_, only their counters differ.  The   *)
(* mutant lacks the second branch.                                         *)
(***************************************************************************)
RecoveryOver_completedOnly(c, t) ==
  /\ c.recStart > 0 /\ c.recStart + RECOVERY_CHANCE_PERIOD < t
  /\ c.lastRcvd > c.recStart

RecoveryOver(c, t) ==
  c.recStart > 0 /\ c.recStart + RECOVERY_CHANCE_PERIOD < t

SettleRecovery(c, t) ==
  IF RecoveryOver(c, t) THEN [c EXCEPT !.recStart = 0] ELSE c

\* A mutant of CleanGroup: the info file is not rewritten.
CleanGroup_staleFile(G, t) ==
  [G EXCEPT !.conns = {SettleRecovery(c, t) : c \in {d \in @ : ~conn_timed_out(d, t)}}]

\* cleanup_inactive on the connections of one group.
CleanGroup(G, t) ==
  LET alive == {c \in G.conns : ~conn_timed_out(c, t)}
      clean == [G EXCEPT !.conns = {SettleRecovery(c, t) : c \in alive}]
  IN  IF alive = G.conns THEN clean ELSE write_socket_info_file(clean)

\* A mutant of Reapable: only groups that streamed are removed.
Reapable_streamed(G, t) ==
  G.conns = {} /\ G.dataSeen /\ G.created + GROUP_TIMEOUT < t

\* Another: groups are removed with the connections they have.
Reapable_connected(G, t) ==
  G.created + (IF G.dataSeen THEN GROUP_TIMEOUT ELSE PENDING_GROUP_TIMEOUT) < t

\* An empty group is removed when it is old enough.
Reapable(G, t) ==
  /\ G.conns = {}
  /\ G.created + (IF G.dataSeen THEN GROUP_TIMEOUT
                                ELSE PENDING_GROUP_TIMEOUT) < t

CleanGroups(t) ==
  LET clean == [g \in DOMAIN groups |-> CleanGroup(groups[g], t)]
  IN  [g \in {h \in DOMAIN groups : ~Reapable(clean[h], t)} |-> clean[g]]

cleanup_inactive(t) ==
  /\ nextId' = nextId
  /\ IF lastRun + CLEANUP_PERIOD > t
     THEN UNCHANGED <<groups, lastRun>>
     ELSE lastRun' = t /\ groups' = CleanGroups(t)
=============================================================================
