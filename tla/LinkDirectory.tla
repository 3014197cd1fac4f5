--------------------------- MODULE LinkDirectory ---------------------------
(***************************************************************************)
(* What srtla_rec promises its clients about bonds: an abstraction of the  *)
(* receiver without packets, timers, sockets and the SRT server.           *)
(*                                                                         *)
(* A bond is opened under an id that is never used again, and a link joins *)
(* one bond at most.  A bond that has links is closed as a whole, or after *)
(* each of its links fell silent; never to make room for another.          *)
(***************************************************************************)
EXTENDS Naturals, FiniteSets

CONSTANTS Link, MaxBonds, MaxLinks

VARIABLES
  open,     \* the ids of the open bonds
  member,   \* pairs of a link and its bond
  issued,   \* how many ids were ever issued: 1 .. issued
  silent    \* the links that were not heard for too long, changing freely

directory == <<open, member, issued>>

Init == open = {} /\ member = {} /\ issued = 0

LinksOf(g) == {m \in member : m[2] = g}

\* The open bonds after making room for another: one empty bond may go.
MakesRoom(left) ==
  IF Cardinality(open) >= MaxBonds
  THEN \E g \in open : LinksOf(g) = {} /\ left = open \ {g}
  ELSE left = open

Open ==
  /\ \E left \in SUBSET open : MakesRoom(left) /\ open' = left \cup {issued + 1}
  /\ issued' = issued + 1
  /\ UNCHANGED member

Join(l, g) ==
  /\ \A m \in member : m[1] # l
  /\ ~(Cardinality(LinksOf(g)) >= MaxLinks)
  /\ member' = member \cup {<<l, g>>}
  /\ UNCHANGED <<open, issued>>

\* A bond is closed with its links.
Close(g) ==
  /\ open' = open \ {g}
  /\ member' = member \ LinksOf(g)
  /\ UNCHANGED issued

\* Silent links leave, and bonds without links are closed.
Sweep ==
  /\ open' \subseteq open
  /\ member' \subseteq member
  /\ \A m \in member \ member' : m[1] \in silent
  /\ \A m \in member' : m[2] \in open'
  /\ UNCHANGED issued

Next ==
  \/ Sweep
  \/ Open
  \/ \E g \in open : Close(g) \/ \E l \in Link : Join(l, g)

Spec == Init /\ [][Next]_directory
=============================================================================
