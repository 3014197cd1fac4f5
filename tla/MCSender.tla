------------------------------ MODULE MCSender ------------------------------
(* The instances of Sender that are checked: links are interchangeable. *)
EXTENDS Sender, TLC

LinkSymmetry == Permutations(Link)
=============================================================================
