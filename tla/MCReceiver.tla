----------------------------- MODULE MCReceiver -----------------------------
\* Small instances of the receiver for TLC.
EXTENDS Receiver, TLC

CONSTANTS a1, a2, a3, ip1

\* All links come from one IP.
OneIp == [a \in Addr |-> ip1]

\* Addresses behind one IP are interchangeable.
AddrSymmetry == Permutations(Addr)
=============================================================================
