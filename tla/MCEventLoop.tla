---------------------------- MODULE MCEventLoop ----------------------------
\* Small instances of the receiver's main loop for TLC.
EXTENDS EventLoop, TLC

CONSTANTS a1, a2, a3, ip1

OneIp == [a \in Addr |-> ip1]

AddrSymmetry == Permutations(Addr)
=============================================================================
