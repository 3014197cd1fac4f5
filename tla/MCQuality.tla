----------------------------- MODULE MCQuality -----------------------------
\* Small instances of the quality evaluation for TLC.
EXTENDS Quality

\* A link that is slow and congested and reports NAKs.
Congested == [rtt |-> 300, window |-> 8, inFlight |-> 8, nakCount |-> 3]

OneInfo == {Congested}
=============================================================================
