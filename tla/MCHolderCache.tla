--------------------------- MODULE MCHolderCache ----------------------------
EXTENDS HolderCache, TLC

CONSTANTS p1, p2, p3, p4, k1, k2, localMutex

\* certfetch: one mutex for all packets, two servers.
ServerOf == [p \in Packets |-> IF p = p4 THEN k2 ELSE k1]

LocalMutex == [p \in Packets |-> localMutex]

=============================================================================
