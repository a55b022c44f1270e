--------------------------- MODULE MCSubscribers ----------------------------
EXTENDS Subscribers

\* As in the code: the reporter first, then the others, and the priority 0 that
\* nobody uses.
CONSTANTS reporter, sni

Priorities == [o \in Owners |-> IF o = reporter THEN 1 ELSE 2]

=============================================================================
