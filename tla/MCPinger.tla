------------------------------ MODULE MCPinger ------------------------------
(***************************************************************************)
(* Pinger with two interfaces, of which the second may have no address at  *)
(* first, and with sequence numbers that are about to come round.  Either  *)
(* there are pings to send and one trouble to meet, or no pings and all    *)
(* troubles.                                                               *)
(***************************************************************************)
EXTENDS Pinger

CONSTANTS wan1, wan2

MCInit ==
    /\ PingerInit
    /\ addr[wan1] = 0
    /\ sequenceCounter = Seqs - 2
    /\ \/ sent = 0 /\ changes = MaxTroubles - 1
       \/ sent = MaxPings /\ changes = 0

MCFairSpec == MCInit /\ [][PingerNext]_pingerVars /\ Fairness

=============================================================================
