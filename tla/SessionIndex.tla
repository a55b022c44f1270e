---------------------------- MODULE SessionIndex ----------------------------
(***************************************************************************)
(* Where session ids come from.  Every start of packetd sets sessionIndex  *)
(* to the time of day, shifted to make room for the sessions of a second;  *)
(* nextSessionID then counts upwards.  The database keeps the ids of       *)
(* earlier starts, so ids have to grow across restarts as well.            *)
(***************************************************************************)
EXTENDS Integers, Sequences

CONSTANTS
    Shift,       \* ids per second: 2^16 in the code
    Mask,        \* seconds that the index tells apart: 2^32
    Width,       \* the first number that is not an int64: 2^63
    MinRestart,  \* seconds between a stop and the next start, as Unix() sees them
    MaxClock     \* bound: the clock stops here

\* The clock stays below the mask (until 2106), and the shifted mask fits.
ASSUME IndexAssumption ==
    /\ Shift \in Nat \ {0}
    /\ Mask \in Nat
    /\ Width \in Nat
    /\ MinRestart \in Nat
    /\ MaxClock \in Nat
    /\ MaxClock < Mask
    /\ Shift * Mask < Width

VARIABLES
    clock,         \* time.Now().Unix()
    running,       \* is packetd up?
    since,         \* when it last went up or down
    sessionIndex,  \* the counter
    ids            \* every id handed out so far, oldest first

indexVars == <<clock, running, since, sessionIndex, ids>>

IndexTypeOK ==
    /\ clock \in 0..MaxClock
    /\ running \in BOOLEAN
    /\ since \in 0..clock
    /\ sessionIndex \in 0..(Width - 1)
    /\ ids \in Seq(0..(Width - 1))

IndexInit ==
    /\ clock = 0
    /\ running = FALSE
    /\ since = 0
    /\ sessionIndex = 0
    /\ ids = <<>>

-----------------------------------------------------------------------------
\* Mutant of StartIndex: the time is not shifted.
StartIndexUnshifted(now) == now % Mask

StartIndex(now) == (now % Mask) * Shift

Startup ==
    /\ ~running
    /\ clock >= since + MinRestart
    /\ running' = TRUE
    /\ since' = clock
    /\ sessionIndex' = StartIndex(clock)
    /\ UNCHANGED <<clock, ids>>

\* A shutdown or a crash: nothing of the counter is kept.
Stop ==
    /\ running
    /\ running' = FALSE
    /\ since' = clock
    /\ UNCHANGED <<clock, sessionIndex, ids>>

Tick ==
    /\ clock < MaxClock
    /\ clock' = clock + 1
    /\ UNCHANGED <<running, since, sessionIndex, ids>>

\* At most Shift sessions per second on average since the start.
WithinRate == sessionIndex - StartIndex(since) < Shift * (clock - since + 1)

\* sessionIndex++ on an int64; a negative result is replaced by 1.
Increment(index) == IF index + 1 = Width THEN 1 ELSE index + 1

\* nextSessionID, for a new session and for a conntrack without one.
NextSessionID ==
    /\ running
    /\ WithinRate
    /\ ids' = Append(ids, sessionIndex)
    /\ sessionIndex' = Increment(sessionIndex)
    /\ UNCHANGED <<clock, running, since>>

IndexNext == Startup \/ Stop \/ Tick \/ NextSessionID

IndexSpec == IndexInit /\ [][IndexNext]_indexVars

-----------------------------------------------------------------------------
\* dispatch.go: "this means that sessionIndex should be ever increasing despite
\* restarts (unless there are more than 16 bits or 65k sessions per sec on
\* average)": an id is greater than all ids handed out before, by this or by an
\* earlier start of packetd.
EverIncreasing == \A i, j \in 1..Len(ids) : i < j => ids[i] < ids[j]

=============================================================================
