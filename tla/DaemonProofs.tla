---------------------------- MODULE DaemonProofs ----------------------------
(***************************************************************************)
(* Proofs about the daemon around its tables: the ids dispatch gives to    *)
(* sessions (module SessionIndex), the daemon from start to exit with the  *)
(* warehouse's playback (modules Lifecycle and Warehouse), and the loop    *)
(* that calls the subscribers for a packet (module Subscribers), which     *)
(* implements what module Verdicts promises.                               *)
(***************************************************************************)
EXTENDS SessionIndex, Subscribers, Lifecycle, FiniteSetTheorems, TLAPS

(***************************************************************************)
(* Session ids grow for ever, across restarts, if a restart is noticed by  *)
(* a clock that counts seconds and the average rate is not exceeded.       *)
(***************************************************************************)
\* The counter stays within the seconds that have passed.
Counter ==
    running => /\ since * Shift <= sessionIndex
               /\ sessionIndex <= Shift * (clock + 1)

\* What the next id is greater than: the counter itself while packetd is up,
\* and the end of the second of its last stop while it is down.
Bound == IF running THEN sessionIndex ELSE Shift * (since + 1)

Issued == \A i \in 1..Len(ids) : ids[i] < Bound

IndexInv == IndexTypeOK /\ Counter /\ Issued /\ EverIncreasing

-----------------------------------------------------------------------------
\* The clock is below the mask, so that the mask changes nothing.
LEMMA StartIndexValue ==
    ASSUME NEW t \in 0..MaxClock
    PROVE  StartIndex(t) = t * Shift
<1>1. t % Mask = t
  BY IndexAssumption
<1> QED
  BY <1>1 DEF StartIndex

\* Ids of the seconds that pass fit into the width of the counter.
LEMMA Fits ==
    ASSUME NEW t \in 0..MaxClock
    PROVE  /\ t * Shift \in Nat
           /\ Shift * (t + 1) \in Nat
           /\ t * Shift <= Shift * (t + 1)
           /\ Shift * (t + 1) < Width
<1> DEFINE d == Mask - (t + 1)
<1>1. d \in Nat /\ t + 1 + d = Mask
  BY IndexAssumption
<1>2. Shift * (t + 1) + Shift * d = Shift * Mask
  BY <1>1, IndexAssumption
<1>3. Shift * d \in Nat
  BY <1>1, IndexAssumption
<1>4. t * Shift \in Nat /\ Shift * (t + 1) = t * Shift + Shift
  BY IndexAssumption
<1> HIDE DEF d
<1> QED
  BY <1>2, <1>3, <1>4, IndexAssumption

\* The rate bound, with the time of the start cancelled.
LEMMA RateValue ==
    ASSUME IndexTypeOK, WithinRate
    PROVE  sessionIndex < Shift * (clock + 1)
<1>1. since \in 0..MaxClock /\ clock \in Nat /\ sessionIndex \in Nat
  BY IndexAssumption DEF IndexTypeOK
<1>2. sessionIndex - since * Shift < Shift * (clock - since + 1)
  BY Zenon, <1>1, StartIndexValue DEF WithinRate
<1>3. Shift * (clock - since + 1) = Shift * (clock + 1) - since * Shift
  BY <1>1, IndexAssumption
<1>4. since * Shift \in Int /\ Shift * (clock + 1) \in Int
  BY <1>1, IndexAssumption
<1> QED
  BY <1>1, <1>2, <1>3, <1>4

LEMMA Monotone ==
    ASSUME NEW s \in Nat, NEW t \in Nat, s <= t
    PROVE  Shift * s <= Shift * t
<1> DEFINE d == t - s
<1>1. d \in Nat /\ t = s + d
  OBVIOUS
<1>2. Shift * t = Shift * s + Shift * d /\ Shift * d \in Nat /\ Shift * s \in Nat
  BY <1>1, IndexAssumption
<1> HIDE DEF d
<1> QED
  BY <1>2

-----------------------------------------------------------------------------
LEMMA CounterInit == IndexInit => IndexTypeOK /\ Counter
<1>1. 0 \in 0..MaxClock /\ 0 \in 0..0
  BY IndexAssumption
<1>2. 0 \in 0..(Width - 1)
  BY <1>1, Fits, IndexAssumption
<1>3. SUFFICES ASSUME IndexInit PROVE IndexTypeOK /\ Counter
  OBVIOUS
<1>4. ids \in Seq(0..(Width - 1))
  BY <1>3 DEF IndexInit
<1>5. Counter /\ running \in BOOLEAN
  BY Zenon, <1>3 DEF IndexInit, Counter
<1> QED
  BY Zenon, <1>1, <1>2, <1>3, <1>4, <1>5 DEF IndexInit, IndexTypeOK

\* Each step keeps the counter between the start and the present second.
LEMMA CounterStep ==
    ASSUME IndexTypeOK, Counter, [IndexNext]_indexVars
    PROVE  IndexTypeOK' /\ Counter'
<1>1. since \in 0..MaxClock /\ clock \in 0..MaxClock /\ since <= clock
  BY IndexAssumption DEF IndexTypeOK
<1>2. CASE Startup
  <2>1. sessionIndex' = clock * Shift
    BY Zenon, <1>1, <1>2, StartIndexValue DEF Startup
  <2>2. clock * Shift \in 0..(Width - 1) /\ clock * Shift <= Shift * (clock + 1)
    BY <1>1, Fits, IndexAssumption
  <2> QED
    BY <1>1, <1>2, <2>1, <2>2 DEF Startup, IndexTypeOK, Counter
<1>3. CASE Stop
  <2>1. clock \in 0..clock
    BY <1>1
  <2> QED
    BY Zenon, <1>3, <2>1 DEF Stop, IndexTypeOK, Counter
<1>4. CASE Tick
  <2>1. clock' \in 0..MaxClock /\ clock' = clock + 1 /\ since \in 0..clock'
    BY <1>1, <1>4, IndexAssumption DEF Tick
  <2>2. Shift * (clock + 1) <= Shift * (clock' + 1)
    BY <1>1, <2>1, Monotone
  <2>3. Shift * (clock + 1) \in Int /\ Shift * (clock' + 1) \in Int /\ since * Shift \in Int
    BY <1>1, <2>1, IndexAssumption
  <2> QED
    BY <1>4, <2>1, <2>2, <2>3 DEF Tick, IndexTypeOK, Counter
<1>5. CASE NextSessionID
  <2>1. sessionIndex < Shift * (clock + 1)
    BY Zenon, <1>5, RateValue DEF NextSessionID
  <2>2. /\ Shift * (clock + 1) \in Nat /\ Shift * (clock + 1) < Width
        /\ since * Shift \in Int
    BY <1>1, Fits, IndexAssumption
  <2>3. sessionIndex' = sessionIndex + 1
    BY <1>5, <2>1, <2>2, IndexAssumption DEF NextSessionID, Increment, IndexTypeOK
  <2>4. sessionIndex' \in 0..(Width - 1) /\ sessionIndex' <= Shift * (clock + 1)
    BY <2>1, <2>2, <2>3, IndexAssumption DEF IndexTypeOK
  <2>5. ids' \in Seq(0..(Width - 1))
    BY <1>5 DEF NextSessionID, IndexTypeOK
  <2> QED
    BY <1>5, <2>2, <2>3, <2>4, <2>5 DEF NextSessionID, IndexTypeOK, Counter
<1>6. CASE UNCHANGED indexVars
  BY <1>6 DEF indexVars, IndexTypeOK, Counter
<1> QED
  BY Zenon, <1>2, <1>3, <1>4, <1>5, <1>6 DEF IndexNext

\* The counter is an int64 that never overflows: Startup's index and what
\* nextSessionID adds to it stay below the width.
THEOREM IndexTypeCorrect == IndexSpec => []IndexTypeOK
<1>1. IndexInit => IndexTypeOK /\ Counter
  BY CounterInit
<1>2. IndexTypeOK /\ Counter /\ [IndexNext]_indexVars => (IndexTypeOK /\ Counter)'
  BY CounterStep
<1> QED
  BY <1>1, <1>2, PTL DEF IndexSpec

\* Each step keeps the ids in order and below what comes next.
LEMMA OrderStep ==
    ASSUME MinRestart # 0, IndexInv, [IndexNext]_indexVars
    PROVE  (Issued /\ EverIncreasing)'
<1>1. /\ IndexTypeOK /\ Counter /\ Issued /\ EverIncreasing
      /\ since \in 0..MaxClock /\ clock \in 0..MaxClock /\ since <= clock
  BY IndexAssumption DEF IndexInv, IndexTypeOK
<1>2. \A i \in 1..Len(ids) : ids[i] \in Nat
  BY <1>1, IndexAssumption DEF IndexTypeOK
<1>3. sessionIndex \in Nat /\ Shift * (clock + 1) \in Nat /\ Shift * (since + 1) \in Nat
  BY <1>1, Fits, IndexAssumption DEF IndexTypeOK
<1>4. CASE Startup
  <2>1. Shift * (since + 1) <= Shift * clock
    BY <1>1, <1>4, Monotone, IndexAssumption DEF Startup
  <2>2. sessionIndex' = Shift * clock /\ Shift * clock \in Nat
    BY <1>1, <1>4, StartIndexValue, IndexAssumption DEF Startup
  <2>3. Bound = Shift * (since + 1) /\ Bound' = sessionIndex' /\ ids' = ids
    BY Zenon, <1>4 DEF Startup, Bound
  <2> QED
    BY <1>1, <1>2, <1>3, <2>1, <2>2, <2>3 DEF Issued, EverIncreasing
<1>5. CASE Stop
  <2>1. Bound = sessionIndex /\ Bound' = Shift * (clock + 1) /\ ids' = ids
    BY <1>5 DEF Stop, Bound
  <2>2. sessionIndex <= Shift * (clock + 1)
    BY Zenon, <1>1, <1>5 DEF Stop, Counter
  <2> QED
    BY <1>1, <1>2, <1>3, <2>1, <2>2 DEF Issued, EverIncreasing
<1>6. CASE Tick
  BY Zenon, <1>1, <1>6 DEF Tick, Bound, Issued, EverIncreasing
<1>7. CASE NextSessionID
  <2>1. sessionIndex' = sessionIndex + 1
    <3>1. sessionIndex < Shift * (clock + 1) /\ Shift * (clock + 1) < Width
      BY Zenon, <1>1, <1>7, RateValue, Fits DEF NextSessionID
    <3> QED
      BY <1>3, <1>7, <3>1, IndexAssumption DEF NextSessionID, Increment
  <2>2. Bound = sessionIndex /\ Bound' = sessionIndex + 1
    BY Zenon, <1>7, <2>1 DEF NextSessionID, Bound
  <2>3. /\ Len(ids') = Len(ids) + 1 /\ Len(ids) \in Nat
        /\ \A i \in 1..Len(ids) : ids'[i] = ids[i]
        /\ ids'[Len(ids) + 1] = sessionIndex
    BY <1>1, <1>7 DEF NextSessionID, IndexTypeOK
  <2>4. Issued'
    <3> SUFFICES ASSUME NEW i \in 1..Len(ids')
                 PROVE  ids'[i] < Bound'
      BY Zenon DEF Issued
    <3>1. CASE i = Len(ids) + 1
      BY <3>1, <1>3, <2>2, <2>3
    <3>2. CASE i # Len(ids) + 1
      <4>1. i \in 1..Len(ids)
        BY <3>2, <2>3
      <4> QED
        BY <4>1, <1>1, <1>2, <1>3, <2>2, <2>3 DEF Issued, IndexTypeOK
    <3> QED
      BY Zenon, <3>1, <3>2
  <2>5. ASSUME NEW i \in 1..Len(ids'), NEW j \in 1..Len(ids'), i < j
        PROVE  ids'[i] < ids'[j]
    <3>1. i \in 1..Len(ids) /\ ids'[i] = ids[i]
      BY <2>3, <2>5
    <3>2. CASE j \in 1..Len(ids)
      BY Zenon, <1>1, <2>3, <2>5, <3>1, <3>2 DEF EverIncreasing
    <3>3. CASE j = Len(ids) + 1
      BY Zenon, <1>1, <2>2, <2>3, <3>1, <3>3 DEF Issued
    <3> QED
      BY <2>3, <3>2, <3>3
  <2> QED
    BY Zenon, <2>4, <2>5 DEF EverIncreasing
<1>8. CASE UNCHANGED indexVars
  BY Zenon, <1>1, <1>8 DEF indexVars, Bound, Issued, EverIncreasing
<1> QED
  BY Zenon, <1>4, <1>5, <1>6, <1>7, <1>8 DEF IndexNext

\* What the comment on sessionIndex promises: ids grow despite restarts, if the
\* rate is kept on average and a restart takes at least one tick of the clock.
THEOREM Increasing == MinRestart # 0 => (IndexSpec => []EverIncreasing)
<1> SUFFICES ASSUME MinRestart # 0 PROVE IndexSpec => []EverIncreasing
  OBVIOUS
<1>1. IndexInit => IndexInv
  <2>1. IndexInit => Issued /\ EverIncreasing
    BY DEF IndexInit, Issued, EverIncreasing
  <2> QED
    BY Zenon, <2>1, CounterInit DEF IndexInv
<1>2. IndexInv /\ [IndexNext]_indexVars => IndexInv'
  BY Zenon, CounterStep, OrderStep DEF IndexInv
<1>3. IndexInv => EverIncreasing
  BY Zenon DEF IndexInv
<1> QED
  BY <1>1, <1>2, <1>3, PTL DEF IndexSpec

-----------------------------------------------------------------------------
(***************************************************************************)
(* The daemon from start to exit, for any number of threads, plugins and   *)
(* failures, and the lists of a warehouse playback, on their own and as a  *)
(* part of the daemon.                                                     *)
(***************************************************************************)
\* A playback that plays is the one whose lists dispatch would clean up.
ListsOfPlayer == \A p \in Plays : play[p] = "playing" => cleanupLists = p

WarehouseInv == WarehouseTypeOK /\ ListsOfPlayer /\ PlaybackCleanable

LEMMA WarehouseStart == WarehouseInit => WarehouseInv
  BY Zenon DEF WarehouseInit, WarehouseInv, WarehouseTypeOK, PlayState, ListsOfPlayer, PlaybackCleanable

LEMMA WarehouseUnchanged == WarehouseInv /\ UNCHANGED warehouseVars => WarehouseInv'
  BY Zenon DEF warehouseVars, WarehouseInv, WarehouseTypeOK, ListsOfPlayer, PlaybackCleanable, Tracked

\* A new goroutine for a playback waits for the mutex and touches nothing else.
LEMMA WarehousePending ==
    ASSUME WarehouseInv, NEW p \in Plays, HandleWarehousePlayback(p), warehouse_flag' \in {"I", "P", "C"}
    PROVE  WarehouseInv'
<1> USE DEF HandleWarehousePlayback, WarehouseInv
<1>1. WarehouseTypeOK'
  BY Zenon DEF WarehouseTypeOK, PlayState
<1>2. ListsOfPlayer'
  BY Zenon DEF ListsOfPlayer, WarehouseTypeOK
<1>3. PlaybackCleanable'
  BY Zenon DEF PlaybackCleanable, Tracked
<1> QED
  BY Zenon, <1>1, <1>2, <1>3

\* The steps of a playback: whoever plays fills the lists in use.
LEMMA WarehousePlayback ==
    ASSUME WarehouseInv, NEW p \in Plays, Playback(p)
    PROVE  WarehouseInv'
<1> USE DEF WarehouseInv
<1>1. CASE BeginPlayback(p)
  <2> USE <1>1 DEF BeginPlayback
  <2>1. WarehouseTypeOK'
    BY Zenon DEF WarehouseTypeOK, PlayState
  <2>2. ListsOfPlayer'
    BY Zenon DEF ListsOfPlayer, WarehouseTypeOK, MutexFree
  <2>3. PlaybackCleanable'
    BY Zenon DEF PlaybackCleanable, WarehouseTypeOK
  <2> QED
    BY Zenon, <2>1, <2>2, <2>3
<1>2. ASSUME NEW ctid \in Ctids, PlayPacket(p, ctid)
      PROVE  WarehouseInv'
  <2> USE <1>2 DEF PlayPacket
  <2>1. WarehouseTypeOK'
    BY Zenon DEF WarehouseTypeOK
  <2>2. ListsOfPlayer'
    BY Zenon DEF ListsOfPlayer
  <2>3. cleanupLists = p /\ p # NoPlay
    BY Zenon, WarehouseAssumption DEF ListsOfPlayer
  <2>4. PlaybackCleanable'
    BY Zenon, <2>3 DEF PlaybackCleanable, Tracked, WarehouseTypeOK
  <2> QED
    BY Zenon, <2>1, <2>2, <2>4
<1>3. ASSUME NEW ctid \in Ctids, PlayEvent(p, ctid)
      PROVE  WarehouseInv'
  <2> USE <1>3 DEF PlayEvent
  <2>1. WarehouseTypeOK'
    BY Zenon DEF WarehouseTypeOK
  <2>2. ListsOfPlayer'
    BY Zenon DEF ListsOfPlayer
  <2>3. cleanupLists = p /\ p # NoPlay
    BY Zenon, WarehouseAssumption DEF ListsOfPlayer
  <2>4. PlaybackCleanable'
    BY Zenon, <2>3 DEF PlaybackCleanable, Tracked, WarehouseTypeOK
  <2> QED
    BY Zenon, <2>1, <2>2, <2>4
<1>4. CASE EndPlayback(p)
  <2> USE <1>4 DEF EndPlayback
  <2>1. WarehouseTypeOK'
    BY Zenon DEF WarehouseTypeOK, PlayState
  <2>2. ListsOfPlayer'
    BY Zenon DEF ListsOfPlayer, WarehouseTypeOK
  <2>3. PlaybackCleanable'
    BY Zenon DEF PlaybackCleanable, Tracked
  <2> QED
    BY Zenon, <2>1, <2>2, <2>3
<1> QED
  BY Zenon, <1>1, <1>2, <1>3, <1>4 DEF Playback

LEMMA WarehouseRest ==
    ASSUME WarehouseInv, RestWarehouse
    PROVE  WarehouseInv'
<1> USE DEF WarehouseInv
<1>1. ASSUME NEW p \in Plays, RequestPlayback(p)
      PROVE  WarehouseInv'
  BY Zenon, <1>1, WarehousePending DEF RequestPlayback
<1>2. CASE HandleWarehouseCleanup
  <2> USE <1>2 DEF HandleWarehouseCleanup
  <2>1. WarehouseTypeOK'
    BY Zenon DEF WarehouseTypeOK
  <2>2. ListsOfPlayer'
    BY Zenon DEF ListsOfPlayer, MutexFree
  <2>3. PlaybackCleanable'
    BY DEF PlaybackCleanable, Tracked
  <2> QED
    BY Zenon, <2>1, <2>2, <2>3
<1>3. CASE warehouseCapture \/ warehouseClose
  BY Zenon, <1>3 DEF warehouseCapture, warehouseClose, WarehouseTypeOK, ListsOfPlayer, PlaybackCleanable, Tracked
<1> QED
  BY Zenon, <1>1, <1>2, <1>3 DEF RestWarehouse

\* HandleWarehouseCleanup finds in its lists whatever the last playback has put
\* into a table, for any number of playbacks and ids.
THEOREM Cleanable == WarehouseSpec => []PlaybackCleanable
<1>1. WarehouseInv /\ [WarehouseNext]_warehouseVars => WarehouseInv'
  BY Zenon, WarehouseUnchanged, WarehousePlayback, WarehouseRest DEF WarehouseNext
<1>2. WarehouseInv => PlaybackCleanable
  BY Zenon DEF WarehouseInv
<1> QED
  BY <1>1, <1>2, WarehouseStart, PTL DEF WarehouseSpec

-----------------------------------------------------------------------------
\* What the main goroutine has behind it, by its place.
BeforeCallbacks == {"startServices", "startPlugins"}
WithPlugins == {"insertRules", "warehouse", "wait", "close", "removeRules", "StopCallbacks",
                "selectTask", "waitChildren", "selectChildren"}
RulesRemoved == {"StopCallbacks", "selectTask", "waitChildren", "selectChildren", "stopPlugins",
                 "stopServices", "exit"}
ToldToStop == RulesRemoved \ {"StopCallbacks"}
ChildrenWaitedFor == {"stopPlugins", "stopServices", "exit"}

\* Threads run only with all plugins, and those in their loop are counted.
ThreadInv ==
    /\ main \in BeforeCallbacks => packets = {} /\ \A t \in Threads : thread[t] = "none"
    /\ main \in WithPlugins => plugins = Plugins
    /\ \A t \in Threads :
         thread[t] \in {"loop", "poll", "handle", "sleep", "ending"} => t \in childsync

\* Without a time limit that ran out, an answer of each goroutine was taken.
StopperInv ==
    /\ main \notin {"selectChildren"} \cup ChildrenWaitedFor => stopper["children"] = "none"
    /\ timedOut = {} /\ main \in {"waitChildren", "selectChildren"} => stopper["task"] = "done"
    /\ timedOut = {} /\ main \in ChildrenWaitedFor => stopper["children"] = "done"

\* Once no thread was counted, none reads anything any more: those that were
\* not counted yet find the flag set.  No packet is handed on any more, either.
QuietInv ==
    /\ main \in ToldToStop => shutdownFlag
    /\ stopper["children"] \in {"answering", "done"} =>
         /\ \A t \in Threads : thread[t] \notin {"poll", "handle"}
         /\ packets \subseteq outlived

\* A thread leaves its loop after the flag was set, but for an error of poll.
EndInv ==
    \A t \in Threads \ polled : thread[t] \in {"ending", "done", "failed"} => shutdownFlag

RulesInv == main \in RulesRemoved /\ ~ruleError => ~rules

LifeInv == TypeOK /\ ThreadInv /\ StopperInv /\ QuietInv /\ EndInv /\ RulesInv

LEMMA LifeStart == Init => LifeInv /\ WarehouseInv
<1> SUFFICES ASSUME Init PROVE LifeInv /\ WarehouseInv
  BY Zenon
<1>1. WarehouseInv
  BY Zenon, WarehouseStart DEF Init
<1>2. TypeOK
  <2>1. troubles \in 0..MaxTroubles
    BY LifecycleAssumption DEF Init
  <2> QED
    BY Zenon, <1>1, <2>1 DEF Init, TypeOK, WarehouseInv, MainState, ThreadState
<1>3. ThreadInv /\ StopperInv /\ QuietInv /\ EndInv /\ RulesInv
  BY Zenon DEF Init, ThreadInv, StopperInv, QuietInv, EndInv, RulesInv, BeforeCallbacks, WithPlugins,
         RulesRemoved, ToldToStop, ChildrenWaitedFor, Stoppers
<1> QED
  BY Zenon, <1>1, <1>2, <1>3 DEF LifeInv

LEMMA LifeUnchanged == LifeInv /\ UNCHANGED daemonVars /\ WarehouseTypeOK' => LifeInv'
  BY DEF LifeInv, TypeOK, ThreadInv, StopperInv, QuietInv, EndInv, RulesInv, daemonVars

\* The steps of a thread.  The flag is only ever set, and a thread that is out
\* of its loop does not come back.
LEMMA LifeThread ==
    ASSUME LifeInv, NEW t \in Threads, ThreadStep(t), UNCHANGED warehouseVars
    PROVE  LifeInv'
<1> USE DEF LifeInv, threadOnly
<1>w. WarehouseTypeOK'
  BY Zenon DEF TypeOK, WarehouseTypeOK, warehouseVars
<1>a. /\ Conntrack \in Threads /\ Netlogger \in Threads
      /\ Netlogger # Conntrack /\ MaxTroubles \in Nat
  BY Zenon, LifecycleAssumption DEF Threads
<1>1. TypeOK'
  <2>1. thread' \in [Threads -> ThreadState]
    BY Zenon, <1>a DEF TypeOK, ThreadState, ThreadStep, Starts, StartFails, go_child_startup, ChecksFlag,
       Polls, PollFails, ReadFails, Handles, Recycles, Ends, Goto
  <2>2. UNCHANGED troubles \/ Trouble
    BY Zenon DEF ThreadStep, Starts, StartFails, go_child_startup, ChecksFlag,
       Polls, PollFails, ReadFails, Handles, Recycles, Ends
  <2>3. troubles' \in 0..MaxTroubles
    BY <1>a, <2>2 DEF TypeOK, Trouble
  <2>4. shutdownFlag' \in BOOLEAN /\ childsync' \subseteq Threads /\ polled' \subseteq Queues
    BY Zenon DEF TypeOK, ThreadStep, Starts, StartFails, go_child_startup, ChecksFlag,
       Polls, PollFails, ReadFails, Handles, Recycles, Ends
  <2>6. packets' \subseteq Queues
    BY Zenon DEF TypeOK, ThreadStep, Starts, StartFails, go_child_startup, ChecksFlag,
       Polls, PollFails, ReadFails, Handles, Recycles, Ends
  <2>5. UNCHANGED threadOnly
    BY Zenon DEF ThreadStep, Starts, StartFails, go_child_startup, ChecksFlag,
       Polls, PollFails, ReadFails, Handles, Recycles, Ends
  <2> QED
    BY Zenon, <1>w, <2>1, <2>3, <2>4, <2>5, <2>6 DEF TypeOK
<1>2. ThreadInv'
  BY Zenon, <1>a DEF TypeOK, ThreadInv, ThreadStep, Starts, StartFails, go_child_startup, ChecksFlag,
     Polls, PollFails, ReadFails, Handles, Recycles, Ends, Goto, BeforeCallbacks
<1>3. StopperInv'
  BY Zenon DEF StopperInv, ThreadStep, Starts, StartFails, go_child_startup, ChecksFlag,
     Polls, PollFails, ReadFails, Handles, Recycles, Ends
<1>4. QuietInv'
  BY Zenon, <1>a DEF TypeOK, QuietInv, StopperInv, ThreadStep, Starts, StartFails, go_child_startup, ChecksFlag,
     Polls, PollFails, ReadFails, Handles, Recycles, Ends, Goto, ToldToStop, RulesRemoved, ChildrenWaitedFor
<1>5. EndInv'
  BY Zenon, <1>a DEF TypeOK, EndInv, ThreadStep, Starts, StartFails, go_child_startup, ChecksFlag,
     Polls, PollFails, ReadFails, Handles, Recycles, Ends, Goto
<1>6. RulesInv'
  BY Zenon DEF RulesInv, ThreadStep, Starts, StartFails, go_child_startup, ChecksFlag,
     Polls, PollFails, ReadFails, Handles, Recycles, Ends
<1> QED
  BY Zenon, <1>1, <1>2, <1>3, <1>4, <1>5, <1>6


\* The warehouse as the daemon uses it.
LEMMA WarehouseMain ==
    ASSUME WarehouseInv, MainStep
    PROVE  WarehouseInv'
<1>1. CASE UNCHANGED warehouseVars
  BY Zenon, <1>1, WarehouseUnchanged
<1>2. CASE StartWarehouse
  <2>1. ASSUME NEW p \in Plays, HandleWarehousePlayback(p), UNCHANGED warehouse_flag
        PROVE  WarehouseInv'
    BY Zenon, <2>1, WarehousePending DEF WarehouseInv, WarehouseTypeOK
  <2>2. CASE UNCHANGED <<warehouse_flag, play, nfTracker, ctTracker, cleanupLists, sessions, conntracks, older>>
             /\ capfile' \in BOOLEAN
    BY Zenon, <2>2 DEF WarehouseInv, WarehouseTypeOK, ListsOfPlayer, PlaybackCleanable, Tracked
  <2> QED
    BY Zenon, <1>2, <2>1, <2>2 DEF StartWarehouse, WarehouseInv, WarehouseTypeOK
<1>3. CASE CloseCapture
  BY Zenon, <1>3 DEF CloseCapture, WarehouseInv, WarehouseTypeOK, ListsOfPlayer, PlaybackCleanable, Tracked
<1> QED
  BY Zenon, <1>1, <1>2, <1>3 DEF MainStep

\* The two selects.  The first can only be answered by the goroutine for
\* conntrackTask, because the other one does not exist yet, and the second only
\* by the other one, if the first was answered.
LEMMA LifeSelect ==
    ASSUME LifeInv, WarehouseTypeOK',
           \/ Select("selectTask", "task", "waitChildren")
           \/ Select("selectChildren", "children", "stopPlugins")
    PROVE  LifeInv'
<1> USE DEF LifeInv, mainOnly
<1>1. TypeOK'
  <2>1. stopper' \in [Stoppers -> {"none", "waiting", "answering", "done"}]
    BY Zenon DEF TypeOK, Select
  <2>2. timedOut' \subseteq Stoppers /\ main' \in MainState
    BY Zenon DEF TypeOK, Select, Stoppers, MainState
  <2> QED
    BY ZenonT(60), <2>1, <2>2 DEF TypeOK, Select
<1>2. ThreadInv'
  BY Zenon DEF ThreadInv, Select, BeforeCallbacks, WithPlugins
<1>3. EndInv' /\ RulesInv'
  <2>1. UNCHANGED <<shutdownFlag, thread, polled, rules, ruleError>> /\ main \in RulesRemoved
    BY Zenon DEF Select, RulesRemoved
  <2> QED
    BY Zenon, <2>1 DEF EndInv, RulesInv
<1>4. CASE timedOut' # {}
  <2>1. stopper'["children"] \in {stopper["children"], "done"}
        /\ (stopper'["children"] # stopper["children"] => stopper["children"] = "answering")
    BY Zenon DEF Select, TypeOK, Stoppers
  <2>2. StopperInv'
    BY Zenon, <1>4, <2>1 DEF StopperInv, Select, ChildrenWaitedFor
  <2>3. QuietInv'
    BY Zenon, <2>1 DEF QuietInv, Select, ToldToStop, RulesRemoved
  <2> QED
    BY Zenon, <1>1, <1>2, <1>3, <2>2, <2>3
<1>5. CASE timedOut' = {}
  <2>1. PICK g \in Stoppers : /\ stopper[g] = "answering"
                              /\ stopper' = [stopper EXCEPT ![g] = "done"]
    BY Zenon, <1>5 DEF Select
  <2>2. timedOut = {} /\ stopper'[g] = "done" /\ \A h \in Stoppers : h # g => stopper'[h] = stopper[h]
    BY Zenon, <1>5, <2>1 DEF Select, TypeOK
  <2>3. CASE main = "selectTask"
    <3>1. g = "task"
      BY Zenon, <2>1, <2>3 DEF StopperInv, ChildrenWaitedFor, Stoppers
    <3>2. main' = "waitChildren" /\ UNCHANGED <<shutdownFlag, thread, packets, outlived>>
      BY Zenon, <2>3 DEF Select
    <3>3. stopper'["children"] = "none"
      BY Zenon, <2>2, <2>3, <3>1 DEF StopperInv, ChildrenWaitedFor, Stoppers
    <3>4. StopperInv'
      BY Zenon, <2>2, <3>1, <3>2, <3>3 DEF StopperInv, ChildrenWaitedFor
    <3>5. QuietInv'
      BY Zenon, <2>3, <3>2, <3>3 DEF QuietInv, ToldToStop, RulesRemoved
    <3> QED
      BY Zenon, <1>1, <1>2, <1>3, <3>4, <3>5
  <2>4. CASE main = "selectChildren"
    <3>1. g = "children"
      BY Zenon, <2>1, <2>2, <2>4 DEF StopperInv, Stoppers
    <3>2. main' = "stopPlugins" /\ UNCHANGED <<shutdownFlag, thread, packets, outlived>>
      BY Zenon, <2>4 DEF Select
    <3>3. StopperInv'
      BY Zenon, <2>2, <3>1, <3>2 DEF StopperInv, ChildrenWaitedFor
    <3>4. QuietInv'
      BY Zenon, <2>1, <2>4, <3>1, <3>2 DEF QuietInv, ToldToStop, RulesRemoved
    <3> QED
      BY Zenon, <1>1, <1>2, <1>3, <3>3, <3>4
  <2> QED
    BY Zenon, <2>3, <2>4 DEF Select
<1> QED
  BY Zenon, <1>4, <1>5

\* The steps of the main goroutine.
LEMMA LifeMain ==
    ASSUME LifeInv, MainStep, WarehouseTypeOK'
    PROVE  LifeInv'
<1> USE DEF LifeInv, TypeOK, ThreadInv, StopperInv, QuietInv, EndInv, RulesInv, mainOnly, MainState, ThreadState,
            Stoppers, BeforeCallbacks, WithPlugins, RulesRemoved, ToldToStop, ChildrenWaitedFor
<1>t. Trouble => troubles' \in 0..MaxTroubles
  BY LifecycleAssumption DEF Trouble
<1>1. CASE startServices
  BY ZenonT(60), <1>t, <1>1 DEF startServices
<1>2. CASE StartCallbacks
  BY Zenon, <1>t, <1>2 DEF StartCallbacks
<1>3. CASE insertRules
  BY ZenonT(60), <1>t, <1>3 DEF insertRules
<1>4. CASE WaitForShutdown
  BY Zenon, <1>t, <1>4 DEF WaitForShutdown
<1>5. CASE removeRules
  BY ZenonT(60), <1>t, <1>5 DEF removeRules
<1>6. CASE StopCallbacks
  BY ZenonT(60), <1>t, <1>6 DEF StopCallbacks
<1>7. CASE Select("selectTask", "task", "waitChildren")
  BY Zenon, <1>7, LifeSelect
<1>8. CASE WaitChildren
  BY ZenonT(60), <1>t, <1>8 DEF WaitChildren
<1>9. CASE Select("selectChildren", "children", "stopPlugins")
  BY Zenon, <1>9, LifeSelect
<1>10. CASE stopPlugins
  BY ZenonT(60), <1>t, <1>10 DEF stopPlugins
<1>11. CASE stopServices
  BY ZenonT(60), <1>t, <1>11 DEF stopServices
<1>12. CASE StartWarehouse
  BY ZenonT(60), <1>t, <1>12 DEF StartWarehouse
<1>13. CASE CloseCapture
  BY ZenonT(60), <1>t, <1>13 DEF CloseCapture
<1> QED
  BY Zenon, <1>1, <1>2, <1>3, <1>4, <1>5, <1>6, <1>7, <1>8, <1>9, <1>10, <1>11, <1>12, <1>13 DEF MainStep

\* The steps of the other goroutines.
LEMMA LifeOthers ==
    ASSUME LifeInv, WarehouseTypeOK',
           \/ Terminate \/ Dump \/ Dumped \/ TaskReturns \/ ChildrenDone \/ StatsHangs \/ ServicesStopped
           \/ \E q \in Queues : PacketDone(q)
           \/ \E p \in Plugins : PluginShutdown(p) \/ PluginStartup(p)
    PROVE  LifeInv'
<1> USE DEF LifeInv, othersOnly, packetVars
<1>1. CASE Terminate
  <2>1. TypeOK'
    BY Zenon, <1>1 DEF TypeOK, Terminate
  <2>2. ThreadInv' /\ StopperInv' /\ QuietInv' /\ EndInv' /\ RulesInv'
    BY Zenon, <1>1 DEF Terminate, ThreadInv, StopperInv, QuietInv, EndInv, RulesInv
  <2> QED
    BY Zenon, <2>1, <2>2
<1>2. CASE Dump \/ Dumped \/ StatsHangs \/ ServicesStopped
  <2>1. TypeOK'
    BY ZenonT(60), <1>2 DEF TypeOK, Dump, Dumped, StatsHangs, ServicesStopped
  <2>2. ThreadInv' /\ StopperInv' /\ QuietInv' /\ EndInv' /\ RulesInv'
    BY <1>2 DEF Dump, Dumped, StatsHangs, ServicesStopped, ThreadInv, StopperInv, QuietInv, EndInv, RulesInv
  <2> QED
    BY Zenon, <2>1, <2>2
<1>3. CASE TaskReturns
  <2>1. stopper' \in [Stoppers -> {"none", "waiting", "answering", "done"}]
    BY Zenon, <1>3 DEF TypeOK, TaskReturns
  <2>2. TypeOK'
    BY Zenon, <1>3, <2>1 DEF TypeOK, TaskReturns
  <2>3. stopper'["children"] = stopper["children"] /\ stopper["task"] = "waiting"
    BY Zenon, <1>3 DEF TypeOK, TaskReturns, Stoppers
  <2>4. StopperInv' /\ QuietInv'
    BY Zenon, <1>3, <2>3 DEF TaskReturns, StopperInv, QuietInv
  <2>5. ThreadInv' /\ EndInv' /\ RulesInv'
    BY Zenon, <1>3 DEF TaskReturns, ThreadInv, EndInv, RulesInv
  <2> QED
    BY Zenon, <2>2, <2>4, <2>5
<1>4. CASE ChildrenDone
  <2>1. stopper' \in [Stoppers -> {"none", "waiting", "answering", "done"}]
    BY Zenon, <1>4 DEF TypeOK, ChildrenDone
  <2>2. TypeOK'
    BY Zenon, <1>4, <2>1 DEF TypeOK, ChildrenDone
  <2>3. /\ stopper["children"] = "waiting" /\ stopper'["children"] = "answering"
        /\ stopper'["task"] = stopper["task"]
    BY Zenon, <1>4 DEF TypeOK, ChildrenDone, Stoppers
  <2>4. StopperInv'
    BY Zenon, <1>4, <2>3 DEF ChildrenDone, StopperInv
  <2>5. QuietInv'
    BY Zenon, <1>4 DEF ChildrenDone, QuietInv, ThreadInv
  <2>6. ThreadInv' /\ EndInv' /\ RulesInv'
    BY Zenon, <1>4 DEF ChildrenDone, ThreadInv, EndInv, RulesInv
  <2> QED
    BY Zenon, <2>2, <2>4, <2>5, <2>6
<1>5. ASSUME NEW p \in Plugins, PluginShutdown(p) \/ PluginStartup(p)
      PROVE  LifeInv'
  <2> USE DEF PluginShutdown, PluginStartup, mainOnly
  <2>1. TypeOK'
    BY <1>5 DEF TypeOK
  <2>2. ThreadInv'
    BY Zenon, <1>5 DEF ThreadInv, WithPlugins, BeforeCallbacks
  <2>3. StopperInv' /\ QuietInv' /\ EndInv' /\ RulesInv'
    BY <1>5 DEF StopperInv, QuietInv, EndInv, RulesInv
  <2> QED
    BY Zenon, <2>1, <2>2, <2>3
<1>6. ASSUME NEW q \in Queues, PacketDone(q)
      PROVE  LifeInv'
  <2>1. TypeOK'
    BY Zenon, <1>6 DEF TypeOK, PacketDone
  <2>2. QuietInv'
    BY Zenon, <1>6 DEF QuietInv, PacketDone
  <2>3. ThreadInv' /\ StopperInv' /\ EndInv' /\ RulesInv'
    BY Zenon, <1>6 DEF PacketDone, ThreadInv, StopperInv, EndInv, RulesInv
  <2> QED
    BY Zenon, <2>1, <2>2, <2>3
<1> QED
  BY Zenon, <1>1, <1>2, <1>3, <1>4, <1>5, <1>6

LEMMA LifeNext == LifeInv /\ WarehouseInv /\ [Next]_vars => LifeInv' /\ WarehouseInv'
<1> SUFFICES ASSUME LifeInv, WarehouseInv, [Next]_vars PROVE LifeInv' /\ WarehouseInv'
  BY Zenon
<1>1. WarehouseInv' => WarehouseTypeOK'
  BY Zenon DEF WarehouseInv
<1>2. CASE UNCHANGED vars
  BY Zenon, <1>1, <1>2, WarehouseUnchanged, LifeUnchanged DEF vars
<1>3. CASE MainStep
  BY Zenon, <1>1, <1>3, WarehouseMain, LifeMain
<1>4. ASSUME NEW t \in Threads, ThreadStep(t), UNCHANGED warehouseVars
      PROVE  LifeInv' /\ WarehouseInv'
  BY Zenon, <1>4, WarehouseUnchanged, LifeThread
<1>5. ASSUME UNCHANGED warehouseVars,
             \/ Terminate \/ Dump \/ Dumped \/ TaskReturns \/ ChildrenDone \/ StatsHangs \/ ServicesStopped
             \/ \E q \in Queues : PacketDone(q)
             \/ \E p \in Plugins : PluginShutdown(p) \/ PluginStartup(p)
      PROVE  LifeInv' /\ WarehouseInv'
  BY Zenon, <1>1, <1>5, WarehouseUnchanged, LifeOthers
<1>6. ASSUME NEW p \in Plays, Playback(p), UNCHANGED daemonVars
      PROVE  LifeInv' /\ WarehouseInv'
  BY Zenon, <1>1, <1>6, WarehousePlayback, LifeUnchanged
<1> QED
  BY Zenon, <1>2, <1>3, <1>4, <1>5, <1>6 DEF Next

LEMMA LifeInvariant == Spec => [](LifeInv /\ WarehouseInv)
  BY LifeStart, LifeNext, PTL DEF Spec

-----------------------------------------------------------------------------
\* Type correctness of the daemon and of the warehouse as a part of it.
THEOREM LifecycleTypeCorrect == Spec => []TypeOK
<1>1. LifeInv => TypeOK
  BY DEF LifeInv
<1> QED
  BY <1>1, LifeInvariant, PTL

\* A thread that reads packets or events for callbacks finds all plugins there,
\* and so does the goroutine of a packet that did not outlive the threads, unless
\* a time limit of StopCallbacks ran out: the answers that it waits for are those
\* of conntrackTask and of the threads, in this order.
THEOREM PluginsThere == Spec => []PluginsThereForCallbacks
<1>1. LifeInv => PluginsThereForCallbacks
  <2> SUFFICES ASSUME LifeInv, timedOut = {}, plugins # Plugins
               PROVE  /\ \A t \in Threads : thread[t] \notin {"poll", "handle"}
                      /\ packets \subseteq outlived
    BY Zenon DEF PluginsThereForCallbacks
  <2>1. CASE main \in BeforeCallbacks
    BY Zenon, <2>1 DEF LifeInv, ThreadInv
  <2>2. CASE main \in ChildrenWaitedFor
    BY Zenon, <2>2 DEF LifeInv, StopperInv, QuietInv
  <2> QED
    BY Zenon, <2>1, <2>2 DEF LifeInv, ThreadInv, TypeOK, MainState, BeforeCallbacks, ChildrenWaitedFor, WithPlugins
<1> QED
  BY <1>1, LifeInvariant, PTL

\* A thread that has returned has left the shutdown flag set, unless poll failed
\* in a queue thread.
THEOREM DeadThreads == Spec => []DeadThreadMeansShutdown
<1>1. LifeInv => DeadThreadMeansShutdown
  BY Zenon DEF LifeInv, EndInv, DeadThreadMeansShutdown
<1> QED
  BY <1>1, LifeInvariant, PTL

\* packetd exits without rules, unless the script that removes them failed.
THEOREM RulesGone == Spec => []RulesGoneAtExit
<1>1. LifeInv => RulesGoneAtExit
  BY DEF LifeInv, RulesInv, RulesGoneAtExit, RulesRemoved
<1> QED
  BY <1>1, LifeInvariant, PTL

\* What a playback leaves can be cleaned up in the daemon as well, where the
\* playback is started by the command line and the process may be stopping.
THEOREM CleanableInDaemon == Spec => []PlaybackCleanable
<1>1. WarehouseInv => PlaybackCleanable
  BY Zenon DEF WarehouseInv
<1> QED
  BY <1>1, LifeInvariant, PTL

-----------------------------------------------------------------------------
(***************************************************************************)
(* The subscribers, for any finite set of plugins, any priorities below    *)
(* the limit and any number of packets.  The invariant ties the two        *)
(* counters of the loop to the calls they count.                           *)
(***************************************************************************)
\* Of the calls cl of one packet: those made, and those not answered.
Called(cl) == {o \in Owners : cl[o].st # "none"}

Unanswered(cl) == {o \in Owners : cl[o].st \notin {"none", "received"}}

LoopInv(pk, cl) ==
    /\ pk.pc \in {"idle", "call"} => Unanswered(cl) = {}
    /\ pk.pc = "idle" => Called(cl) = {}
    /\ pk.pc = "call" =>
         /\ Called(cl) = {o \in pk.sublist : PriorityOf[o] < pk.priority}
         /\ pk.subcount # Cardinality(pk.sublist)
    /\ pk.pc = "wait" =>
         /\ Called(cl) = {o \in pk.sublist : PriorityOf[o] <= pk.priority}
         /\ pk.priority < PriorityLimit
         /\ pk.hitcount = Cardinality(Unanswered(cl))
         /\ \A o \in Unanswered(cl) : PriorityOf[o] = pk.priority
    /\ pk.pc \in {"call", "wait"} => pk.subcount = Cardinality(Called(cl))
    /\ pk.pc = "done" => Unanswered(cl) = {} /\ Called(cl) = pk.sublist
    /\ pk.pc # "panic"

EmptyBypassed == Owners # {} /\ subscriptions = {} => bypass

Inv == /\ SubscribersTypeOK
       /\ \A p \in Packets : LoopInv(packet[p], call[p])
       /\ EmptyBypassed

USE PluginAssumption, PrioritiesBelowLimit

LEMMA FinitePlugins ==
    ASSUME NEW S \in SUBSET Owners
    PROVE  IsFiniteSet(S) /\ Cardinality(S) \in Nat
  BY Zenon, FS_Subset, FS_CardinalityType

LEMMA LoopInvInit ==
    ASSUME NEW cl, cl = [o \in Owners |-> [st |-> "none", release |-> FALSE]]
    PROVE  LoopInv(Idle, cl)
  BY Zenon DEF LoopInv, Idle, Called, Unanswered

LEMMA LoopInvStart ==
    ASSUME NEW pk \in PacketState, NEW cl \in [Owners -> CallState], LoopInv(pk, cl),
           pk.pc = "idle", NEW S \in SUBSET Owners,
           NEW new, new = [pc |-> IF S = {} THEN "done" ELSE "call",
                           sublist |-> S, priority |-> 0, subcount |-> 0, hitcount |-> 0]
    PROVE  LoopInv(new, cl)
<1>1. Called(cl) = {} /\ Unanswered(cl) = {}
  BY Zenon DEF LoopInv
<1>2. /\ new.pc = IF S = {} THEN "done" ELSE "call"
      /\ new.sublist = S /\ new.priority = 0 /\ new.subcount = 0
  BY Zenon
<1>3. Cardinality(Called(cl)) = 0 /\ (S # {} => Cardinality(S) # 0)
  BY Zenon, <1>1, FinitePlugins, FS_EmptySet
<1>4. {o \in S : PriorityOf[o] < 0} = {}
  OBVIOUS
<1> QED
  BY Zenon, <1>1, <1>2, <1>3, <1>4 DEF LoopInv

\* The calls of the current priority join those already made.
LEMMA LoopInvCall ==
    ASSUME NEW pk \in PacketState, NEW cl \in [Owners -> CallState], LoopInv(pk, cl),
           pk.pc = "call",
           NEW hits, hits = {o \in pk.sublist : PriorityOf[o] = pk.priority},
           NEW new, new = [pc |-> "wait", sublist |-> pk.sublist, priority |-> pk.priority,
                           subcount |-> pk.subcount + Cardinality(hits), hitcount |-> Cardinality(hits)],
           NEW cl2, cl2 = [o \in Owners |-> IF o \in hits THEN [st |-> "running", release |-> FALSE]
                                             ELSE cl[o]]
    PROVE  LoopInv(new, cl2)
<1>1. /\ Unanswered(cl) = {} /\ Called(cl) = {o \in pk.sublist : PriorityOf[o] < pk.priority}
      /\ pk.subcount = Cardinality(Called(cl)) /\ pk.subcount # Cardinality(pk.sublist)
  BY Zenon DEF LoopInv
<1>2. /\ pk.sublist \in SUBSET Owners /\ pk.priority \in Nat /\ hits \in SUBSET Owners
      /\ Called(cl) \in SUBSET Owners /\ \A o \in Owners : PriorityOf[o] \in Nat
  BY <1>1 DEF PacketState
<1>3. /\ new.pc = "wait" /\ new.sublist = pk.sublist /\ new.priority = pk.priority
      /\ new.subcount = pk.subcount + Cardinality(hits) /\ new.hitcount = Cardinality(hits)
  BY Zenon
<1>4. Unanswered(cl2) = hits
  BY Zenon, <1>1, <1>2 DEF Unanswered
<1>5. Called(cl2) = Called(cl) \cup hits
  <2>1. \A o \in Owners : cl2[o].st = IF o \in hits THEN "running" ELSE cl[o].st
    BY Zenon
  <2> QED
    BY Zenon, <1>2, <2>1 DEF Called
<1>6. Called(cl2) = {o \in pk.sublist : PriorityOf[o] <= pk.priority} /\ Called(cl) \cap hits = {}
  <2>1. \A o \in pk.sublist : PriorityOf[o] <= pk.priority <=>
                              PriorityOf[o] < pk.priority \/ PriorityOf[o] = pk.priority
    BY <1>2
  <2>2. \A o \in pk.sublist : ~(PriorityOf[o] < pk.priority /\ PriorityOf[o] = pk.priority)
    BY <1>2
  <2> QED
    BY Zenon, <1>1, <1>5, <2>1, <2>2
<1>7. Cardinality(Called(cl2)) = Cardinality(Called(cl)) + Cardinality(hits)
  <2>1. IsFiniteSet(Called(cl)) /\ IsFiniteSet(hits) /\ Cardinality(Called(cl)) \in Nat
        /\ Cardinality(hits) \in Nat
    BY Zenon, <1>2, FinitePlugins
  <2>2. Cardinality(Called(cl) \cup hits)
          = Cardinality(Called(cl)) + Cardinality(hits) - Cardinality(Called(cl) \cap hits)
    <3> DEFINE S == Called(cl)
    <3> HIDE DEF S
    <3>1. IsFiniteSet(S) => Cardinality(S \cup hits) = Cardinality(S) + Cardinality(hits) - Cardinality(S \cap hits)
      BY Zenon, <2>1, FS_Union
    <3> QED
      BY Zenon, <2>1, <3>1 DEF S
  <2> QED
    <3>1. Cardinality(Called(cl) \cap hits) = 0
      BY Zenon, <1>6, FS_EmptySet
    <3> QED
      <4> DEFINE a == Cardinality(Called(cl))
                 b == Cardinality(hits)
                 c == Cardinality(Called(cl) \cap hits)
      <4>1. Cardinality(Called(cl2)) = a + b - c /\ a \in Nat /\ b \in Nat /\ c = 0
        BY Zenon, <1>5, <2>1, <2>2, <3>1
      <4> HIDE DEF a, b, c
      <4>2. Cardinality(Called(cl2)) = a + b
        BY <4>1
      <4> QED
        BY Zenon, <4>2 DEF a, b
<1>8. pk.priority < PriorityLimit
  <2>1. ASSUME ~(pk.priority < PriorityLimit) PROVE FALSE
    <3>1. Called(cl) = pk.sublist
      BY <1>1, <1>2, <2>1
    <3> QED
      BY Zenon, <1>1, <3>1
  <2> QED
    BY Zenon, <2>1
<1> QED
  BY Zenon, <1>1, <1>3, <1>4, <1>6, <1>7, <1>8 DEF LoopInv

\* A call moves on without being answered.
LEMMA LoopInvMove ==
    ASSUME NEW pk \in PacketState, NEW cl \in [Owners -> CallState], LoopInv(pk, cl),
           NEW o \in Owners, o \in Unanswered(cl),
           NEW new, new.st # "none", new.st # "received",
           NEW cl2, cl2 = [cl EXCEPT ![o] = new]
    PROVE  LoopInv(pk, cl2)
<1>1. Called(cl2) = Called(cl)
  BY Zenon DEF Called, Unanswered
<1>2. Unanswered(cl2) = Unanswered(cl)
  BY Zenon DEF Unanswered
<1> QED
  BY Zenon, <1>1, <1>2 DEF LoopInv

LEMMA LoopInvReceive ==
    ASSUME NEW pk \in PacketState, NEW cl \in [Owners -> CallState], LoopInv(pk, cl),
           NEW o \in Owners, pk.pc = "wait", cl[o].st = "sending",
           NEW res, res.st = "received",
           NEW cl2, cl2 = [cl EXCEPT ![o] = res],
           NEW new, new = [pc |-> "wait", sublist |-> pk.sublist, priority |-> pk.priority,
                           subcount |-> pk.subcount, hitcount |-> pk.hitcount - 1]
    PROVE  LoopInv(new, cl2) /\ pk.hitcount - 1 \in Nat
<1>1. Called(cl2) = Called(cl)
  BY Zenon DEF Called
<1>2. Unanswered(cl2) = Unanswered(cl) \ {o} /\ o \in Unanswered(cl) /\ Unanswered(cl) \in SUBSET Owners
  BY Zenon DEF Unanswered
<1>3. /\ new.pc = "wait" /\ new.sublist = pk.sublist /\ new.priority = pk.priority
      /\ new.subcount = pk.subcount /\ new.hitcount = pk.hitcount - 1
  BY Zenon
<1>4. Cardinality(Unanswered(cl2)) = Cardinality(Unanswered(cl)) - 1
  <2>1. IsFiniteSet(Unanswered(cl))
    BY Zenon, <1>2, FinitePlugins
  <2>2. Cardinality(Unanswered(cl) \ {o}) = Cardinality(Unanswered(cl)) - 1
    BY ZenonT(60), <1>2, <2>1, FS_RemoveElement
  <2> QED
    BY Zenon, <1>2, <2>2
<1>5. Cardinality(Unanswered(cl2)) \in Nat
  BY Zenon, <1>2, FinitePlugins
<1> QED
  BY Zenon, <1>1, <1>2, <1>3, <1>4, <1>5 DEF LoopInv

LEMMA LoopInvNext ==
    ASSUME NEW pk \in PacketState, NEW cl \in [Owners -> CallState], LoopInv(pk, cl),
           pk.pc = "wait", pk.hitcount = 0,
           NEW pc, pc = IF pk.priority + 1 > PriorityLimit THEN "panic"
                        ELSE IF pk.subcount # Cardinality(pk.sublist) THEN "call" ELSE "done",
           NEW new, new = [pc |-> pc, sublist |-> pk.sublist, priority |-> pk.priority + 1,
                           subcount |-> pk.subcount, hitcount |-> 0]
    PROVE  LoopInv(new, cl) /\ new.pc # "panic"
<1>1. /\ Called(cl) = {o \in pk.sublist : PriorityOf[o] <= pk.priority} /\ pk.priority < PriorityLimit
      /\ pk.hitcount = Cardinality(Unanswered(cl)) /\ pk.subcount = Cardinality(Called(cl))
  BY Zenon DEF LoopInv
<1>2. pk.priority \in Nat /\ pk.sublist \in SUBSET Owners /\ \A o \in Owners : PriorityOf[o] \in Nat
  BY DEF PacketState
<1>3. Unanswered(cl) = {}
  <2>1. IsFiniteSet(Unanswered(cl))
    BY Zenon, FinitePlugins DEF Unanswered
  <2> QED
    BY Zenon, <1>1, <2>1, FS_EmptySet
<1>4. Called(cl) = {o \in pk.sublist : PriorityOf[o] < pk.priority + 1}
  BY <1>1, <1>2
<1>5. pk.subcount = Cardinality(pk.sublist) => Called(cl) = pk.sublist
  <2>1. Called(cl) \in SUBSET pk.sublist /\ IsFiniteSet(pk.sublist)
    BY Zenon, <1>1, <1>2, FinitePlugins
  <2> QED
    BY Zenon, <1>1, <2>1, FS_Subset
<1>6. /\ new.pc = pc /\ new.sublist = pk.sublist /\ new.priority = pk.priority + 1
      /\ new.subcount = pk.subcount /\ pc # "panic" /\ pc \in {"call", "done"}
      /\ pc = "call" => pk.subcount # Cardinality(pk.sublist)
      /\ pc = "done" => pk.subcount = Cardinality(pk.sublist)
  BY <1>1, <1>2
<1> QED
  BY Zenon, <1>1, <1>3, <1>4, <1>5, <1>6 DEF LoopInv

\* A step that concerns the loop or one call of packet p only.
LEMMA LoopStep ==
    ASSUME \A q \in Packets : LoopInv(packet[q], call[q]), NEW p \in Packets,
           \A q \in Packets \ {p} : packet'[q] = packet[q] /\ call'[q] = call[q],
           LoopInv(packet'[p], call'[p])
    PROVE  \A q \in Packets : LoopInv(packet'[q], call'[q])
  OBVIOUS

\* The last subscription to go and the bypass entry.
LEMMA BypassRelease ==
    ASSUME SubscribersTypeOK, EmptyBypassed, NEW o, ReleaseSession(o)
    PROVE  EmptyBypassed' /\ subscriptions' \subseteq Owners /\ bypass' \in BOOLEAN
  BY Zenon DEF SubscribersTypeOK, EmptyBypassed, ReleaseSession

LEMMA InvInit == SubscribersInit => Inv
<1> SUFFICES ASSUME SubscribersInit PROVE Inv
  OBVIOUS
<1>1. SubscribersTypeOK
  BY Zenon DEF SubscribersInit, SubscribersTypeOK, Idle, PacketState, CallState
<1>2. \A p \in Packets : LoopInv(packet[p], call[p])
  BY Zenon, LoopInvInit DEF SubscribersInit
<1> QED
  BY Zenon, <1>1, <1>2 DEF SubscribersInit, Inv, EmptyBypassed

LEMMA InvStep ==
    ASSUME Inv, NEW p \in Packets, PacketStep(p) PROVE Inv'
<1>1. /\ packet \in [Packets -> PacketState] /\ call \in [Packets -> [Owners -> CallState]]
      /\ packet[p] \in PacketState /\ call[p] \in [Owners -> CallState] /\ LoopInv(packet[p], call[p])
      /\ SubscribersTypeOK
  BY Zenon DEF Inv, SubscribersTypeOK
<1>2. CASE Start(p)
  <2> DEFINE new == [pc |-> IF subscriptions = {} THEN "done" ELSE "call",
                     sublist |-> subscriptions, priority |-> 0, subcount |-> 0, hitcount |-> 0]
  <2>1. packet' = [packet EXCEPT ![p] = new] /\ UNCHANGED <<subscriptions, call>> /\ packet[p].pc = "idle"
        /\ subscriptions \in SUBSET Owners /\ bypass' = (bypass \/ subscriptions = {})
    BY Zenon, <1>2 DEF Start, Inv, SubscribersTypeOK
  <2>2. new \in PacketState
    BY Zenon, <2>1 DEF PacketState
  <2>3. LoopInv(new, call[p])
    BY Zenon, <1>1, <2>1, LoopInvStart
  <2> HIDE DEF new
  <2>4. SubscribersTypeOK'
    BY Zenon, <1>1, <2>1, <2>2 DEF SubscribersTypeOK
  <2>5. \A q \in Packets : LoopInv(packet'[q], call'[q])
    BY Zenon, <1>1, <2>1, <2>3, LoopStep DEF Inv
  <2>6. EmptyBypassed'
    BY Zenon, <1>1, <2>1 DEF Inv, SubscribersTypeOK, EmptyBypassed
  <2> QED
    BY Zenon, <2>4, <2>5, <2>6 DEF Inv
<1>3. CASE CallPriority(p)
  <2> DEFINE new == [pc |-> "wait", sublist |-> packet[p].sublist, priority |-> packet[p].priority,
                     subcount |-> packet[p].subcount + Cardinality(Hits(p)),
                     hitcount |-> Cardinality(Hits(p))]
             calls == [o \in Owners |-> IF o \in Hits(p) THEN [st |-> "running", release |-> FALSE]
                                         ELSE call[p][o]]
  <2>1. /\ packet' = [packet EXCEPT ![p] = new] /\ call' = [call EXCEPT ![p] = calls]
        /\ packet[p].pc = "call" /\ UNCHANGED <<subscriptions, bypass>>
    BY Zenon, <1>3 DEF CallPriority, StartCalls, Loop
  <2>2. Hits(p) \in SUBSET Owners /\ Cardinality(Hits(p)) \in Nat
    BY Zenon, <1>1, FinitePlugins DEF Hits, PacketState
  <2>3. new \in PacketState
    BY <1>1, <2>2 DEF PacketState
  <2>4. calls \in [Owners -> CallState]
    BY Zenon, <1>1 DEF CallState
  <2>5. LoopInv(new, calls)
    BY ZenonT(60), <1>1, <2>1, LoopInvCall DEF Hits
  <2> HIDE DEF new, calls
  <2>6. SubscribersTypeOK'
    BY Zenon, <1>1, <2>1, <2>3, <2>4 DEF SubscribersTypeOK
  <2>7. \A q \in Packets : LoopInv(packet'[q], call'[q])
    BY Zenon, <1>1, <2>1, <2>5, LoopStep DEF Inv
  <2>8. EmptyBypassed'
    BY Zenon, <2>1 DEF Inv, EmptyBypassed
  <2> QED
    BY Zenon, <2>6, <2>7, <2>8 DEF Inv
<1>4. ASSUME NEW o \in Owners, Receive(p, o) PROVE Inv'
  <2> DEFINE res == [st |-> "received", release |-> call[p][o].release]
             calls == [call[p] EXCEPT ![o] = res]
             new == [pc |-> "wait", sublist |-> packet[p].sublist, priority |-> packet[p].priority,
                     subcount |-> packet[p].subcount, hitcount |-> packet[p].hitcount - 1]
  <2>1. /\ packet' = [packet EXCEPT ![p] = new] /\ call' = [call EXCEPT ![p] = calls]
        /\ packet[p].pc = "wait" /\ call[p][o].st = "sending"
        /\ ReleaseSession(o) \/ UNCHANGED <<subscriptions, bypass>>
    BY Zenon, <1>4 DEF Receive, Loop, Call
  <2>2. res \in CallState /\ res.st = "received"
    BY Zenon, <1>1 DEF CallState
  <2> HIDE DEF res
  <2>3. calls \in [Owners -> CallState]
    BY Zenon, <1>1, <2>2
  <2>4. LoopInv(new, calls) /\ packet[p].hitcount - 1 \in Nat
    BY Zenon, <1>1, <2>1, <2>2, LoopInvReceive
  <2>5. new \in PacketState
    BY Zenon, <1>1, <2>4 DEF PacketState
  <2> HIDE DEF new, calls
  <2>6. EmptyBypassed' /\ subscriptions' \subseteq Owners /\ bypass' \in BOOLEAN
    BY <2>1, BypassRelease DEF Inv, SubscribersTypeOK, EmptyBypassed
  <2>7. SubscribersTypeOK'
    BY Zenon, <1>1, <2>1, <2>3, <2>5, <2>6 DEF SubscribersTypeOK
  <2>8. \A q \in Packets : LoopInv(packet'[q], call'[q])
    BY Zenon, <1>1, <2>1, <2>4, LoopStep DEF Inv
  <2> QED
    BY Zenon, <2>6, <2>7, <2>8 DEF Inv
<1>5. CASE NextPriority(p)
  <2> DEFINE pc == IF packet[p].priority + 1 > PriorityLimit THEN "panic"
                   ELSE IF packet[p].subcount # Cardinality(packet[p].sublist) THEN "call" ELSE "done"
             new == [pc |-> pc, sublist |-> packet[p].sublist, priority |-> packet[p].priority + 1,
                     subcount |-> packet[p].subcount, hitcount |-> 0]
  <2>1. /\ packet' = [packet EXCEPT ![p] = new] /\ UNCHANGED <<subscriptions, bypass, call>>
        /\ packet[p].pc = "wait" /\ packet[p].hitcount = 0
    BY Zenon, <1>5 DEF NextPriority, Loop
  <2>2. LoopInv(new, call[p])
    BY Zenon, <1>1, <2>1, LoopInvNext
  <2>3. new \in PacketState
    BY <1>1 DEF PacketState
  <2> HIDE DEF new, pc
  <2>4. SubscribersTypeOK'
    BY Zenon, <1>1, <2>1, <2>3 DEF SubscribersTypeOK
  <2>5. \A q \in Packets : LoopInv(packet'[q], call'[q])
    BY Zenon, <1>1, <2>1, <2>2, LoopStep DEF Inv
  <2>6. EmptyBypassed'
    BY Zenon, <2>1 DEF Inv, EmptyBypassed
  <2> QED
    BY <2>4, <2>5, <2>6 DEF Inv
<1> QED
  BY Zenon, <1>2, <1>3, <1>4, <1>5 DEF PacketStep

LEMMA InvCall ==
    ASSUME Inv, NEW p \in Packets, NEW o \in Owners,
           Return(p, o) \/ Forward(p, o) \/ Timeout(p, o)
    PROVE  Inv'
<1>1. /\ packet \in [Packets -> PacketState] /\ call \in [Packets -> [Owners -> CallState]]
      /\ packet[p] \in PacketState /\ call[p] \in [Owners -> CallState] /\ LoopInv(packet[p], call[p])
      /\ call[p][o] \in CallState
  BY Zenon DEF Inv, SubscribersTypeOK
<1>2. PICK st \in {"ready", "sending", "late", "stuck"}, release \in BOOLEAN : Call(p, o, st, release)
  BY Zenon, <1>1 DEF Return, Forward, Timeout, CallState
<1>3. call[p][o].st \in {"running", "ready", "late"} /\ UNCHANGED <<subscriptions, bypass, packet>>
  BY Zenon DEF Return, Forward, Timeout
<1> DEFINE new == [st |-> st, release |-> release]
           calls == [call[p] EXCEPT ![o] = new]
<1>4. new \in CallState /\ new.st = st
  BY Zenon DEF CallState
<1>5. call' = [call EXCEPT ![p] = calls]
  BY Zenon, <1>2 DEF Call
<1> HIDE DEF new
<1>6. calls \in [Owners -> CallState]
  BY Zenon, <1>1, <1>4
<1>7. LoopInv(packet[p], calls)
  <2>1. new.st # "none" /\ new.st # "received" /\ calls = [call[p] EXCEPT ![o] = new]
    BY Zenon, <1>4
  <2>2. o \in Unanswered(call[p])
    BY Zenon, <1>3 DEF Unanswered
  <2> HIDE DEF calls
  <2> QED
    BY Zenon, <1>1, <2>1, <2>2, LoopInvMove
<1> HIDE DEF calls
<1>8. SubscribersTypeOK'
  BY Zenon, <1>1, <1>3, <1>5, <1>6 DEF Inv, SubscribersTypeOK
<1>9. \A q \in Packets : LoopInv(packet'[q], call'[q])
  BY Zenon, <1>1, <1>3, <1>5, <1>7, LoopStep DEF Inv
<1> QED
  BY Zenon, <1>3, <1>8, <1>9 DEF Inv, EmptyBypassed

LEMMA InvRelease ==
    ASSUME Inv, NEW p \in Packets, NEW o \in Owners, PluginReleases(p, o) PROVE Inv'
<1>1. ReleaseSession(o) /\ UNCHANGED <<packet, call>>
  BY Zenon DEF PluginReleases
<1>2. EmptyBypassed' /\ subscriptions' \subseteq Owners /\ bypass' \in BOOLEAN
  BY Zenon, <1>1, BypassRelease DEF Inv
<1> QED
  BY Zenon, <1>1, <1>2 DEF Inv, SubscribersTypeOK

LEMMA InvNext == Inv /\ [SubscribersNext]_subscriberVars => Inv'
<1> SUFFICES ASSUME Inv, [SubscribersNext]_subscriberVars PROVE Inv'
  BY Zenon
<1>1. CASE UNCHANGED subscriberVars
  BY Zenon, <1>1 DEF subscriberVars, Inv, SubscribersTypeOK, EmptyBypassed
<1> QED
  BY Zenon, <1>1, InvStep, InvCall, InvRelease DEF SubscribersNext

LEMMA Invariant == SubscribersSpec => []Inv
  BY InvInit, InvNext, PTL DEF SubscribersSpec

-----------------------------------------------------------------------------
\* Every variable of callSubscribers keeps its type; hitcount is never negative.
THEOREM SubscribersTypeCorrect == SubscribersSpec => []SubscribersTypeOK
<1>1. Inv => SubscribersTypeOK
  BY Zenon DEF Inv
<1> QED
  BY <1>1, Invariant, PTL

\* For one packet the plugins are called strictly by priority, whatever other
\* packets, releases and timeouts do meanwhile.
THEOREM Ordered == SubscribersSpec => []CalledInOrder
<1>1. Inv => CalledInOrder
  <2> SUFFICES ASSUME Inv, NEW p \in Packets, NEW o \in packet[p].sublist, call[p][o].st # "none",
                      NEW q \in packet[p].sublist, PriorityOf[q] < PriorityOf[o]
               PROVE  call[p][q].st = "received"
    BY Zenon DEF CalledInOrder
  <2>1. /\ packet[p] \in PacketState /\ LoopInv(packet[p], call[p])
        /\ call[p] \in [Owners -> CallState]
    BY Zenon DEF Inv, SubscribersTypeOK
  <2>2. o \in Owners /\ q \in Owners /\ packet[p].priority \in Nat
        /\ PriorityOf[o] \in Nat /\ PriorityOf[q] \in Nat
    BY <2>1 DEF PacketState
  <2>3. o \in Called(call[p])
    BY Zenon, <2>2 DEF Called
  <2>4. packet[p].pc \in {"call", "wait", "done"}
    BY Zenon, <2>1, <2>3 DEF LoopInv, PacketState
  <2>5. q \in Called(call[p]) /\ q \notin Unanswered(call[p])
    <3>1. CASE packet[p].pc = "call"
      BY SMTT(30), <2>1, <2>2, <2>3, <3>1 DEF LoopInv
    <3>2. CASE packet[p].pc = "wait"
      <4>1. PriorityOf[o] <= packet[p].priority
        BY Zenon, <2>1, <2>3, <3>2 DEF LoopInv
      <4> QED
        BY <2>1, <2>2, <3>2, <4>1 DEF LoopInv
    <3>3. CASE packet[p].pc = "done"
      BY Zenon, <2>1, <3>3 DEF LoopInv
    <3> QED
      BY Zenon, <2>4, <3>1, <3>2, <3>3
  <2> QED
    BY Zenon, <2>2, <2>5 DEF Called, Unanswered
<1> QED
  BY <1>1, Invariant, PTL

\* No verdict before the last answer: the two counters add up.
THEOREM Answered == SubscribersSpec => []AllAnswered
<1>1. Inv => AllAnswered
  <2> SUFFICES ASSUME Inv, NEW p \in Packets, packet[p].pc = "done"
               PROVE  packet[p].sublist = {o \in Owners : call[p][o].st = "received"}
    BY Zenon DEF AllAnswered
  <2>1. Unanswered(call[p]) = {} /\ Called(call[p]) = packet[p].sublist
    BY Zenon DEF Inv, LoopInv
  <2> QED
    BY Zenon, <2>1 DEF Called, Unanswered
<1> QED
  BY <1>1, Invariant, PTL

\* With every priority below the limit the loop never panics.
THEOREM NeverPanics == SubscribersSpec => []NoPanic
<1>1. Inv => NoPanic
  BY Zenon DEF Inv, LoopInv, NoPanic
<1> QED
  BY <1>1, Invariant, PTL

\* The bypass entry is there when the last subscription has gone, and is not set
\* before.
THEOREM BypassExact == SubscribersSpec => BypassIffUnsubscribed
<1>1. Inv => (Owners # {} /\ subscriptions = {} => bypass)
  BY Zenon DEF Inv, EmptyBypassed
<1>2. ASSUME Inv, [SubscribersNext]_subscriberVars
      PROVE  [bypass' # bypass => bypass' /\ subscriptions' = {}]_subscriberVars
  <2> SUFFICES ASSUME bypass' # bypass PROVE bypass' /\ subscriptions' = {}
    BY Zenon
  <2>1. \/ \E p \in Packets : Start(p)
        \/ \E o \in Owners : ReleaseSession(o)
    BY Zenon, <1>2
       DEF SubscribersNext, PacketStep, CallPriority, StartCalls, Receive, NextPriority, Return,
           PluginReleases, Forward, Timeout, subscriberVars
  <2>2. bypass \in BOOLEAN
    BY Zenon, <1>2 DEF Inv, SubscribersTypeOK
  <2>3. bypass' \in BOOLEAN /\ (bypass => bypass') /\ (bypass' => bypass \/ subscriptions' = {})
    BY Zenon, <2>1 DEF Start, ReleaseSession
  <2> QED
    BY <2>2, <2>3
<1> QED
  BY <1>1, <1>2, Invariant, PTL DEF BypassIffUnsubscribed, SubscribersSpec

\* Of a packet that waits for answers, one of the plugins it waits for can still
\* answer, unless a timer has fired: the loop never waits with nothing to come.
WaitsForACall ==
    \A p \in Packets : packet[p].pc = "wait" /\ packet[p].hitcount > 0 =>
        \/ TimedOut(p)
        \/ \E o \in Hits(p) : call[p][o].st \in {"running", "ready", "sending"}

\* What keeps a packet from its verdict is always a plugin of the priority at
\* hand that still works or whose result is under way, or a timer that fired:
\* hitcount counts exactly the calls that were made and not answered.
THEOREM WaitsWithReason == SubscribersSpec => []WaitsForACall
<1>1. ASSUME Inv, NEW p \in Packets, packet[p].pc = "wait", packet[p].hitcount > 0
      PROVE  \/ TimedOut(p)
             \/ \E o \in Hits(p) : call[p][o].st \in {"running", "ready", "sending"}
  <2>1. /\ packet[p].hitcount = Cardinality(Unanswered(call[p]))
        /\ Called(call[p]) = {o \in packet[p].sublist : PriorityOf[o] <= packet[p].priority}
        /\ \A o \in Unanswered(call[p]) : PriorityOf[o] = packet[p].priority
    BY Zenon, <1>1 DEF Inv, LoopInv
  <2>2. Unanswered(call[p]) # {}
    BY <1>1, <2>1, FS_EmptySet
  <2>3. PICK o \in Unanswered(call[p]) : TRUE
    BY Zenon, <2>2
  <2>4. o \in Owners /\ call[p][o].st \notin {"none", "received"}
    BY Zenon, <2>3 DEF Unanswered
  <2>5. call[p][o].st \in {"none", "running", "ready", "sending", "received", "late", "stuck"}
    BY Zenon, <1>1, <2>4 DEF Inv, SubscribersTypeOK, CallState
  <2>6. o \in Hits(p)
    BY Zenon, <2>1, <2>3, <2>4 DEF Called, Hits
  <2> QED
    BY Zenon, <2>4, <2>5, <2>6 DEF TimedOut
<1>2. Inv => WaitsForACall
  BY Zenon, <1>1 DEF WaitsForACall
<1> QED
  BY <1>2, Invariant, PTL

-----------------------------------------------------------------------------
(***************************************************************************)
(* The refinement: what each step of the loop, of a plugin and of a timer  *)
(* looks like from outside.                                                *)
(***************************************************************************)
\* A step of packet p changes its own phase and answers only.
LEMMA OutsideStep ==
    ASSUME NEW p \in Packets,
           \A q \in Packets \ {p} : packet'[q] = packet[q] /\ call'[q] = call[q]
    PROVE  Phase' = [Phase EXCEPT ![p] = Phase'[p]] /\ Waiting' = [Waiting EXCEPT ![p] = Waiting'[p]]
<1>1. \A q \in Packets \ {p} : Phase'[q] = Phase[q] /\ Waiting'[q] = Waiting[q]
  BY Zenon DEF Phase, Waiting
<1>2. Phase' = [Phase EXCEPT ![p] = Phase'[p]]
  BY Zenon, <1>1 DEF Phase
<1>3. Waiting' = [Waiting EXCEPT ![p] = Waiting'[p]]
  BY Zenon, <1>1 DEF Waiting
<1> QED
  BY Zenon, <1>2, <1>3

\* If neither changes the step is not seen.
LEMMA Unseen ==
    ASSUME NEW p \in Packets,
           \A q \in Packets \ {p} : packet'[q] = packet[q] /\ call'[q] = call[q],
           packet'[p].pc = packet[p].pc \/ {packet'[p].pc, packet[p].pc} \subseteq {"call", "wait"},
           packet'[p].sublist = packet[p].sublist,
           \A o \in packet[p].sublist : call'[p][o].st = "received" <=> call[p][o].st = "received",
           UNCHANGED <<subscriptions, bypass>>
    PROVE  UNCHANGED Promise!pvars
<1>1. ASSUME NEW q \in Packets PROVE Phase'[q] = Phase[q] /\ Waiting'[q] = Waiting[q]
  <2>1. CASE q = p
    BY <2>1 DEF Phase, Waiting
  <2>2. CASE q # p
    BY Zenon, <2>2 DEF Phase, Waiting
  <2> QED
    BY Zenon, <2>1, <2>2
<1>2. UNCHANGED <<Phase, Waiting>>
  BY <1>1 DEF Phase, Waiting
<1> QED
  BY Zenon, <1>2 DEF Promise!pvars

\* A call that is not answered is asked for: its packet waits, and who has not
\* been called yet comes later.
LEMMA AskedFor ==
    ASSUME Inv, NEW p \in Packets, NEW o \in Owners, call[p][o].st \notin {"none", "received"}
    PROVE  packet[p].pc = "wait" /\ o \in packet[p].sublist /\ Promise!Asked(p, o)
<1>1. o \in Unanswered(call[p]) /\ o \in Called(call[p])
  BY Zenon DEF Unanswered, Called
<1>2. LoopInv(packet[p], call[p])
  BY Zenon DEF Inv
<1>3. packet[p].pc \in {"idle", "call", "wait", "done", "panic"} /\ packet[p].sublist \subseteq Owners
  BY Zenon DEF Inv, SubscribersTypeOK, PacketState
<1>4. packet[p].pc = "wait"
  BY Zenon, <1>1, <1>2, <1>3 DEF LoopInv
<1>5. /\ Called(call[p]) = {q \in packet[p].sublist : PriorityOf[q] <= packet[p].priority}
      /\ \A q \in Unanswered(call[p]) : PriorityOf[q] = packet[p].priority
  BY Zenon, <1>2, <1>4 DEF LoopInv
<1>6. o \in packet[p].sublist /\ PriorityOf[o] = packet[p].priority
  BY Zenon, <1>1, <1>5
<1>7. ASSUME NEW q \in packet[p].sublist, call[p][q].st # "received"
      PROVE  PriorityOf[o] <= PriorityOf[q]
  <2>1. q \in Owners /\ PriorityOf[q] \in Int /\ PriorityOf[o] \in Int
    BY <1>3
  <2>2. CASE call[p][q].st = "none"
    <3>1. q \notin Called(call[p])
      BY Zenon, <2>2 DEF Called
    <3> QED
      BY <1>5, <1>6, <2>1, <3>1
  <2>3. CASE call[p][q].st # "none"
    <3>1. q \in Unanswered(call[p])
      BY Zenon, <1>7, <2>1, <2>3 DEF Unanswered
    <3> QED
      BY <1>5, <1>6, <2>1, <3>1
  <2> QED
    BY Zenon, <2>2, <2>3
<1>8. Phase[p] = "open" /\ Waiting[p] = {q \in packet[p].sublist : call[p][q].st # "received"}
  BY Zenon, <1>4 DEF Phase, Waiting
<1>9. o \in Waiting[p] /\ \A q \in Waiting[p] : PriorityOf[o] <= PriorityOf[q]
  BY Zenon, <1>6, <1>7, <1>8
<1> QED
  BY Zenon, <1>4, <1>6, <1>8, <1>9 DEF Promise!Asked

\* Who leaves an empty session finds it bypassed already.
LEMMA LeaveSeen ==
    ASSUME Inv, NEW o \in Owners, ReleaseSession(o)
    PROVE  Promise!Leave(o)
<1>1. bypass \in BOOLEAN /\ (subscriptions = {} => bypass)
  BY Zenon DEF Inv, SubscribersTypeOK, EmptyBypassed
<1>2. subscriptions = {} => subscriptions' = {}
  BY Zenon DEF ReleaseSession
<1> QED
  BY Zenon, <1>1, <1>2 DEF ReleaseSession, Promise!Leave

LEMMA StartSeen ==
    ASSUME Inv, NEW p \in Packets, Start(p)
    PROVE  Promise!Begin(p)
<1>1. /\ packet[p].pc = "idle" /\ UNCHANGED <<subscriptions, call>>
      /\ bypass' = (bypass \/ subscriptions = {})
      /\ packet'[p].pc = IF subscriptions = {} THEN "done" ELSE "call"
      /\ packet'[p].sublist = subscriptions
      /\ \A q \in Packets \ {p} : packet'[q] = packet[q] /\ call'[q] = call[q]
  BY Zenon DEF Start, Inv, SubscribersTypeOK
<1>2. Called(call[p]) = {} /\ subscriptions \subseteq Owners
  BY Zenon, <1>1 DEF Inv, LoopInv, SubscribersTypeOK
<1>3. {o \in subscriptions : call'[p][o].st # "received"} = subscriptions
  BY Zenon, <1>1, <1>2 DEF Called
<1>4. /\ Phase[p] = "idle" /\ Phase'[p] = IF subscriptions = {} THEN "done" ELSE "open"
      /\ Waiting'[p] = subscriptions
  BY Zenon, <1>1, <1>3 DEF Phase, Waiting
<1>5. /\ Phase' = [Phase EXCEPT ![p] = IF subscriptions = {} THEN "done" ELSE "open"]
      /\ Waiting' = [Waiting EXCEPT ![p] = subscriptions]
  BY Zenon, <1>1, <1>4, OutsideStep
<1> QED
  BY Zenon, <1>1, <1>4, <1>5 DEF Promise!Begin

LEMMA CallUnseen ==
    ASSUME Inv, NEW p \in Packets, CallPriority(p)
    PROVE  UNCHANGED Promise!pvars
<1>1. /\ packet[p].pc = "call" /\ packet'[p].pc = "wait" /\ packet'[p].sublist = packet[p].sublist
      /\ \A q \in Packets \ {p} : packet'[q] = packet[q] /\ call'[q] = call[q]
      /\ UNCHANGED <<subscriptions, bypass>>
  BY DEF CallPriority, StartCalls, Loop, Inv, SubscribersTypeOK
<1>2. \A o \in Owners : call'[p][o] = IF o \in Hits(p) THEN [st |-> "running", release |-> FALSE]
                                      ELSE call[p][o]
  BY Zenon DEF CallPriority, StartCalls, Inv, SubscribersTypeOK
<1>3. Called(call[p]) = {o \in packet[p].sublist : PriorityOf[o] < packet[p].priority}
  BY Zenon, <1>1 DEF Inv, LoopInv
<1>4. packet[p].priority \in Nat /\ packet[p].sublist \subseteq Owners
  BY Zenon DEF Inv, SubscribersTypeOK, PacketState
<1>5. \A o \in Hits(p) : o \in Owners /\ o \notin Called(call[p])
  BY <1>3, <1>4 DEF Hits
<1>6. \A o \in Hits(p) : call[p][o].st = "none"
  BY Zenon, <1>5 DEF Called
<1>7. \A o \in packet[p].sublist : call'[p][o].st = "received" <=> call[p][o].st = "received"
  BY <1>2, <1>4, <1>6
<1> QED
  BY Zenon, <1>1, <1>7, Unseen

\* What the goroutines of a call do between its start and the loop's reading of
\* its result.
LEMMA GoroutineUnseen ==
    ASSUME Inv, NEW p \in Packets, NEW o \in Owners, Return(p, o) \/ Forward(p, o) \/ Timeout(p, o)
    PROVE  UNCHANGED Promise!pvars
<1>1. PICK st, rel : Call(p, o, st, rel) /\ st # "received" /\ call[p][o].st # "received"
  BY Zenon DEF Return, Forward, Timeout
<1>2. UNCHANGED <<subscriptions, bypass, packet>>
  BY Zenon DEF Return, Forward, Timeout
<1>3. /\ \A q \in Packets \ {p} : call'[q] = call[q]
      /\ call'[p][o].st = st
      /\ \A q \in Owners \ {o} : call'[p][q] = call[p][q]
  BY Zenon, <1>1 DEF Call, Inv, SubscribersTypeOK
<1>4. packet[p].sublist \subseteq Owners
  BY Zenon DEF Inv, SubscribersTypeOK, PacketState
<1>5. \A q \in packet[p].sublist : call'[p][q].st = "received" <=> call[p][q].st = "received"
  BY Zenon, <1>1, <1>3, <1>4
<1> QED
  BY Zenon, <1>2, <1>3, <1>5, Unseen

LEMMA ReleaseSeen ==
    ASSUME Inv, NEW p \in Packets, NEW o \in Owners, PluginReleases(p, o)
    PROVE  Promise!Release(p, o)
<1>1. Promise!Asked(p, o)
  BY Zenon, AskedFor DEF PluginReleases
<1>2. Promise!Leave(o)
  BY Zenon, LeaveSeen DEF PluginReleases
<1>3. UNCHANGED <<Phase, Waiting>>
  BY Zenon DEF PluginReleases, Phase, Waiting
<1> QED
  BY Zenon, <1>1, <1>2, <1>3 DEF Promise!Release

LEMMA ReceiveSeen ==
    ASSUME Inv, NEW p \in Packets, NEW o \in Owners, Receive(p, o)
    PROVE  Promise!Answer(p, o)
<1>1. Promise!Asked(p, o) /\ packet[p].pc = "wait"
  BY Zenon, AskedFor DEF Receive
<1>2. /\ packet'[p].pc = "wait" /\ packet'[p].sublist = packet[p].sublist
      /\ call'[p][o].st = "received"
      /\ \A q \in Owners \ {o} : call'[p][q] = call[p][q]
      /\ \A q \in Packets \ {p} : packet'[q] = packet[q] /\ call'[q] = call[q]
  BY Zenon DEF Receive, Loop, Call, Inv, SubscribersTypeOK
<1>3. Waiting[p] = {q \in packet[p].sublist : call[p][q].st # "received"} /\ packet[p].sublist \subseteq Owners
  BY Zenon DEF Waiting, Inv, SubscribersTypeOK, PacketState
<1>4. Waiting'[p] = Waiting[p] \ {o}
  BY <1>2, <1>3 DEF Waiting
<1>5. Waiting' = [Waiting EXCEPT ![p] = Waiting[p] \ {o}]
  BY Zenon, <1>2, <1>4, OutsideStep
<1>6. Phase' = Phase
  BY Zenon, <1>1, <1>2 DEF Phase
<1>7. Promise!Leave(o) \/ UNCHANGED <<subscriptions, bypass>>
  BY Zenon, LeaveSeen DEF Receive
<1> QED
  BY Zenon, <1>1, <1>5, <1>6, <1>7 DEF Promise!Answer

\* The loop ends only with all answers, and never at the limit.
LEMMA NextPrioritySeen ==
    ASSUME Inv, Inv', NEW p \in Packets, NextPriority(p)
    PROVE  Promise!Finish(p) \/ UNCHANGED Promise!pvars
<1>1. /\ packet[p].pc = "wait" /\ packet'[p].pc \in {"panic", "call", "done"}
      /\ packet'[p].sublist = packet[p].sublist
      /\ \A q \in Packets \ {p} : packet'[q] = packet[q]
      /\ UNCHANGED <<subscriptions, bypass, call>>
  BY DEF NextPriority, Loop, Inv, SubscribersTypeOK
<1>2. packet'[p].pc # "panic"
  BY Zenon DEF Inv, LoopInv
<1>3. CASE packet'[p].pc = "call"
  BY Zenon, <1>1, <1>3, Unseen
<1>4. CASE packet'[p].pc = "done"
  <2>0. LoopInv(packet'[p], call'[p])
    BY Zenon DEF Inv
  <2>1. Unanswered(call[p]) = {} /\ Called(call[p]) = packet[p].sublist
    BY Zenon, <1>1, <1>4, <2>0 DEF LoopInv
  <2>2. {o \in packet[p].sublist : call[p][o].st # "received"} = {}
    BY Zenon, <2>1 DEF Unanswered, Called
  <2>3. Phase[p] = "open" /\ Waiting[p] = {}
    BY Zenon, <1>1, <2>2 DEF Phase, Waiting
  <2>4. Phase'[p] = "done"
    BY Zenon, <1>4 DEF Phase
  <2>5. Phase' = [Phase EXCEPT ![p] = "done"]
    BY Zenon, <1>1, <2>4, OutsideStep
  <2>6. Waiting' = Waiting
    BY Zenon, <1>1 DEF Waiting
  <2> QED
    BY Zenon, <1>1, <2>3, <2>5, <2>6 DEF Promise!Finish
<1> QED
  BY Zenon, <1>1, <1>2, <1>3, <1>4

LEMMA SubscribersSeen ==
    Inv /\ Inv' /\ [SubscribersNext]_subscriberVars => [Promise!Next]_(Promise!pvars)
<1> SUFFICES ASSUME Inv, Inv', [SubscribersNext]_subscriberVars
             PROVE  Promise!Next \/ UNCHANGED Promise!pvars
  BY Zenon
<1>1. CASE UNCHANGED subscriberVars
  BY Zenon, <1>1 DEF subscriberVars, Promise!pvars, Phase, Waiting
<1>2. ASSUME NEW p \in Packets, PacketStep(p)
      PROVE  Promise!Next \/ UNCHANGED Promise!pvars
  <2>1. CASE Start(p)
    BY Zenon, <2>1, StartSeen DEF Promise!Next
  <2>2. CASE CallPriority(p)
    BY Zenon, <2>2, CallUnseen
  <2>3. ASSUME NEW o \in Owners, Receive(p, o) PROVE Promise!Next
    BY Zenon, <2>3, ReceiveSeen DEF Promise!Next
  <2>4. CASE NextPriority(p)
    BY Zenon, <2>4, NextPrioritySeen DEF Promise!Next
  <2> QED
    BY Zenon, <1>2, <2>1, <2>2, <2>3, <2>4 DEF PacketStep
<1>3. ASSUME NEW p \in Packets, NEW o \in Owners, Return(p, o) \/ Forward(p, o) \/ Timeout(p, o)
      PROVE  UNCHANGED Promise!pvars
  BY Zenon, <1>3, GoroutineUnseen
<1>4. ASSUME NEW p \in Packets, NEW o \in Owners, PluginReleases(p, o) PROVE Promise!Next
  BY Zenon, <1>4, ReleaseSeen DEF Promise!Next
<1> QED
  BY Zenon, <1>1, <1>2, <1>3, <1>4 DEF SubscribersNext

\* callSubscribers keeps its promise: any number of packets, each with its loop
\* and its goroutines, look from outside as if every subscriber had been asked
\* in turn.
THEOREM ImplementsVerdicts == SubscribersSpec => VerdictSpec
<1>1. SubscribersInit => Promise!Init
  <2> SUFFICES ASSUME SubscribersInit PROVE Promise!Init
    BY Zenon
  <2>1. Phase = [p \in Packets |-> "idle"] /\ Waiting = [p \in Packets |-> {}]
    BY DEF SubscribersInit, Idle, Phase, Waiting
  <2> QED
    BY Zenon, <2>1 DEF SubscribersInit, Promise!Init
<1> QED
  BY <1>1, Invariant, SubscribersSeen, PTL DEF SubscribersSpec, VerdictSpec, Promise!Spec

=============================================================================
