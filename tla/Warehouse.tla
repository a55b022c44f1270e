------------------------------ MODULE Warehouse ------------------------------
(***************************************************************************)
(* Capture and playback of traffic.  A playback runs on a goroutine of its *)
(* own and feeds recorded packets and events to the callbacks of dispatch; *)
(* the ids it meets are collected in two lists, so that a later clean-up   *)
(* can take what the playback left out of the tables.  cleanupMutex is     *)
(* held for a whole playback and for a whole clean-up.                     *)
(***************************************************************************)
EXTENDS Integers, FiniteSets

CONSTANTS
    Plays,   \* playbacks that are ever requested
    NoPlay,  \* no lists
    Ctids    \* conntrack ids in the capture file

ASSUME WarehouseAssumption == NoPlay \notin Plays

VARIABLES
    warehouse_flag,  \* g_warehouse_flag: idle, playback or capture
    capfile,         \* is the capture file open?
    play,            \* state of each playback
    nfTracker,       \* the ids each playback gave to nfqueueCallback
    ctTracker,       \* the ids it gave to conntrackCallback
    cleanupLists,    \* the playback whose lists dispatch would clean up
    sessions,        \* playback ids in dispatch's session table
    conntracks,      \* playback ids in its conntrack table
    older            \* history: ids that earlier playbacks left in the tables

warehouseVars ==
    <<warehouse_flag, capfile, play, nfTracker, ctTracker, cleanupLists, sessions, conntracks, older>>

PlayState == {"none", "waiting", "playing", "done"}

WarehouseTypeOK ==
    /\ warehouse_flag \in {"I", "P", "C"}
    /\ capfile \in BOOLEAN
    /\ play \in [Plays -> PlayState]
    /\ nfTracker \in [Plays -> SUBSET Ctids]
    /\ ctTracker \in [Plays -> SUBSET Ctids]
    /\ cleanupLists \in Plays \cup {NoPlay}
    /\ sessions \subseteq Ctids
    /\ conntracks \subseteq Ctids
    /\ older \subseteq Ctids

\* parseArguments: -playback or -capture may have set the flag.
WarehouseInit ==
    /\ warehouse_flag \in {"I", "P", "C"}
    /\ capfile = FALSE
    /\ play = [p \in Plays |-> "none"]
    /\ nfTracker = [p \in Plays |-> {}]
    /\ ctTracker = [p \in Plays |-> {}]
    /\ cleanupLists = NoPlay
    /\ sessions = {}
    /\ conntracks = {}
    /\ older = {}

-----------------------------------------------------------------------------
(***************************************************************************)
(* Playback.                                                               *)
(***************************************************************************)
\* Mutant of HandleWarehousePlayback: the lists are made before the goroutine
\* has the mutex.
HandleWarehousePlaybackEarly(p) ==
    /\ play[p] = "none"
    /\ play' = [play EXCEPT ![p] = "waiting"]
    /\ cleanupLists' = p
    /\ UNCHANGED <<capfile, nfTracker, ctTracker, sessions, conntracks, older>>

\* The goroutine that waits for cleanupMutex.
HandleWarehousePlayback(p) ==
    /\ play[p] = "none"
    /\ play' = [play EXCEPT ![p] = "waiting"]
    /\ UNCHANGED <<capfile, nfTracker, ctTracker, cleanupLists, sessions, conntracks, older>>

\* The REST request sets flag, file and speed without the mutex.
RequestPlayback(p) ==
    /\ warehouse_flag' = "P"
    /\ HandleWarehousePlayback(p)

MutexFree == \A p \in Plays : play[p] # "playing"

\* The mutex is taken and new lists are made, which the callbacks fill.  A file
\* that cannot be opened or has a bad header ends the playback; the flag stays.
BeginPlayback(p) ==
    /\ play[p] = "waiting"
    /\ MutexFree
    /\ \E state \in {"playing", "done"} : play' = [play EXCEPT ![p] = state]
    /\ cleanupLists' = p
    /\ older' = sessions \cup conntracks
    /\ UNCHANGED <<warehouse_flag, capfile, nfTracker, ctTracker, sessions, conntracks>>

\* A recorded packet: go_nfqueue_callback with the playback flag runs to its
\* end before the next record.  dispatch may refuse to make a session of it.
PlayPacket(p, ctid) ==
    /\ play[p] = "playing"
    /\ nfTracker' = [nfTracker EXCEPT ![p] = @ \cup {ctid}]
    /\ sessions' \in {sessions, sessions \cup {ctid}}
    /\ UNCHANGED <<warehouse_flag, capfile, play, ctTracker, cleanupLists, conntracks, older>>

\* A recorded event: NEW and UPDATE may add the conntrack, DELETE takes
\* conntrack and session away.
PlayEvent(p, ctid) ==
    /\ play[p] = "playing"
    /\ ctTracker' = [ctTracker EXCEPT ![p] = @ \cup {ctid}]
    /\ \/ conntracks' \in {conntracks, conntracks \cup {ctid}} /\ UNCHANGED sessions
       \/ conntracks' = conntracks \ {ctid} /\ sessions' = sessions \ {ctid}
    /\ UNCHANGED <<warehouse_flag, capfile, play, nfTracker, cleanupLists, older>>

\* End of file, or a record that cannot be read.
EndPlayback(p) ==
    /\ play[p] = "playing"
    /\ play' = [play EXCEPT ![p] = "done"]
    /\ warehouse_flag' = "I"
    /\ UNCHANGED <<capfile, nfTracker, ctTracker, cleanupLists, sessions, conntracks, older>>

Tracked(tracker) == IF cleanupLists = NoPlay THEN {} ELSE tracker[cleanupLists]

HandleWarehouseCleanup ==
    /\ MutexFree
    /\ sessions' = sessions \ Tracked(nfTracker)
    /\ conntracks' = conntracks \ Tracked(ctTracker)
    /\ cleanupLists' = NoPlay
    /\ UNCHANGED <<warehouse_flag, capfile, play, nfTracker, ctTracker, older>>

-----------------------------------------------------------------------------
(***************************************************************************)
(* Capture.                                                                *)
(***************************************************************************)
\* If the file cannot be created, the header is written to NULL, which ends the
\* process: the behaviour stops here.
warehouseCapture ==
    /\ warehouse_flag' = "C"
    /\ capfile' = TRUE
    /\ UNCHANGED <<play, nfTracker, ctTracker, cleanupLists, sessions, conntracks, older>>

warehouseClose ==
    /\ warehouse_flag' = "I"
    /\ capfile' = FALSE
    /\ UNCHANGED <<play, nfTracker, ctTracker, cleanupLists, sessions, conntracks, older>>

\* What the REST server can be asked to do.
RestWarehouse ==
    \/ \E p \in Plays : RequestPlayback(p)
    \/ HandleWarehouseCleanup
    \/ warehouseCapture
    \/ warehouseClose

\* What the goroutine of a playback does.
Playback(p) ==
    \/ BeginPlayback(p)
    \/ \E ctid \in Ctids : PlayPacket(p, ctid) \/ PlayEvent(p, ctid)
    \/ EndPlayback(p)

WarehouseNext == RestWarehouse \/ \E p \in Plays : Playback(p)

WarehouseSpec == WarehouseInit /\ [][WarehouseNext]_warehouseVars

-----------------------------------------------------------------------------
\* dispatch.go: HandleWarehouseCleanup "removes the nfqueue and conntrack entries
\* that were created by the previous warehouse playback operation": whatever
\* the last playback has in a table is in the list for that table, although
\* requests come at any time and the next playback makes both lists anew.
PlaybackCleanable ==
    /\ sessions \subseteq Tracked(nfTracker) \cup older
    /\ conntracks \subseteq Tracked(ctTracker) \cup older

=============================================================================
