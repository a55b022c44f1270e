---------------------------- MODULE ServicesProofs ---------------------------
(***************************************************************************)
(* Proofs about plugins and services: the managers of the classd daemon    *)
(* (module Classd), the caches of certfetch and revdns (module             *)
(* HolderCache) and the dict service (module Dict).                        *)
(***************************************************************************)
EXTENDS Classd, HolderCache, Dict, TLAPS

(***************************************************************************)
(* Classd: its types, that a lost connection is never forgotten, and that  *)
(* there are never two daemons, for any number of starts.                  *)
(***************************************************************************)
\* Until PluginShutdown the socket manager has nothing but connects to do.
SocketManagerUp ==
    main \in {"up", "stopping"} =>
        /\ socketChannel # "systemShutdown"
        /\ socketManager.msg # "systemShutdown"
        /\ socketManager.pc \in {"loop", "waiting", "handle"}

SocketInv == ClassdTypeOK /\ SocketManagerUp /\ ReconnectPending

\* The signal to start the daemon, the launch and the goroutine that waits for
\* it follow each other; there is one of them at a time.
Launching == processManager = At("handle", "daemonStartup") \/ processManager.pc = "starting"

OneLauncher ==
    /\ processChannel = "daemonStartup" => ~Launching /\ monitor = "none"
    /\ Launching => monitor = "none"

\* A daemon is asked for only after the last one ended.
EndedBefore ==
    (\/ processChannel = "daemonStartup"
     \/ processManager = At("handle", "daemonStartup")
     \/ monitor \notin {"none", "watch"})
    => daemon \in {"none", "exited", "failed"}

DaemonInv == ClassdTypeOK /\ OneLauncher /\ EndedBefore

-----------------------------------------------------------------------------
LEMMA AtType ==
    ASSUME NEW signals, NEW msg \in signals \cup {"none"},
           NEW pc \in {"loop", "waiting", "handle", "starting", "control", "finished"}
    PROVE  At(pc, msg) \in ManagerState(signals)
  BY DEF At, ManagerState

LEMMA InitType == ClassdInit => ClassdTypeOK
<1> SUFFICES ASSUME ClassdInit PROVE ClassdTypeOK
  OBVIOUS
<1>1. At("loop", "none") \in ManagerState(ProcessSignal) /\ At("loop", "none") \in ManagerState(SocketSignal)
  BY AtType
<1>2. 0 \in 0..MaxStarts
  BY StartsAssumption
<1>3. "daemonStartup" \in ProcessSignal
  BY DEF ProcessSignal
<1> QED
  BY Zenon, <1>1, <1>2, <1>3 DEF ClassdInit, ClassdTypeOK

\* Sending a signal keeps the channel and the manager well typed.
LEMMA SignalTypes ==
    /\ \A msg \in ProcessSignal : ClassdTypeOK /\ SignalProcessManager(msg) =>
         /\ processChannel' \in ProcessSignal \cup {"empty"}
         /\ processManager' \in ManagerState(ProcessSignal)
         /\ dropped' \in BOOLEAN
    /\ \A msg \in SocketSignal : ClassdTypeOK /\ SignalSocketManager(msg) =>
         /\ socketChannel' \in SocketSignal \cup {"empty"}
         /\ socketManager' \in ManagerState(SocketSignal)
  BY Zenon, AtType DEF ClassdTypeOK, SignalProcessManager, SignalSocketManager

LEMMA NextType == ClassdTypeOK /\ [ClassdNext]_classdVars => ClassdTypeOK'
<1> SUFFICES ASSUME ClassdTypeOK, [ClassdNext]_classdVars PROVE ClassdTypeOK'
  BY Zenon
<1> USE DEF ClassdTypeOK, processVars, socketVars
<1>1. CASE ProcessManagerStep
  <2>1. CASE DaemonStarted
    <3>1. "socketConnect" \in SocketSignal
      BY DEF SocketSignal
    <3> QED
      BY <2>1, <3>1, SignalTypes, AtType DEF DaemonStarted
  <2>2. CASE DaemonStartup
    <3>1. starts' \in 0..MaxStarts
      BY <2>2, StartsAssumption DEF DaemonStartup
    <3>2. processManager' \in ManagerState(ProcessSignal)
      BY Zenon, <2>2, AtType DEF DaemonStartup
    <3> QED
      BY <2>2, <3>1, <3>2 DEF DaemonStartup
  <2>3. CASE SystemShutdown \/ DaemonShutdown
    <3>1. processManager' \in ManagerState(ProcessSignal)
      BY <2>3, AtType DEF SystemShutdown, DaemonShutdown
    <3>2. daemon' \in {daemon, "interrupted"} /\ daemonProcess' \in BOOLEAN /\ shutdownFlag' \in BOOLEAN
      BY Zenon, <2>3 DEF SystemShutdown, DaemonShutdown, Interrupt
    <3> QED
      BY <2>3, <3>1, <3>2 DEF SystemShutdown, DaemonShutdown
  <2>4. CASE ReceiveProcess \/ DaemonFinished
    <3>1. processManager' \in ManagerState(ProcessSignal)
      BY Zenon, <2>4, AtType DEF ReceiveProcess, DaemonFinished
    <3> QED
      BY <2>4, <3>1 DEF ReceiveProcess, DaemonFinished
  <2> QED
    BY Zenon, <1>1, <2>1, <2>2, <2>3, <2>4 DEF ProcessManagerStep
<1>2. CASE SocketManagerStep
  <2>1. socketManager' \in ManagerState(SocketSignal)
    BY Zenon, <1>2, AtType DEF SocketManagerStep, ReceiveSocket, Connected, ConnectFails, SocketShutdown
  <2> QED
    BY <1>2, <2>1 DEF SocketManagerStep, ReceiveSocket, Connected, ConnectFails, SocketShutdown, SocketSignal
<1>3. CASE MonitorStep
  <2>1. CASE MonitorChecks
    BY Zenon, <2>1 DEF MonitorChecks
  <2>2. CASE MonitorSignals
    <3>1. {"daemonShutdown", "daemonStartup", "daemonFinished"} \subseteq ProcessSignal
      BY Zenon DEF ProcessSignal
    <3> QED
      BY <2>2, <3>1, SignalTypes DEF MonitorSignals
  <2> QED
    BY <1>3, <2>1, <2>2 DEF MonitorStep
<1>4. CASE Recycle
  <2>1. "socketConnect" \in SocketSignal
    BY DEF SocketSignal
  <2> QED
    BY <1>4, <2>1, SignalTypes DEF Recycle
<1>5. CASE MainStep
  <2>1. "systemShutdown" \in SocketSignal /\ "systemShutdown" \in ProcessSignal
    BY Zenon DEF SocketSignal, ProcessSignal
  <2>2. CASE StopSocketManager \/ StopProcessManager
    BY <2>1, <2>2, SignalTypes DEF StopSocketManager, StopProcessManager
  <2>3. CASE ProcessReports \/ SocketReports \/ GiveUp
    <3>1. processManager' \in ManagerState(ProcessSignal) /\ socketManager' \in ManagerState(SocketSignal)
      BY Zenon, <2>3, AtType DEF ProcessReports, SocketReports, GiveUp
    <3> QED
      BY <2>3, <3>1 DEF ProcessReports, SocketReports, GiveUp, Proceed
  <2> QED
    BY <1>5, <2>2, <2>3 DEF MainStep
<1>6. CASE DaemonEnds \/ DaemonStartupFails \/ Stopping
  BY <1>6 DEF DaemonEnds, DaemonStartupFails, Stopping
<1>7. CASE UNCHANGED classdVars
  BY <1>7 DEF classdVars
<1> QED
  BY Zenon, <1>1, <1>2, <1>3, <1>4, <1>5, <1>6, <1>7 DEF ClassdNext

\* Every variable keeps its type: in particular a manager only ever handles the
\* signals that its channel is meant for.
THEOREM ClassdTypeCorrect == ClassdSpec => []ClassdTypeOK
  BY InitType, NextType, PTL DEF ClassdSpec

-----------------------------------------------------------------------------
\* A connect that is signalled is pending, dropped or not: what fills the
\* channel is a connect.
LEMMA SignalledConnect ==
    SocketInv /\ main \in {"up", "stopping"} /\ SignalSocketManager("socketConnect") =>
        /\ socketChannel' = "socketConnect" \/ socketManager' = At("handle", "socketConnect")
        /\ socketChannel' # "systemShutdown"
        /\ socketManager'.msg # "systemShutdown"
        /\ socketManager'.pc \in {"loop", "waiting", "handle"}
  BY DEF SocketInv, SocketManagerUp, ClassdTypeOK, SocketSignal, SignalSocketManager, At

LEMMA NextSocket == SocketInv /\ [ClassdNext]_classdVars => SocketInv'
<1> SUFFICES ASSUME SocketInv, [ClassdNext]_classdVars PROVE SocketInv'
  OBVIOUS
<1>1. ClassdTypeOK'
  BY NextType DEF SocketInv
<1> SUFFICES ASSUME main' \in {"up", "stopping"}
             PROVE  /\ socketChannel' # "systemShutdown"
                    /\ socketManager'.msg # "systemShutdown"
                    /\ socketManager'.pc \in {"loop", "waiting", "handle"}
                    /\ Launched' /\ daemonSocket' = "nil" =>
                         socketChannel' = "socketConnect" \/ socketManager' = At("handle", "socketConnect")
  BY <1>1 DEF SocketInv, SocketManagerUp, ReconnectPending, At
<1> USE DEF processVars, socketVars
<1>2. CASE ProcessManagerStep
  <2>1. CASE DaemonStarted
    BY Zenon, <2>1, SignalledConnect DEF DaemonStarted
  <2>2. CASE DaemonStartup
    BY <2>2 DEF DaemonStartup, Handles, SocketInv, SocketManagerUp, ReconnectPending, Launched, ClassdTypeOK, At
  <2>3. CASE ReceiveProcess \/ SystemShutdown \/ DaemonShutdown \/ DaemonFinished
    BY <2>3 DEF ReceiveProcess, SystemShutdown, DaemonShutdown, DaemonFinished, Handles, SocketInv,
                SocketManagerUp, ReconnectPending, Launched, At
  <2> QED
    BY <1>2, <2>1, <2>2, <2>3 DEF ProcessManagerStep
<1>3. CASE SocketManagerStep
  BY <1>3 DEF SocketManagerStep, ReceiveSocket, Connected, ConnectFails, SocketShutdown, SocketInv,
              SocketManagerUp, ReconnectPending, Launched, ClassdTypeOK, SocketSignal, At
<1>4. CASE MonitorStep
  <2>1. processManager'.pc = "starting" <=> processManager.pc = "starting"
    BY <1>4 DEF MonitorStep, MonitorChecks, MonitorSignals, SignalProcessManager, At
  <2>2. UNCHANGED <<socketVars, main, starts>>
    BY <1>4 DEF MonitorStep, MonitorChecks, MonitorSignals
  <2> QED
    BY Zenon, <2>1, <2>2 DEF SocketInv, SocketManagerUp, ReconnectPending, Launched
<1>5. CASE Recycle
  BY Zenon, <1>5, SignalledConnect DEF Recycle
<1>6. CASE MainStep
  BY Zenon, <1>6 DEF MainStep, StopSocketManager, StopProcessManager, ProcessReports, SocketReports, GiveUp, Proceed
<1>7. CASE DaemonEnds \/ DaemonStartupFails \/ Stopping
  BY <1>7 DEF DaemonEnds, DaemonStartupFails, Stopping, SocketInv, SocketManagerUp, ReconnectPending,
              Launched
<1>8. CASE UNCHANGED classdVars
  BY <1>8 DEF classdVars, SocketInv, SocketManagerUp, ReconnectPending, Launched
<1> QED
  BY <1>2, <1>3, <1>4, <1>5, <1>6, <1>7, <1>8 DEF ClassdNext

\* The socket manager never forgets a missing connection, although senders drop
\* their signals when the channel is full.
THEOREM NeverForgotten == ClassdSpec => []ReconnectPending
<1>1. ClassdInit => SocketInv
  <2> SUFFICES ASSUME ClassdInit PROVE SocketInv
    OBVIOUS
  <2>1. ClassdTypeOK
    BY InitType
  <2>2. SocketManagerUp /\ ReconnectPending
    BY DEF ClassdInit, SocketManagerUp, ReconnectPending, Launched, At
  <2> QED
    BY <2>1, <2>2 DEF SocketInv
<1>2. SocketInv => ReconnectPending
  BY DEF SocketInv
<1> QED
  BY <1>1, <1>2, NextSocket, PTL DEF ClassdSpec

-----------------------------------------------------------------------------
\* The signals other than daemonStartup do not launch anything.
LEMMA OtherSignal ==
    \A msg \in ProcessSignal \ {"daemonStartup"} : SignalProcessManager(msg) =>
        /\ processChannel' = "daemonStartup" => processChannel = "daemonStartup"
        /\ Launching' => Launching
        /\ processManager' = At("handle", "daemonStartup") => processManager = At("handle", "daemonStartup")
  BY DEF SignalProcessManager, Launching, At

LEMMA NextDaemon == DaemonInv /\ [ClassdNext]_classdVars => DaemonInv'
<1> SUFFICES ASSUME DaemonInv, [ClassdNext]_classdVars PROVE DaemonInv'
  OBVIOUS
<1>1. ClassdTypeOK'
  BY NextType DEF DaemonInv
<1> SUFFICES OneLauncher' /\ EndedBefore'
  BY <1>1 DEF DaemonInv
<1> USE DEF processVars, socketVars
<1>2. CASE ProcessManagerStep
  <2>1. CASE ReceiveProcess
    BY Zenon, <2>1 DEF ReceiveProcess, DaemonInv, OneLauncher, EndedBefore, Launching, At
  <2>2. CASE SystemShutdown \/ DaemonShutdown
    BY <2>2 DEF SystemShutdown, DaemonShutdown, Interrupt, Handles, DaemonInv, OneLauncher, EndedBefore,
                Launching, At
  <2>3. CASE DaemonStartup \/ DaemonStarted
    BY <2>3 DEF DaemonStartup, DaemonStarted, Handles, DaemonInv, OneLauncher, EndedBefore, Launching, At
  <2>4. CASE DaemonFinished
    BY <2>4 DEF DaemonFinished, Handles, DaemonInv, OneLauncher, EndedBefore, Launching, At
  <2> QED
    BY Zenon, <1>2, <2>1, <2>2, <2>3, <2>4 DEF ProcessManagerStep
<1>3. CASE MonitorStep
  <2>1. CASE MonitorChecks
    BY <2>1 DEF MonitorChecks, DaemonInv, OneLauncher, EndedBefore, Launching
  <2>2. CASE MonitorSignals /\ monitor # "restart2"
    <3>1. PICK msg \in ProcessSignal \ {"daemonStartup"} : SignalProcessManager(msg)
      BY <2>2 DEF MonitorSignals, ProcessSignal
    <3>2. monitor \notin {"none", "watch"} /\ UNCHANGED daemon
      BY Zenon, <2>2 DEF MonitorSignals
    <3> QED
      BY <3>1, <3>2, OtherSignal DEF DaemonInv, OneLauncher, EndedBefore
  <2>3. CASE MonitorSignals /\ monitor = "restart2"
    BY <2>3 DEF MonitorSignals, SignalProcessManager, DaemonInv, OneLauncher, EndedBefore, Launching, At
  <2> QED
    BY Zenon, <1>3, <2>1, <2>2, <2>3 DEF MonitorStep
<1>4. CASE MainStep
  <2>1. CASE StopProcessManager
    <3>1. "systemShutdown" \in ProcessSignal \ {"daemonStartup"}
      BY Zenon DEF ProcessSignal
    <3> QED
      BY <2>1, <3>1, OtherSignal DEF StopProcessManager, DaemonInv, OneLauncher, EndedBefore
  <2>2. CASE StopSocketManager \/ SocketReports \/ GiveUp
    BY <2>2 DEF StopSocketManager, SocketReports, GiveUp, DaemonInv, OneLauncher, EndedBefore, Launching
  <2>3. CASE ProcessReports
    BY ZenonT(60), <2>3 DEF ProcessReports, DaemonInv, OneLauncher, EndedBefore, Launching, At
  <2> QED
    BY Zenon, <1>4, <2>1, <2>2, <2>3 DEF MainStep
<1>5. CASE SocketManagerStep \/ Recycle \/ DaemonStartupFails \/ Stopping
  BY Zenon, <1>5 DEF SocketManagerStep, ReceiveSocket, Connected, ConnectFails, SocketShutdown, Recycle,
              DaemonStartupFails, Stopping, DaemonInv, OneLauncher, EndedBefore, Launching
<1>6. CASE DaemonEnds
  BY Zenon, <1>6 DEF DaemonEnds, DaemonInv, OneLauncher, EndedBefore, Launching
<1>7. CASE UNCHANGED classdVars
  BY <1>7 DEF classdVars, DaemonInv, OneLauncher, EndedBefore, Launching
<1> QED
  BY <1>2, <1>3, <1>4, <1>5, <1>6, <1>7 DEF ClassdNext

\* classd is launched only when the one before has ended, whatever signals are
\* dropped and whoever sends them.
THEOREM NeverTwoDaemons == ClassdSpec => OneDaemon
<1>1. ClassdInit => DaemonInv
  <2> SUFFICES ASSUME ClassdInit PROVE DaemonInv
    OBVIOUS
  <2>1. ClassdTypeOK
    BY InitType
  <2>2. OneLauncher /\ EndedBefore
    BY DEF ClassdInit, OneLauncher, EndedBefore, Launching, At
  <2> QED
    BY Zenon, <2>1, <2>2 DEF DaemonInv
<1> DEFINE OneStarts == starts' # starts => daemon \in {"none", "exited", "failed"}
<1>2. DaemonInv /\ [ClassdNext]_classdVars => [OneStarts]_classdVars
  <2> SUFFICES ASSUME DaemonInv, ClassdNext, starts' # starts PROVE daemon \in {"none", "exited", "failed"}
    BY SMTT(60)
  <2>1. DaemonStartup
    BY Zenon DEF ClassdNext, ProcessManagerStep, SocketManagerStep, MonitorStep, MainStep, ReceiveProcess,
           SystemShutdown, DaemonShutdown, DaemonStarted, DaemonFinished, ReceiveSocket, Connected,
           ConnectFails, SocketShutdown, MonitorChecks, MonitorSignals, Recycle, DaemonEnds,
           DaemonStartupFails, Stopping, StopSocketManager, StopProcessManager, ProcessReports,
           SocketReports, GiveUp
  <2> QED
    BY <2>1 DEF DaemonStartup, Handles, DaemonInv, EndedBefore
<1>3. ClassdSpec => [][OneStarts]_classdVars
  <2> HIDE DEF OneStarts
  <2> QED
    BY <1>1, <1>2, NextDaemon, PTL DEF ClassdSpec
<1> QED
  BY <1>3 DEF OneDaemon

-----------------------------------------------------------------------------
\* As long as the plugin is up nobody has told the process manager to end.
StopSignals == {"systemShutdown", "daemonFinished"}

ManagerUp ==
    main = "up" =>
        /\ ~shutdownFlag
        /\ monitor \notin {"finish", "finish2"}
        /\ processChannel \notin StopSignals
        /\ processManager.msg \notin StopSignals
        /\ processManager.pc \notin {"control", "finished"}

\* While the plugin is up and no signal was dropped, the daemon is watched by a
\* goroutine that will signal its end, or the signal to start it is under way.
RestartPending ==
    main = "up" /\ ~dropped =>
        \/ Launching
        \/ processChannel = "daemonStartup"
        \/ monitor \in {"watch", "restart", "restart2"}

RestartInv == ManagerUp /\ RestartPending

LEMMA NextRestart == ClassdTypeOK /\ RestartInv /\ [ClassdNext]_classdVars => RestartInv'
<1> SUFFICES ASSUME ClassdTypeOK, RestartInv, [ClassdNext]_classdVars PROVE RestartInv'
  BY Zenon
<1> USE DEF RestartInv, ManagerUp, RestartPending, Launching, StopSignals, At
<1>1. CASE ReceiveProcess
  BY <1>1 DEF ReceiveProcess
<1>2. CASE SystemShutdown \/ DaemonShutdown
  BY <1>2 DEF SystemShutdown, DaemonShutdown, Handles
<1>3. CASE DaemonStartup
  BY Zenon, <1>3 DEF DaemonStartup
<1>4. CASE DaemonStarted
  BY Zenon, <1>4 DEF DaemonStarted
<1>5. CASE DaemonFinished \/ DaemonStartupFails
  BY <1>5 DEF DaemonFinished, DaemonStartupFails, Handles
<1>6. CASE DaemonEnds
  BY Zenon, <1>6 DEF DaemonEnds, processVars
<1>7. CASE MonitorChecks
  BY <1>7 DEF MonitorChecks, processVars, ClassdTypeOK
<1>8. CASE MonitorSignals
  <2>1. UNCHANGED <<main, shutdownFlag>>
    BY Zenon, <1>8 DEF MonitorSignals
  <2>2. ASSUME NEW msg, SignalProcessManager(msg), ~dropped'
        PROVE  /\ ~dropped
               /\ \/ processManager' = At("handle", msg) /\ UNCHANGED processChannel
                  \/ processChannel' = msg /\ UNCHANGED processManager
    BY Zenon, <2>2 DEF SignalProcessManager
  <2>3. ASSUME NEW msg, SignalProcessManager(msg)
        PROVE  /\ processManager' \in {processManager, At("handle", msg)}
               /\ processChannel' \in {processChannel, msg}
    BY Zenon, <2>3 DEF SignalProcessManager
  <2>4. CASE monitor = "restart" /\ monitor' = "restart2" /\ SignalProcessManager("daemonShutdown")
    <3>1. ManagerUp'
      BY <2>1, <2>3, <2>4
    <3> QED
      BY Zenon, <2>4, <3>1
  <2>5. CASE monitor \in {"finish", "finish2"}
    BY <2>1, <2>5
  <2>6. CASE monitor = "restart2" /\ monitor' = "none" /\ SignalProcessManager("daemonStartup")
    <3>1. ManagerUp'
      BY <2>1, <2>3, <2>6
    <3>2. ~dropped' => Launching' \/ processChannel' = "daemonStartup"
      BY Zenon, <2>2, <2>6
    <3> QED
      BY Zenon, <3>1, <3>2
  <2> QED
    BY Zenon, <1>8, <2>4, <2>5, <2>6 DEF MonitorSignals
<1>9. CASE SocketManagerStep \/ Recycle
  BY <1>9 DEF SocketManagerStep, ReceiveSocket, Connected, ConnectFails, SocketShutdown, Recycle, processVars
<1>10. CASE Stopping \/ MainStep
  <2>1. main' # "up"
    BY Zenon, <1>10 DEF Stopping, MainStep, StopSocketManager, StopProcessManager, ProcessReports, SocketReports,
                 GiveUp, Proceed
  <2> QED
    BY Zenon, <2>1
<1>11. CASE UNCHANGED classdVars
  BY <1>11 DEF classdVars, processVars
<1> QED
  BY Zenon, <1>1, <1>2, <1>3, <1>4, <1>5, <1>6, <1>7, <1>8, <1>9, <1>10, <1>11
  DEF ClassdNext, ProcessManagerStep, MonitorStep

\* The chain from the end of the daemon to its next start is never broken while
\* the plugin is up, but for a signal that found the channel full.  The process
\* manager that has to take the last step does not end before it is told to.
THEOREM NeverAbandoned == ClassdSpec => [](ManagerUp /\ RestartPending)
<1>1. ClassdInit => RestartInv
  BY DEF ClassdInit, RestartInv, ManagerUp, RestartPending, StopSignals, At
<1>2. RestartInv <=> ManagerUp /\ RestartPending
  BY DEF RestartInv
<1> QED
  BY <1>1, <1>2, NextRestart, ClassdTypeCorrect, PTL DEF ClassdSpec

-----------------------------------------------------------------------------
(***************************************************************************)
(* What the caches guarantee for any number of packets and keys, and what  *)
(* one mutex per key adds to it.                                           *)
(***************************************************************************)
\* A packet works with a holder of its own key, its own one while it fills it.
Uses ==
    \A p \in Packets :
        /\ packet[p].pc # "idle" => /\ packet[p].uses \in Packets
                                    /\ KeyOf[packet[p].uses] = KeyOf[p]
        /\ packet[p].pc \in {"idle", "insert", "fetch"} => holder[p].waiting

\* The table maps a key to a holder of that key.
TableKeys == \A k \in Addrs : table[k] # NoPacket => KeyOf[table[k]] = k

CacheInv == CacheTypeOK /\ Uses /\ TableKeys /\ AttachesFetched

LEMMA InvInit == CacheInit => CacheInv
<1> SUFFICES ASSUME CacheInit PROVE CacheInv
  OBVIOUS
<1>1. CacheTypeOK
  BY Zenon DEF CacheInit, CacheTypeOK, NewHolder, Holder, PacketState
<1>2. Uses /\ TableKeys /\ AttachesFetched
  BY DEF CacheInit, Uses, TableKeys, AttachesFetched, NewHolder
<1> QED
  BY Zenon, <1>1, <1>2 DEF CacheInv

LEMMA InvFind ==
    ASSUME CacheInv, NEW p \in Packets, Find(p)
    PROVE  CacheInv'
<1> DEFINE h == table[KeyOf[p]]
<1>1. /\ KeyOf[p] \in Addrs /\ MutexOf[p] \in Mutexes /\ h \in Packets \cup {NoPacket}
      /\ h # NoPacket => KeyOf[h] = KeyOf[p]
  BY Zenon, CacheAssumption DEF CacheInv, CacheTypeOK, TableKeys
<1>2. PICK pc \in {"wait", "insert"}, u \in Packets :
        /\ packet' = [packet EXCEPT ![p] = [pc |-> pc, uses |-> u, attached |-> FALSE]]
        /\ KeyOf[u] = KeyOf[p]
        /\ packet[p].pc = "idle"
        /\ UNCHANGED <<table, holder>>
  BY Zenon, <1>1 DEF Find, Continue
<1>3. CacheTypeOK'
  <2>1. mutex' \in [Mutexes -> Packets \cup {NoPacket}]
    BY Zenon, <1>1 DEF Find, CacheInv, CacheTypeOK
  <2>2. packet' \in [Packets -> PacketState]
    BY <1>2 DEF CacheInv, CacheTypeOK, PacketState
  <2> QED
    BY <1>2, <2>1, <2>2 DEF CacheInv, CacheTypeOK
<1>4. Uses' /\ TableKeys' /\ AttachesFetched'
  BY ZenonT(60), <1>2 DEF CacheInv, CacheTypeOK, Uses, TableKeys, AttachesFetched, PacketState
<1> QED
  BY <1>3, <1>4 DEF CacheInv

LEMMA InvInsert ==
    ASSUME CacheInv, NEW p \in Packets, Insert(p)
    PROVE  CacheInv'
<1>1. KeyOf[p] \in Addrs /\ MutexOf[p] \in Mutexes
  BY CacheAssumption
<1>2. CacheTypeOK'
  BY <1>1 DEF Insert, Continue, CacheInv, CacheTypeOK, PacketState
<1>3. Uses' /\ AttachesFetched'
  BY ZenonT(60) DEF Insert, Continue, CacheInv, CacheTypeOK, Uses, AttachesFetched, PacketState
<1>4. TableKeys'
  BY Zenon, <1>1 DEF Insert, CacheInv, CacheTypeOK, TableKeys
<1> QED
  BY <1>2, <1>3, <1>4 DEF CacheInv

\* The holder that is filled was waiting, so that nobody has used it before.
LEMMA InvFetch ==
    ASSUME CacheInv, NEW p \in Packets, Fetch(p)
    PROVE  CacheInv'
<1>1. PICK found \in BOOLEAN :
        holder' = [holder EXCEPT ![p] = [waiting |-> FALSE, available |-> found, old |-> FALSE]]
  BY ZenonT(60) DEF Fetch
<1>2. /\ packet' = [packet EXCEPT ![p] = [pc |-> "wait", uses |-> p, attached |-> FALSE]]
      /\ packet[p].pc = "fetch" /\ holder[p].waiting /\ UNCHANGED <<table, mutex>>
  BY DEF Fetch, Continue, CacheInv, Uses
<1>3. CacheTypeOK'
  BY Zenon, <1>1, <1>2 DEF CacheInv, CacheTypeOK, PacketState, Holder
<1>4. Uses' /\ TableKeys'
  BY SMTT(60), <1>1, <1>2 DEF CacheInv, CacheTypeOK, Uses, TableKeys, PacketState, Holder
<1>5. ASSUME NEW q \in Packets, packet'[q].pc = "done"
      PROVE  LET h == packet'[q].uses IN
             /\ KeyOf[h] = KeyOf[q] /\ ~holder'[h].waiting
             /\ packet'[q].attached = holder'[h].available
  <2>1. q # p /\ packet'[q] = packet[q]
    BY Zenon, <1>2, <1>5 DEF CacheInv, CacheTypeOK
  <2>2. packet[q].uses \in Packets /\ ~holder[packet[q].uses].waiting
    BY Zenon, <1>5, <2>1 DEF CacheInv, Uses, AttachesFetched
  <2>3. packet[q].uses # p /\ holder'[packet[q].uses] = holder[packet[q].uses]
    BY <1>1, <1>2, <2>2 DEF CacheInv, CacheTypeOK
  <2> QED
    BY <1>5, <2>1, <2>3 DEF CacheInv, AttachesFetched
<1> QED
  BY <1>3, <1>4, <1>5 DEF CacheInv, AttachesFetched

LEMMA InvAttach ==
    ASSUME CacheInv, NEW p \in Packets, Attach(p)
    PROVE  CacheInv'
<1>1. /\ packet[p].uses \in Packets /\ KeyOf[packet[p].uses] = KeyOf[p]
      /\ holder[packet[p].uses].available \in BOOLEAN
  BY ZenonT(60) DEF Attach, CacheInv, CacheTypeOK, Uses, Holder
<1>2. CacheTypeOK'
  BY Zenon, <1>1 DEF Attach, Continue, CacheInv, CacheTypeOK, PacketState
<1>3. Uses' /\ TableKeys' /\ AttachesFetched'
  BY ZenonT(60), <1>1 DEF Attach, Continue, CacheInv, CacheTypeOK, Uses, TableKeys, AttachesFetched, PacketState
<1> QED
  BY Zenon, <1>2, <1>3 DEF CacheInv

LEMMA InvAging ==
    ASSUME CacheInv, (\E p \in Packets : GrowOld(p)) \/ Clean
    PROVE  CacheInv'
<1>1. CASE Clean
  BY ZenonT(60), <1>1 DEF Clean, CacheInv, CacheTypeOK, Uses, TableKeys, AttachesFetched
<1>2. ASSUME NEW p \in Packets, GrowOld(p) PROVE CacheInv'
  <2>1. /\ \A q \in Packets : /\ holder'[q].waiting = holder[q].waiting
                             /\ holder'[q].available = holder[q].available
        /\ holder' \in [Packets -> Holder]
        /\ UNCHANGED <<table, mutex, packet>>
    BY Zenon, <1>2 DEF GrowOld, CacheInv, CacheTypeOK, Holder
  <2> QED
    BY ZenonT(60), <2>1 DEF CacheInv, CacheTypeOK, Uses, TableKeys, AttachesFetched
<1> QED
  BY Zenon, <1>1, <1>2

LEMMA InvStep == CacheInv /\ [CacheNext]_cacheVars => CacheInv'
<1> SUFFICES ASSUME CacheInv, [CacheNext]_cacheVars PROVE CacheInv'
  OBVIOUS
<1>1. CASE UNCHANGED cacheVars
  BY Zenon, <1>1 DEF cacheVars, CacheInv, CacheTypeOK, Uses, TableKeys, AttachesFetched
<1> QED
  BY ZenonT(60), <1>1, InvFind, InvInsert, InvFetch, InvAttach, InvAging DEF CacheNext, Step

\* Types of the tables, holders and goroutines.
THEOREM CacheTypeCorrect == CacheSpec => []CacheTypeOK
<1>1. CacheInv => CacheTypeOK
  BY DEF CacheInv
<1> QED
  BY <1>1, InvInit, InvStep, PTL DEF CacheSpec

\* The WaitGroup keeps every packet from reading a holder before its fetch is
\* done, with any number of mutexes and whatever the cleaner removes.
THEOREM Fetched == CacheSpec => []AttachesFetched
<1>1. CacheInv => AttachesFetched
  BY DEF CacheInv
<1> QED
  BY <1>1, InvInit, InvStep, PTL DEF CacheSpec

-----------------------------------------------------------------------------
\* certfetch has one mutex for all packets; revdns has not.
OneMutexPerKey == \A p, q \in Packets : KeyOf[p] = KeyOf[q] => MutexOf[p] = MutexOf[q]

\* A packet that found nothing holds its mutex, and there is still nothing.
Exclusive ==
    \A p \in Packets : packet[p].pc = "insert" => /\ mutex[MutexOf[p]] = p
                                                  /\ table[KeyOf[p]] = NoPacket

LEMMA ExclusiveStep ==
    ASSUME OneMutexPerKey, CacheInv, Exclusive, [CacheNext]_cacheVars
    PROVE  Exclusive'
<1>1. \A p \in Packets : KeyOf[p] \in Addrs /\ MutexOf[p] \in Mutexes
  BY Zenon, CacheAssumption
<1>2. ASSUME NEW p \in Packets, Find(p) PROVE Exclusive'
  BY SMTT(60), <1>1, <1>2, CacheAssumption DEF Find, Continue, Exclusive, CacheInv, CacheTypeOK
<1>3. ASSUME NEW p \in Packets, Insert(p) PROVE Exclusive'
  <2>1. ASSUME NEW q \in Packets, packet'[q].pc = "insert"
        PROVE  mutex'[MutexOf[q]] = q /\ table'[KeyOf[q]] = NoPacket
    <3>1. q # p /\ packet[q].pc = "insert"
      BY ZenonT(60), <1>3, <2>1 DEF Insert, Continue, CacheInv, CacheTypeOK
    <3>2. mutex[MutexOf[q]] = q /\ mutex[MutexOf[p]] = p /\ table[KeyOf[q]] = NoPacket
      BY ZenonT(60), <1>3, <3>1 DEF Insert, Exclusive
    <3>3. MutexOf[q] # MutexOf[p] /\ KeyOf[q] # KeyOf[p]
      BY Zenon, <3>1, <3>2 DEF OneMutexPerKey
    <3> QED
      BY Zenon, <1>1, <1>3, <3>2, <3>3 DEF Insert, CacheInv, CacheTypeOK
  <2> QED
    BY Zenon, <2>1 DEF Exclusive
<1>4. ASSUME NEW p \in Packets, Fetch(p) \/ Attach(p) PROVE Exclusive'
  BY <1>4 DEF Fetch, Attach, Continue, Exclusive, CacheInv, CacheTypeOK
<1>5. ASSUME NEW p \in Packets, GrowOld(p) PROVE Exclusive'
  BY Zenon, <1>5 DEF GrowOld, Exclusive
<1>6. CASE Clean
  BY Zenon, <1>1, <1>6 DEF Clean, Exclusive
<1>7. CASE UNCHANGED cacheVars
  BY <1>7 DEF cacheVars, Exclusive
<1> QED
  BY <1>2, <1>3, <1>4, <1>5, <1>6, <1>7 DEF CacheNext, Step

\* If all packets of a key use the same mutex, as in certfetch, no holder is
\* ever replaced while it is in the table.
THEOREM NotReplaced == OneMutexPerKey => (CacheSpec => NeverReplaced)
<1> SUFFICES ASSUME OneMutexPerKey PROVE CacheSpec => NeverReplaced
  BY Zenon
<1>1. CacheInit => Exclusive
  BY DEF CacheInit, Exclusive
<1>2. CacheInv /\ Exclusive /\ [CacheNext]_cacheVars => Exclusive'
  BY ExclusiveStep
<1>3. ASSUME CacheInv, Exclusive, [CacheNext]_cacheVars
      PROVE  [\A k \in Addrs : table[k] # NoPacket => table'[k] \in {table[k], NoPacket}]_cacheVars
  <2>1. ASSUME NEW p \in Packets, Insert(p)
        PROVE  \A k \in Addrs : table[k] # NoPacket => table'[k] \in {table[k], NoPacket}
    BY Zenon, <1>3, <2>1, CacheAssumption DEF Insert, Exclusive, CacheInv, CacheTypeOK
  <2>2. CASE Clean
    BY <2>2 DEF Clean
  <2> QED
    BY Zenon, <1>3, <2>1, <2>2 DEF CacheNext, Step, Find, Fetch, Attach, GrowOld, cacheVars
<1> QED
  BY <1>1, <1>2, <1>3, InvInit, InvStep, PTL DEF CacheSpec, NeverReplaced

-----------------------------------------------------------------------------
\* Packet u has made its holder and inserted it.
Made(u) == packet[u].uses = u /\ packet[u].pc \in {"fetch", "wait", "done"}

\* A packet that waits, or waited, uses a holder that was made; a packet that
\* made the holder itself has filled it.
UsesMade(p) ==
    /\ packet[p].pc \in {"insert", "fetch"} => packet[p].uses = p
    /\ packet[p].pc \in {"wait", "done"} => Made(packet[p].uses)
    /\ packet[p].pc \in {"wait", "done"} /\ packet[p].uses = p => ~holder[p].waiting

\* A mutex is held from the lookup to the insertion.
Held(m) == mutex[m] # NoPacket => packet[mutex[m]].pc = "insert" /\ MutexOf[mutex[m]] = m

InTable(k) == table[k] # NoPacket => Made(table[k])

MakerInv ==
    /\ \A m \in Mutexes : Held(m)
    /\ \A k \in Addrs : InTable(k)
    /\ \A p \in Packets : UsesMade(p)

\* A packet that cannot lock the handler's mutex waits for one that is about to
\* unlock it, and one that waits for a WaitGroup waits for a fetch that is
\* under way: neither of these two waits for anybody.
WaitsForAFetch ==
    \A p \in Packets :
        /\ packet[p].pc = "idle" /\ mutex[MutexOf[p]] # NoPacket =>
             packet[mutex[MutexOf[p]]].pc = "insert"
        /\ packet[p].pc = "wait" /\ holder[packet[p].uses].waiting =>
             packet[packet[p].uses].pc = "fetch"

\* Who was made stays made when packet p does a step of its own, and the other
\* packets use what they used.
LEMMA MakerOthers ==
    ASSUME CacheInv, MakerInv, NEW p \in Packets,
           \A q \in Packets \ {p} : packet'[q] = packet[q] /\ holder'[q] = holder[q],
           Made(p) => Made(p)'
    PROVE  /\ \A u \in Packets : Made(u) => Made(u)'
           /\ \A q \in Packets \ {p} : UsesMade(q)'
<1>1. ASSUME NEW u \in Packets, Made(u) PROVE Made(u)'
  <2>1. CASE u = p
    BY Zenon, <1>1, <2>1
  <2>2. CASE u # p
    BY Zenon, <1>1, <2>2 DEF Made
  <2> QED
    BY Zenon, <2>1, <2>2
<1>2. ASSUME NEW q \in Packets \ {p} PROVE UsesMade(q)'
  <2>1. packet'[q] = packet[q] /\ holder'[q] = holder[q] /\ UsesMade(q)
    BY Zenon DEF MakerInv
  <2>2. packet[q].pc \in {"wait", "done"} => packet[q].uses \in Packets
    BY Zenon DEF CacheInv, Uses
  <2>3. ASSUME packet[q].pc \in {"wait", "done"} PROVE Made(packet[q].uses)'
    <3>1. PICK u \in Packets : u = packet[q].uses
      BY Zenon, <2>2, <2>3
    <3>2. Made(u)'
      BY Zenon, <1>1, <2>1, <2>3, <3>1 DEF UsesMade
    <3> QED
      BY Zenon, <2>1, <3>1, <3>2 DEF Made
  <2> QED
    BY Zenon, <2>1, <2>3 DEF UsesMade
<1> QED
  BY Zenon, <1>1, <1>2

\* A mutex that p does not take or give back stays as it is.
LEMMA HeldOthers ==
    ASSUME CacheInv, MakerInv, NEW p \in Packets, packet[p].pc # "insert", NEW m \in Mutexes,
           \A q \in Packets \ {p} : packet'[q] = packet[q],
           mutex'[m] = mutex[m]
    PROVE  Held(m)'
<1>1. Held(m) /\ mutex[m] \in Packets \cup {NoPacket}
  BY Zenon DEF MakerInv, CacheInv, CacheTypeOK
<1> QED
  BY Zenon, <1>1 DEF Held

\* What is in the table stays made.
LEMMA TableOthers ==
    ASSUME CacheInv, MakerInv, \A u \in Packets : Made(u) => Made(u)', NEW k \in Addrs,
           table'[k] = table[k]
    PROVE  InTable(k)'
<1> SUFFICES ASSUME table[k] # NoPacket PROVE Made(table[k])'
  BY Zenon DEF InTable
<1>1. PICK u \in Packets : u = table[k] /\ Made(u)
  BY Zenon DEF MakerInv, InTable, CacheInv, CacheTypeOK
<1> QED
  BY Zenon, <1>1 DEF Made

LEMMA MakerFind ==
    ASSUME CacheInv, MakerInv, NEW p \in Packets, Find(p)
    PROVE  MakerInv'
<1> DEFINE h == table[KeyOf[p]]
<1>1. KeyOf[p] \in Addrs /\ MutexOf[p] \in Mutexes /\ h \in Packets \cup {NoPacket}
  BY Zenon, CacheAssumption DEF CacheInv, CacheTypeOK
<1>2. /\ packet[p].pc = "idle" /\ UNCHANGED <<table, holder>>
      /\ \A q \in Packets \ {p} : packet'[q] = packet[q]
  BY Zenon DEF Find, Continue, CacheInv, CacheTypeOK
<1>3. ~Made(p)
  BY <1>2 DEF Made
<1>4. /\ \A u \in Packets : Made(u) => Made(u)'
      /\ \A q \in Packets \ {p} : UsesMade(q)'
  BY Zenon, <1>2, <1>3, MakerOthers
<1>5. \A k \in Addrs : InTable(k)'
  BY Zenon, <1>2, <1>4, TableOthers
<1>6. CASE h # NoPacket
  <2>1. packet'[p] = [pc |-> "wait", uses |-> h, attached |-> FALSE] /\ UNCHANGED mutex
    BY Zenon, <1>6 DEF Find, Continue, CacheInv, CacheTypeOK
  <2>2. PICK u \in Packets : u = h /\ u # p /\ Made(u)'
    BY Zenon, <1>1, <1>3, <1>4, <1>6 DEF MakerInv, InTable
  <2>3. UsesMade(p)'
    BY <2>1, <2>2 DEF UsesMade, Made
  <2>4. \A m \in Mutexes : Held(m)'
    BY Zenon, <1>2, <2>1, HeldOthers
  <2> QED
    BY Zenon, <1>4, <1>5, <2>3, <2>4 DEF MakerInv
<1>7. CASE h = NoPacket
  <2>1. /\ packet'[p] = [pc |-> "insert", uses |-> p, attached |-> FALSE]
        /\ mutex' = [mutex EXCEPT ![MutexOf[p]] = p]
    BY Zenon, <1>7 DEF Find, Continue, CacheInv, CacheTypeOK
  <2>2. UsesMade(p)'
    BY <2>1 DEF UsesMade
  <2>3. ASSUME NEW m \in Mutexes PROVE Held(m)'
    <3>1. CASE m = MutexOf[p]
      BY <2>1, <3>1 DEF Held, CacheInv, CacheTypeOK
    <3>2. CASE m # MutexOf[p]
      <4>1. mutex'[m] = mutex[m]
        BY Zenon, <2>1, <3>2 DEF CacheInv, CacheTypeOK
      <4> QED
        BY Zenon, <1>2, <4>1, HeldOthers
    <3> QED
      BY Zenon, <3>1, <3>2
  <2> QED
    BY Zenon, <1>4, <1>5, <2>2, <2>3 DEF MakerInv
<1> QED
  BY Zenon, <1>6, <1>7

LEMMA MakerInsert ==
    ASSUME CacheInv, MakerInv, NEW p \in Packets, Insert(p)
    PROVE  MakerInv'
<1>1. KeyOf[p] \in Addrs /\ MutexOf[p] \in Mutexes
  BY CacheAssumption
<1>2. /\ packet[p].pc = "insert" /\ UNCHANGED holder
      /\ packet'[p] = [pc |-> "fetch", uses |-> p, attached |-> FALSE]
      /\ \A q \in Packets \ {p} : packet'[q] = packet[q]
  BY Zenon DEF Insert, Continue, CacheInv, CacheTypeOK
<1>3. /\ table' = [table EXCEPT ![KeyOf[p]] = p]
      /\ mutex' = [mutex EXCEPT ![MutexOf[p]] = NoPacket]
  BY Zenon DEF Insert
<1>4. Made(p)' /\ UsesMade(p)'
  BY <1>2 DEF Made, UsesMade
<1>5. /\ \A u \in Packets : Made(u) => Made(u)'
      /\ \A q \in Packets \ {p} : UsesMade(q)'
  BY Zenon, <1>2, <1>4, MakerOthers
<1>6. ASSUME NEW m \in Mutexes PROVE Held(m)'
  <2>1. CASE m = MutexOf[p]
    BY Zenon, <1>1, <1>3, <2>1 DEF Held, CacheInv, CacheTypeOK
  <2>2. CASE m # MutexOf[p]
    <3>1. Held(m) /\ mutex'[m] = mutex[m] /\ mutex[m] \in Packets \cup {NoPacket}
      BY Zenon, <1>3, <2>2 DEF MakerInv, CacheInv, CacheTypeOK
    <3>2. mutex[m] # p
      BY Zenon, <2>2, <3>1, CacheAssumption DEF Held
    <3> QED
      BY Zenon, <1>2, <3>1, <3>2 DEF Held
  <2> QED
    BY Zenon, <2>1, <2>2
<1>7. ASSUME NEW k \in Addrs PROVE InTable(k)'
  <2>1. CASE k = KeyOf[p]
    BY Zenon, <1>1, <1>3, <1>4, <2>1 DEF InTable, Made, CacheInv, CacheTypeOK
  <2>2. CASE k # KeyOf[p]
    <3>1. table'[k] = table[k]
      BY Zenon, <1>3, <2>2 DEF CacheInv, CacheTypeOK
    <3> QED
      BY Zenon, <1>5, <3>1, TableOthers
  <2> QED
    BY Zenon, <2>1, <2>2
<1> QED
  BY Zenon, <1>4, <1>5, <1>6, <1>7 DEF MakerInv

LEMMA MakerFetchAttach ==
    ASSUME CacheInv, MakerInv, NEW p \in Packets, Fetch(p) \/ Attach(p)
    PROVE  MakerInv'
<1>1. /\ UNCHANGED <<table, mutex>>
      /\ \A q \in Packets \ {p} : packet'[q] = packet[q] /\ holder'[q] = holder[q]
  BY DEF Fetch, Attach, Continue, CacheInv, CacheTypeOK
<1>2. packet[p].pc \in {"fetch", "wait"} /\ UsesMade(p)
  BY Zenon DEF Fetch, Attach, MakerInv
<1>3. CASE Fetch(p)
  <2>1. packet'[p] = [pc |-> "wait", uses |-> p, attached |-> FALSE] /\ ~holder'[p].waiting
    BY <1>3 DEF Fetch, Continue, CacheInv, CacheTypeOK
  <2>2. Made(p)' /\ UsesMade(p)'
    BY <2>1 DEF Made, UsesMade
  <2> QED
    BY Zenon, <1>1, <1>2, <2>2, MakerOthers, HeldOthers, TableOthers DEF MakerInv
<1>4. CASE Attach(p)
  <2>1. /\ packet'[p].pc = "done" /\ packet'[p].uses = packet[p].uses
        /\ packet[p].pc = "wait" /\ UNCHANGED holder
    BY Zenon, <1>4 DEF Attach, Continue, CacheInv, CacheTypeOK
  <2>2. Made(p) => Made(p)'
    BY <2>1 DEF Made
  <2>3. /\ \A u \in Packets : Made(u) => Made(u)'
        /\ \A q \in Packets \ {p} : UsesMade(q)'
    BY Zenon, <1>1, <2>2, MakerOthers
  <2>4. UsesMade(p)'
    <3>1. PICK u \in Packets : u = packet[p].uses /\ Made(u)
      BY Zenon, <1>2, <2>1 DEF UsesMade, CacheInv, Uses
    <3> QED
      BY Zenon, <1>2, <2>1, <2>3, <3>1 DEF UsesMade, Made
  <2> QED
    BY Zenon, <1>1, <1>2, <2>3, <2>4, HeldOthers, TableOthers DEF MakerInv
<1> QED
  BY Zenon, <1>3, <1>4

LEMMA MakerAging ==
    ASSUME CacheInv, MakerInv, (\E p \in Packets : GrowOld(p)) \/ Clean
    PROVE  MakerInv'
<1>1. UNCHANGED <<mutex, packet>>
  BY Zenon DEF GrowOld, Clean
<1>2. \A k \in Addrs : table'[k] \in {table[k], NoPacket}
  BY DEF GrowOld, Clean
<1>3. \A q \in Packets : holder'[q].waiting = holder[q].waiting
  <2>1. ASSUME NEW p \in Packets, GrowOld(p)
        PROVE  \A q \in Packets : holder'[q].waiting = holder[q].waiting
    BY Zenon, <2>1 DEF GrowOld, CacheInv, CacheTypeOK, Holder
  <2>2. CASE Clean
    BY Zenon, <2>2 DEF Clean
  <2> QED
    BY Zenon, <2>1, <2>2
<1>4. ASSUME NEW k \in Addrs, table'[k] # NoPacket PROVE Made(table[k])'
  <2>1. table'[k] = table[k] /\ Made(table[k])
    BY Zenon, <1>2, <1>4 DEF MakerInv, InTable
  <2> QED
    BY Zenon, <1>1, <2>1 DEF Made
<1> QED
  BY Zenon, <1>1, <1>3, <1>4 DEF MakerInv, Held, InTable, UsesMade, Made

LEMMA MakerStep == CacheInv /\ MakerInv /\ [CacheNext]_cacheVars => MakerInv'
<1> SUFFICES ASSUME CacheInv, MakerInv, [CacheNext]_cacheVars PROVE MakerInv'
  OBVIOUS
<1>1. CASE UNCHANGED cacheVars
  BY Zenon, <1>1 DEF cacheVars, MakerInv, Held, InTable, UsesMade, Made
<1> QED
  BY Zenon, <1>1, MakerFind, MakerInsert, MakerFetchAttach, MakerAging DEF CacheNext, Step

\* With any number of packets, keys and mutexes the two locks of the handlers
\* cannot lock each other out: whoever is waited for can go on, and the cleaner,
\* which takes holders out of the table, cannot change that.
THEOREM FetchUnderWay == CacheSpec => []WaitsForAFetch
<1>1. CacheInit => MakerInv
  BY DEF CacheInit, MakerInv, Held, InTable, UsesMade
<1>2. ASSUME CacheInv, MakerInv PROVE WaitsForAFetch
  <2>1. \A p \in Packets : MutexOf[p] \in Mutexes
    BY CacheAssumption
  <2> QED
    BY Zenon, <1>2, <2>1 DEF MakerInv, Held, UsesMade, Made, WaitsForAFetch, CacheInv, Uses
<1> QED
  BY <1>1, <1>2, InvInit, InvStep, MakerStep, PTL DEF CacheSpec

-----------------------------------------------------------------------------
(***************************************************************************)
(* Dict, for any keys, values, readers and widths of the integers: what    *)
(* readers get, and how seldom the cleaner removes a session.              *)
(***************************************************************************)
\* The kernel holds, in its form, what was written last.
Mirrors == \A k \in Keys : dict[k] = IF written[k] = None THEN None ELSE generateValue(written[k])

\* The mutex covers a request and the scan of what it returns.
Locked == \A r \in Readers :
             /\ reader[r] \in {"locked", "asked"} => readMutex = r
             /\ reader[r] = "asked" => request = Wants[r]

\* The cleaner has not noted a session for longer than since counts.
Noted == \A c \in Ctids : cleanupTable[c] # None => cleanupTable[c] <= since[c]

DictInv == TypeOK /\ Mirrors /\ Locked /\ Noted

-----------------------------------------------------------------------------
(***************************************************************************)
(* Keys and values on their way through the kernel.                        *)
(***************************************************************************)
\* A number that fits is written as it is, and read as it is.
LEMMA WrapFits ==
    ASSUME NEW half \in Nat, NEW num \in -half..(half - 1)
    PROVE  Wrap(num, half) = num /\ Scan(num, half) = num
<1>1. num + half \in 0..(2 * half - 1)
  OBVIOUS
<1>2. (num + half) % (2 * half) = num + half
  BY <1>1
<1> QED
  BY <1>2 DEF Wrap, Scan

\* The int64 of a uint32, and the int32 of a smaller type, hold the number.
LEMMA NumberFits ==
    ASSUME NEW type \in ValueTypes, IsNumber(Token(type)), NEW num \in Numbers(type)
    PROVE  /\ Half(Token(type)) \in Nat
           /\ num \in -Half(Token(type))..(Half(Token(type)) - 1)
<1>1. Int32 \in Nat /\ Int64 \in Nat /\ Int64 >= 2 * Int32
  BY Zenon, DictAssumption
<1>2. CASE type \in SmallInts
  BY Zenon, <1>1, <1>2 DEF Numbers, Token, Half
<1>3. CASE type \notin SmallInts
  <2>1. Token(type) = "int64" /\ type \in {"uint32", "int64"}
    BY Zenon, <1>3 DEF Token, IsNumber, ValueTypes
  <2>2. num \in -Int64..(Int64 - 1)
    BY SMTT(60), <1>1, <1>3, <2>1 DEF Numbers
  <2> QED
    BY Zenon, <1>1, <2>1, <2>2 DEF Half
<1> QED
  BY Zenon, <1>2, <1>3

LEMMA ValueComesBack ==
    ASSUME NEW k \in Keys, NEW v \in Values[k]
    PROVE  parseValue(generateValue(v)) = [type |-> GetterFor(v.type), val |-> v.val]
<1> DEFINE token == Token(v.type)
<1>1. v.type \in ValueTypes /\ (IsNumber(token) => v.val \in Numbers(v.type))
  BY Zenon, TypesAssumption
<1>2. generateValue(v).token = token
  BY Zenon DEF generateValue, Stored
<1>3. parseValue(generateValue(v)).val = v.val
  <2>1. CASE IsNumber(token)
    <3>1. Half(token) \in Nat /\ v.val \in -Half(token)..(Half(token) - 1)
      BY Zenon, <1>1, <2>1, NumberFits
    <3> HIDE DEF token
    <3>2. Wrap(v.val, Half(token)) = v.val /\ Scan(v.val, Half(token)) = v.val
      BY ZenonT(60), <3>1, WrapFits
    <3> QED
      BY Zenon, <1>2, <2>1, <3>2 DEF generateValue, Stored, parseValue, token
  <2>2. CASE ~IsNumber(token)
    BY ZenonT(60), <1>2, <2>2 DEF generateValue, Stored, parseValue
  <2> QED
    BY Zenon, <2>1, <2>2
<1>4. parseValue(generateValue(v)).type = GetterFor(v.type)
  BY Zenon, <1>1, <1>2 DEF parseValue, GetterFor, ValueTypes, SmallInts, Token
<1> HIDE DEF token
<1> QED
  BY <1>3, <1>4 DEF parseValue

LEMMA KeyComesBack ==
    ASSUME NEW k \in Keys
    PROVE  parseKey(generateKey(k)) = [type |-> IF k.type = "ip6" THEN "ip" ELSE k.type, val |-> k.id]
<1>1. k.type \in KeyTypes
  BY Zenon, TypesAssumption
<1>2. generateKey(k).val = k.id /\ generateKey(k).token = KeyToken(k.type)
  BY Zenon DEF generateKey
<1>3. KeyToken(k.type) # "string"
  BY Zenon, <1>1 DEF KeyToken, KeyTypes
<1>4. \A token : Contains(generateKey(k), token) <=> KeyToken(k.type) = token
  BY Zenon, <1>2, <1>3 DEF Contains
<1> QED
  BY Zenon, <1>1, <1>2, <1>4 DEF parseKey, KeyToken, KeyTypes

\* An Entry that is read is the one that its key and the value written make, if
\* the value is intact.  Otherwise it has no value; its key is still that of the
\* line if no key occurs in the value, its field is that of the line or missing.
LEMMA EntryComesBack ==
    ASSUME TypeOK, Mirrors, NEW k \in Keys, written[k] # None
    PROVE  LET e == parseEntry(Line(k)) IN
           /\ dict[k] # None
           /\ Intact(written[k]) => e = Expected(k)
           /\ ~Intact(written[k]) => e.value = Nil
           /\ e.field \in {k.field, ""}
           /\ ~Contains(generateValue(written[k]), "key_") => e.key = Expected(k).key
<1>1. written[k] \in Values[k] /\ dict[k] = generateValue(written[k])
  BY DEF TypeOK, Mirrors
<1>2. dict[k] # None
  BY Zenon, <1>1, TypesAssumption
<1>3. parseValue(dict[k]) = [type |-> GetterFor(written[k].type), val |-> written[k].val]
  BY Zenon, <1>1, ValueComesBack
<1>4. parseKey(generateKey(k)) = [type |-> IF k.type = "ip6" THEN "ip" ELSE k.type, val |-> k.id]
  BY Zenon, KeyComesBack
<1> DEFINE arg == dict[k]
           key == parseKey(generateKey(k))
           nil == Nil
           e == parseEntry(Line(k))
<1>5. e = IF Contains(arg, "table") THEN Entry("", key, k.field, nil)
          ELSE IF Contains(arg, "field") THEN Entry(k.table, key, "", nil)
          ELSE IF Contains(arg, "key_") THEN Entry(k.table, parseKey(arg), k.field, nil)
          ELSE Entry(k.table, key, k.field, parseValue(arg))
  BY Zenon DEF parseEntry, Line
<1>6. Expected(k) = Entry(k.table, key, k.field, parseValue(arg))
  BY Zenon, <1>3, <1>4 DEF Expected, Entry
<1>7. /\ Intact(written[k]) <=> ~Contains(arg, "table") /\ ~Contains(arg, "field") /\ ~Contains(arg, "key_")
      /\ Contains(generateValue(written[k]), "key_") <=> Contains(arg, "key_")
  BY Zenon, <1>1 DEF Intact
<1> HIDE DEF arg, key, nil, e
<1>8. Expected(k).key = key
  BY Zenon, <1>4 DEF Expected, key
<1>9. /\ Contains(arg, "table") \/ Contains(arg, "field") \/ Contains(arg, "key_") => e.value = nil
      /\ e.field = k.field \/ e.field = ""
      /\ ~Contains(arg, "key_") => e.key = key
  <2>1. CASE Contains(arg, "table")
    <3>1. e = Entry("", key, k.field, nil)
      BY Zenon, <1>5, <2>1
    <3> QED
      BY Zenon, <2>1, <3>1 DEF Entry
  <2>2. CASE ~Contains(arg, "table") /\ Contains(arg, "field")
    <3>1. e = Entry(k.table, key, "", nil)
      BY Zenon, <1>5, <2>2
    <3> QED
      BY Zenon, <2>2, <3>1 DEF Entry
  <2>3. CASE ~Contains(arg, "table") /\ ~Contains(arg, "field") /\ Contains(arg, "key_")
    <3>1. e = Entry(k.table, parseKey(arg), k.field, nil)
      BY Zenon, <1>5, <2>3
    <3> QED
      BY Zenon, <2>3, <3>1 DEF Entry
  <2>4. CASE ~Contains(arg, "table") /\ ~Contains(arg, "field") /\ ~Contains(arg, "key_")
    <3>1. e = Entry(k.table, key, k.field, parseValue(arg))
      BY Zenon, <1>5, <2>4
    <3> QED
      BY Zenon, <2>4, <3>1 DEF Entry
  <2> QED
    BY Zenon, <2>1, <2>2, <2>3, <2>4
<1>10. Intact(written[k]) => e = Expected(k)
  BY Zenon, <1>5, <1>6, <1>7
<1>11. e.field \in {k.field, ""} /\ (~Contains(arg, "key_") => e.key = Expected(k).key)
  BY Zenon, <1>8, <1>9
<1> QED
  BY Zenon, <1>2, <1>7, <1>9, <1>10, <1>11 DEF e, nil

\* A value that is read is never nil.
LEMMA ExpectedValue ==
    ASSUME TypeOK, NEW k \in Keys, written[k] # None
    PROVE  Expected(k).value # Nil
<1>1. written[k].type \in ValueTypes
  BY Zenon, TypesAssumption DEF TypeOK
<1>2. GetterFor(written[k].type) # "nil"
  BY Zenon, <1>1 DEF GetterFor, ValueTypes, SmallInts
<1>3. Expected(k).value.type = GetterFor(written[k].type) /\ Nil.type = "nil"
  BY Zenon DEF Expected, Nil
<1> QED
  BY Zenon, <1>2, <1>3

\* The keys of a request that have a value.
Present(keys) == {x \in keys : written[x] # None}

LEMMA EntriesMade ==
    ASSUME TypeOK, Mirrors, NEW keys \in SUBSET Keys
    PROVE  Entries(keys) = {parseEntry(Line(k)) : k \in Present(keys)}
<1>1. \A k \in keys : dict[k] # None <=> written[k] # None
  BY Zenon, EntryComesBack DEF Mirrors
<1> QED
  BY ZenonT(60), <1>1 DEF Entries, Present

LEMMA EntriesAsWritten ==
    ASSUME TypeOK, Mirrors, NEW keys \in SUBSET Keys
    PROVE  AsWritten(Entries(keys), keys)
<1>1. ASSUME NEW e \in Entries(keys), e.value # Nil
      PROVE  \E k \in keys : written[k] # None /\ Intact(written[k]) /\ e = Expected(k)
  <2>1. PICK k \in Present(keys) : e = parseEntry(Line(k))
    BY Zenon, EntriesMade
  <2>2. k \in Keys /\ k \in keys /\ written[k] # None
    BY Zenon, <2>1 DEF Present
  <2> QED
    BY Zenon, <1>1, <2>1, <2>2, EntryComesBack
<1>2. ASSUME NEW k \in keys, written[k] # None, Intact(written[k])
      PROVE  Expected(k) \in Entries(keys) /\ Expected(k).value # Nil
  <2>1. k \in Keys /\ k \in Present(keys)
    BY Zenon, <1>2 DEF Present
  <2>2. Expected(k) = parseEntry(Line(k))
    BY Zenon, <1>2, <2>1, EntryComesBack
  <2> QED
    BY Zenon, <1>2, <2>1, <2>2, EntriesMade, ExpectedValue
<1> QED
  BY Zenon, <1>1, <1>2 DEF AsWritten

\* A field names one key of a dictionary, and a ctid and a field one session key.
LEMMA OneKeyPerField ==
    ASSUME NEW k \in Keys, NEW x \in Keys, x.field = k.field,
           x \in Dictionary(k) \/ ({k, x} \subseteq SessionKeys /\ x.id = k.id)
    PROVE  x = k
<1>1. x.table = k.table /\ x.type = k.type /\ x.id = k.id
  BY Zenon, TypesAssumption DEF Dictionary, SessionKeys
<1>2. /\ k = [table |-> k.table, type |-> k.type, id |-> k.id, field |-> k.field]
      /\ x = [table |-> x.table, type |-> x.type, id |-> x.id, field |-> x.field]
  BY ZenonT(60), TypesAssumption
<1> QED
  BY Zenon, <1>1, <1>2

LEMMA EntryFields ==
    ASSUME NEW k
    PROVE  /\ Expected(k).field = k.field
           /\ Expected(k).key.val = k.id
           /\ Expected(k).key.type = IF k.type = "ip6" THEN "ip" ELSE k.type
           /\ Expected(k).value.type = GetterFor(written[k].type)
           /\ Expected(k).value.val = written[k].val
  BY Zenon DEF Expected

\* An entry with a field's name is made of the line of that field.
LEMMA EntryOfField ==
    ASSUME TypeOK, Mirrors, NEW k \in Keys, NEW x \in Keys, written[x] # None,
           parseEntry(Line(x)).field = k.field,
           x \in Dictionary(k) \/ ({k, x} \subseteq SessionKeys /\ x.id = k.id)
    PROVE  x = k
<1>1. x.field = k.field
  BY Zenon, EntryComesBack, TypesAssumption
<1> QED
  BY Zenon, <1>1, OneKeyPerField

\* GetEntry and the getter of the type find the value of a field, or nothing.
LEMMA GetEntryFinds ==
    ASSUME TypeOK, Mirrors, NEW k \in Keys
    PROVE  LET entry == GetEntry(Entries(Dictionary(k)), k.field)
           IN  IF written[k] = None THEN entry = None
               ELSE IF Intact(written[k]) THEN GetAs(entry, GetterFor(written[k].type)) = written[k].val
               ELSE entry = None \/ entry.value = Nil
<1> DEFINE entries == Entries(Dictionary(k))
           entry == GetEntry(entries, k.field)
           made == parseEntry(Line(k))
<1>1. entries = {parseEntry(Line(x)) : x \in Present(Dictionary(k))}
  BY Zenon, EntriesMade DEF Dictionary
<1>2. ASSUME NEW e \in entries, e.field = k.field
      PROVE  e = made /\ written[k] # None
  <2>1. PICK x \in Present(Dictionary(k)) : e = parseEntry(Line(x))
    BY Zenon, <1>1
  <2>2. x \in Keys /\ x \in Dictionary(k) /\ written[x] # None
    BY Zenon, <2>1 DEF Present, Dictionary
  <2>3. x = k
    BY Zenon, <1>2, <2>1, <2>2, EntryOfField
  <2> QED
    BY Zenon, <2>1, <2>2, <2>3
<1>3. CASE written[k] = None
  BY Zenon, <1>2, <1>3 DEF GetEntry
<1> HIDE DEF entries, made
<1>4. entry = None \/ (entry \in entries /\ entry.field = k.field)
  BY ZenonT(60) DEF GetEntry
<1>5. CASE written[k] # None /\ Intact(written[k])
  <2>1. made = Expected(k)
    BY Zenon, <1>5, EntryComesBack DEF made
  <2>2. made \in entries /\ made.field = k.field
    BY Zenon, <1>1, <1>5, <2>1, EntryFields DEF Present, Dictionary, made
  <2>3. entry = CHOOSE e \in entries : e.field = k.field
    BY Zenon, <2>2 DEF GetEntry
  <2>4. entry \in entries /\ entry.field = k.field
    BY ZenonT(60), <2>2, <2>3
  <2>5. entry = Expected(k)
    BY Zenon, <1>2, <2>1, <2>4
  <2> QED
    BY Zenon, <1>5, <2>5, EntryFields DEF GetAs, entries
<1>6. CASE written[k] # None /\ ~Intact(written[k])
  <2>1. made.value = Nil
    BY Zenon, <1>6, EntryComesBack DEF made
  <2> QED
    BY Zenon, <1>2, <1>4, <1>6, <2>1 DEF entries
<1> QED
  BY Zenon, <1>3, <1>5, <1>6

\* GetSessions, unless a key occurs in a value, meets no invalid key and has the
\* value of every field.
LEMMA GetSessionsFinds ==
    ASSUME TypeOK, Mirrors,
           \A x \in SessionKeys : written[x] # None => ~Contains(generateValue(written[x]), "key_"),
           NEW k \in SessionKeys, written[k] # None, Intact(written[k])
    PROVE  GetSessions(Entries(SessionKeys))[<<k.id, k.field>>] = Expected(k).value
<1> DEFINE entries == Entries(SessionKeys)
           m == {<<e.key.val, e.field>> : e \in entries}
           p == <<k.id, k.field>>
           found == CHOOSE e \in entries : <<e.key.val, e.field>> = p
<1>0. entries = {parseEntry(Line(x)) : x \in Present(SessionKeys)}
  BY Zenon, EntriesMade DEF SessionKeys
<1>1. ASSUME NEW e \in entries
      PROVE  \E x \in SessionKeys : /\ x \in Keys /\ written[x] # None /\ e = parseEntry(Line(x))
                                    /\ e.key.type = "uint32" /\ e.key.val = x.id
  <2>1. PICK x \in Present(SessionKeys) : e = parseEntry(Line(x))
    BY Zenon, <1>0
  <2>2. x \in Keys /\ x \in SessionKeys /\ written[x] # None /\ x.type = "uint32"
    BY Zenon, <2>1, TypesAssumption DEF Present, SessionKeys
  <2>3. e.key = Expected(x).key
    BY Zenon, <2>1, <2>2, EntryComesBack
  <2>4. e.key.type = "uint32" /\ e.key.val = x.id
    BY Zenon, <2>2, <2>3, EntryFields
  <2> QED
    BY Zenon, <2>1, <2>2, <2>4
<1>2. GetSessions(entries)
        = [q \in m |-> (CHOOSE e \in entries : <<e.key.val, e.field>> = q).value]
  BY Zenon, <1>1 DEF GetSessions
<1>3. Expected(k) \in entries /\ <<Expected(k).key.val, Expected(k).field>> = p
  <2>1. k \in Present(SessionKeys) /\ k \in Keys
    BY Zenon DEF Present, SessionKeys
  <2>2. Expected(k) = parseEntry(Line(k))
    BY Zenon, <2>1, EntryComesBack
  <2>3. Expected(k).key.val = k.id /\ Expected(k).field = k.field
    BY Zenon, EntryFields
  <2> QED
    BY Zenon, <1>0, <2>1, <2>2, <2>3
<1> HIDE DEF entries
<1>4. found \in entries /\ <<found.key.val, found.field>> = p
  BY Zenon, <1>3
<1>5. p \in m
  BY Zenon, <1>3
<1>6. GetSessions(entries)[p] = found.value
  BY Zenon, <1>2, <1>5
<1> HIDE DEF found, m
<1>7. PICK x \in SessionKeys : x \in Keys /\ written[x] # None /\ found = parseEntry(Line(x)) /\ found.key.val = x.id
  BY Zenon, <1>1, <1>4
<1>8. k \in Keys /\ {k, x} \subseteq SessionKeys /\ x.id = k.id /\ found.field = k.field
  BY Zenon, <1>4, <1>7 DEF SessionKeys
<1>9. x = k
  BY Zenon, <1>7, <1>8, EntryOfField
<1>10. found = Expected(k)
  BY Zenon, <1>7, <1>9, EntryComesBack
<1> QED
  BY Zenon, <1>6, <1>10 DEF entries

\* The invariant says what the readers get.
LEMMA InvReads == DictInv => ReadsWhatWasWritten
<1> SUFFICES ASSUME DictInv, NEW r \in Readers
             PROVE  /\ reader[r] = "all" => AsWritten(Entries(Keys), Keys)
                    /\ reader[r] = "asked" =>
                        /\ AsWritten(Entries(request), Wants[r])
                        /\ \A k \in Wants[r] : Wants[r] = Dictionary(k) =>
                              LET entry == GetEntry(Entries(request), k.field)
                              IN  IF written[k] = None THEN entry = None
                                  ELSE IF Intact(written[k])
                                  THEN GetAs(entry, GetterFor(written[k].type)) = written[k].val
                                  ELSE entry = None \/ entry.value = Nil
                        /\ (Wants[r] = SessionKeys
                              /\ \A k \in SessionKeys :
                                    written[k] # None => ~Contains(generateValue(written[k]), "key_")) =>
                              LET m == GetSessions(Entries(request))
                              IN  \A k \in SessionKeys : written[k] # None /\ Intact(written[k]) =>
                                      m[<<k.id, k.field>>] = Expected(k).value
  BY Zenon DEF ReadsWhatWasWritten
<1>1. reader[r] = "all" => AsWritten(Entries(Keys), Keys)
  BY Zenon, EntriesAsWritten DEF DictInv
<1>2. ASSUME reader[r] = "asked"
      PROVE  request = Wants[r] /\ Wants[r] \subseteq Keys /\ AsWritten(Entries(request), Wants[r])
  <2>1. request = Wants[r] /\ Wants[r] \in SUBSET Keys
    BY <1>2, DictAssumption DEF DictInv, Locked
  <2> QED
    BY Zenon, <2>1, EntriesAsWritten DEF DictInv
<1>3. ASSUME reader[r] = "asked", NEW k \in Wants[r], Wants[r] = Dictionary(k)
      PROVE  LET entry == GetEntry(Entries(request), k.field)
             IN  IF written[k] = None THEN entry = None
                 ELSE IF Intact(written[k]) THEN GetAs(entry, GetterFor(written[k].type)) = written[k].val
                 ELSE entry = None \/ entry.value = Nil
  <2>1. k \in Keys /\ request = Dictionary(k) /\ TypeOK /\ Mirrors
    BY Zenon, <1>2, <1>3 DEF DictInv
  <2> QED
    BY Zenon, <2>1, GetEntryFinds
<1>4. ASSUME reader[r] = "asked", Wants[r] = SessionKeys,
             \A x \in SessionKeys : written[x] # None => ~Contains(generateValue(written[x]), "key_"),
             NEW k \in SessionKeys, written[k] # None, Intact(written[k])
      PROVE  GetSessions(Entries(request))[<<k.id, k.field>>] = Expected(k).value
  <2>1. request = SessionKeys /\ TypeOK /\ Mirrors
    BY Zenon, <1>2, <1>4 DEF DictInv
  <2> QED
    BY Zenon, <1>4, <2>1, GetSessionsFinds
<1> QED
  BY Zenon, <1>1, <1>2, <1>3, <1>4

-----------------------------------------------------------------------------
(***************************************************************************)
(* The invariant.                                                          *)
(***************************************************************************)
\* What TypeOK and Mirrors say of the kernel and of its failures.
KernelInv ==
    /\ DOMAIN dict = Keys
    /\ DOMAIN written = Keys /\ \A k \in Keys : written[k] \in Values[k] \cup {None}
    /\ Mirrors
    /\ failures \in 0..MaxFailures

LEMMA FailsType ==
    ASSUME failures \in 0..MaxFailures, Fails
    PROVE  failures' \in 0..MaxFailures
  BY DictAssumption DEF Fails, CanFail

LEMMA KernelUnchanged ==
    ASSUME KernelInv, UNCHANGED kernelVars, UNCHANGED failures \/ Fails
    PROVE  KernelInv'
  BY Zenon, FailsType DEF KernelInv, Mirrors, kernelVars

LEMMA KernelWrite ==
    ASSUME KernelInv, NEW k \in Keys, NEW v \in Values[k], writeEntry(k, v)
    PROVE  KernelInv'
<1>1. CASE Fails /\ UNCHANGED kernelVars
  BY Zenon, <1>1, KernelUnchanged
<1>2. CASE /\ dict' = [dict EXCEPT ![k] = generateValue(v)]
           /\ written' = [written EXCEPT ![k] = v]
           /\ UNCHANGED failures
  <2>1. v # None
    BY Zenon, TypesAssumption
  <2>2. ASSUME NEW x \in Keys
        PROVE  /\ written'[x] = IF x = k THEN v ELSE written[x]
               /\ dict'[x] = IF x = k THEN generateValue(v) ELSE dict[x]
    BY Zenon, <1>2 DEF KernelInv
  <2>3. DOMAIN dict' = Keys /\ DOMAIN written' = Keys
    BY Zenon, <1>2 DEF KernelInv
  <2>4. \A x \in Keys : written'[x] \in Values[x] \cup {None}
    BY Zenon, <2>2 DEF KernelInv
  <2>5. Mirrors'
    BY Zenon, <2>1, <2>2 DEF KernelInv, Mirrors
  <2> QED
    BY Zenon, <1>2, <2>3, <2>4, <2>5 DEF KernelInv
<1> QED
  BY Zenon, <1>1, <1>2 DEF writeEntry

LEMMA KernelDelete ==
    ASSUME KernelInv, NEW keys, deleteEntry(keys)
    PROVE  KernelInv'
<1>1. CASE Fails /\ UNCHANGED kernelVars
  BY Zenon, <1>1, KernelUnchanged
<1>2. CASE /\ dict' = [x \in Keys |-> IF x \in keys THEN None ELSE dict[x]]
           /\ written' = [x \in Keys |-> IF x \in keys THEN None ELSE written[x]]
           /\ UNCHANGED failures
  <2>1. ASSUME NEW x \in Keys
        PROVE  /\ written'[x] = IF x \in keys THEN None ELSE written[x]
               /\ dict'[x] = IF x \in keys THEN None ELSE dict[x]
    BY Zenon, <1>2
  <2>2. DOMAIN dict' = Keys /\ DOMAIN written' = Keys
    BY Zenon, <1>2
  <2>3. \A x \in Keys : written'[x] \in Values[x] \cup {None}
    BY Zenon, <2>1 DEF KernelInv
  <2>4. Mirrors'
    BY Zenon, <2>1 DEF KernelInv, Mirrors
  <2> QED
    BY Zenon, <1>2, <2>2, <2>3, <2>4 DEF KernelInv
<1> QED
  BY Zenon, <1>1, <1>2 DEF deleteEntry

\* The rest of the invariant: the readers and the cleaner.
ReadInv ==
    /\ request \subseteq Keys
    /\ reader \in [Readers -> ReaderSteps]
    /\ readMutex \in Readers \cup {None}
    /\ leaked \in BOOLEAN
    /\ Locked

CleanInv ==
    /\ cleanupTable \in [Ctids -> 0..(MaxAge + 1) \cup {None}]
    /\ cleaner \in [pc : {"none", "listing", "walking", "waiting", "acking", "stopped"}, list : SUBSET Ctids]
    /\ service \in {"off", "running", "sending", "sent", "stopped"}
    /\ disabled \in BOOLEAN
    /\ since \in [Ctids -> 0..(MaxAge + 1)]
    /\ Noted

LEMMA InvParts == DictInv <=> KernelInv /\ ReadInv /\ CleanInv /\ writes \in 0..MaxWrites
  BY Zenon DEF DictInv, TypeOK, KernelInv, ReadInv, CleanInv

LEMMA DictStart == Init => DictInv
<1> SUFFICES ASSUME Init PROVE DictInv
  OBVIOUS
<1>1. KernelInv
  BY DictAssumption DEF Init, KernelInv, Mirrors
<1>2. ReadInv
  BY Zenon DEF Init, ReadInv, ReaderSteps, Locked
<1>3. CleanInv
  <2>1. 0 \in 0..(MaxAge + 1)
    BY DictAssumption
  <2> QED
    BY Zenon, <2>1 DEF Init, CleanInv, Noted
<1>4. writes \in 0..MaxWrites
  BY DictAssumption DEF Init
<1> QED
  BY ZenonT(60), <1>1, <1>2, <1>3, <1>4, InvParts

LEMMA ReadUnchanged == ReadInv /\ UNCHANGED readVars => ReadInv'
  BY Zenon DEF ReadInv, readVars, Locked

LEMMA CleanUnchanged == CleanInv /\ UNCHANGED cleanVars => CleanInv'
  BY Zenon DEF CleanInv, cleanVars, Noted

\* The steps of a reader.
LEMMA ReadStep ==
    ASSUME ReadInv, NEW r \in Readers, ReaderStep(r)
    PROVE  ReadInv'
<1> USE DEF ReadInv, Goto, ReaderSteps
<1>1. CASE Open(r) \/ OpenAll(r)
  BY Zenon, <1>1 DEF Open, OpenAll, Locked
<1>2. CASE Lock(r)
  <2>1. r # None
    BY DictAssumption
  <2>2. \A q \in Readers : reader[q] \notin {"locked", "asked"}
    BY Zenon, <1>2, DictAssumption DEF Lock, Locked
  <2> QED
    BY Zenon, <1>2, <2>1, <2>2 DEF Lock, Locked
<1>3. CASE Ask(r)
  <2>1. readMutex = r /\ \A q \in Readers : q # r => reader[q] \notin {"locked", "asked"}
    BY Zenon, <1>3 DEF Ask, Locked
  <2>2. Wants[r] \subseteq Keys
    BY DictAssumption
  <2> QED
    BY Zenon, <1>3, <2>1, <2>2 DEF Ask, Locked
<1>4. CASE ScanEntries(r)
  <2>1. \A q \in Readers : q # r => reader[q] \notin {"locked", "asked"}
    BY Zenon, <1>4 DEF ScanEntries, Scanned, Locked
  <2> QED
    BY Zenon, <1>4, <2>1 DEF ScanEntries, Scanned, Locked
<1>5. CASE ScanAll(r)
  BY Zenon, <1>5 DEF ScanAll, Scanned, Locked
<1> QED
  BY Zenon, <1>1, <1>2, <1>3, <1>4, <1>5 DEF ReaderStep

\* The steps of the cleaner.  What it has noted ages as fast as since counts, and
\* is forgotten when since starts again.
LEMMA CleanStep ==
    ASSUME CleanInv, CleanerStep
    PROVE  CleanInv'
<1> USE DEF CleanInv, Cleaner
<1>n. MaxAge \in Nat /\ None \notin Nat /\ 0 \in 0..(MaxAge + 1)
  BY DictAssumption
<1>1. CASE List
  <2>1. cleaner' \in [pc : {"none", "listing", "walking", "waiting", "acking", "stopped"}, list : SUBSET Ctids]
    BY SMTT(60), <1>1 DEF List, ListOf
  <2> QED
    BY Zenon, <1>1, <2>1 DEF List, ListOf, Noted
<1>2. ASSUME NEW c \in Ctids, Visit(c)
      PROVE  CleanInv'
  <2>1. cleaner' \in [pc : {"none", "listing", "walking", "waiting", "acking", "stopped"}, list : SUBSET Ctids]
    BY <1>2 DEF Visit
  <2>2. service' = service /\ disabled' = disabled
    BY Zenon, <1>2 DEF Visit
  <2>3. CASE Keep(c)
    BY Zenon, <2>1, <2>2, <2>3 DEF Keep, Noted
  <2>4. CASE RemoveOld(c)
    <3>1. /\ cleanupTable' \in [Ctids -> 0..(MaxAge + 1) \cup {None}]
          /\ since' \in [Ctids -> 0..(MaxAge + 1)]
      BY Zenon, <1>n, <2>4 DEF RemoveOld, RemoveAt
    <3>2. Noted'
      BY Zenon, <2>4 DEF RemoveOld, RemoveAt, Noted
    <3> QED
      BY Zenon, <2>1, <2>2, <3>1, <3>2
  <2>5. CASE Note(c)
    <3>1. cleanupTable' \in [Ctids -> 0..(MaxAge + 1) \cup {None}]
      BY Zenon, <1>n, <2>5 DEF Note
    <3>2. 0 <= since[c]
      BY <1>n
    <3>3. Noted'
      BY Zenon, <2>5, <3>2 DEF Note, Noted
    <3> QED
      BY Zenon, <2>1, <2>2, <2>5, <3>1, <3>3 DEF Note
  <2> QED
    BY Zenon, <1>2, <2>3, <2>4, <2>5 DEF Visit
<1>3. CASE Purge
  <2>1. cleanupTable' \in [Ctids -> 0..(MaxAge + 1) \cup {None}]
    BY Zenon, <1>3 DEF Purge
  <2>2. cleaner' \in [pc : {"none", "listing", "walking", "waiting", "acking", "stopped"}, list : SUBSET Ctids]
    BY <1>3 DEF Purge
  <2> QED
    BY Zenon, <1>3, <2>1, <2>2 DEF Purge, Noted
<1>4. CASE Cycle
  <2>1. /\ \A age \in 0..(MaxAge + 1) \cup {None} : Older(age) \in 0..(MaxAge + 1) \cup {None}
        /\ \A age \in 0..(MaxAge + 1) : Older(age) \in 0..(MaxAge + 1)
        /\ \A age, count \in 0..(MaxAge + 1) : age <= count => Older(age) <= Older(count)
    BY <1>n DEF Older
  <2>2. /\ cleanupTable' \in [Ctids -> 0..(MaxAge + 1) \cup {None}]
        /\ since' \in [Ctids -> 0..(MaxAge + 1)]
    BY Zenon, <1>4, <2>1 DEF Cycle
  <2>3. ASSUME NEW c \in Ctids, cleanupTable'[c] # None
        PROVE  cleanupTable'[c] <= since'[c]
    <3>1. cleanupTable'[c] = Older(cleanupTable[c]) /\ since'[c] = Older(since[c]) /\ cleanupTable[c] # None
      BY Zenon, <1>4, <2>3 DEF Cycle, Older
    <3>2. cleanupTable[c] \in 0..(MaxAge + 1) /\ since[c] \in 0..(MaxAge + 1) /\ cleanupTable[c] <= since[c]
      BY Zenon, <3>1 DEF Noted
    <3> QED
      BY Zenon, <2>1, <3>1, <3>2
  <2>4. cleaner' \in [pc : {"none", "listing", "walking", "waiting", "acking", "stopped"}, list : SUBSET Ctids]
    BY <1>4 DEF Cycle
  <2> QED
    BY Zenon, <1>4, <2>2, <2>3, <2>4 DEF Cycle, Noted
<1> QED
  BY Zenon, <1>1, <1>2, <1>3, <1>4 DEF CleanerStep

LEMMA ServiceStep ==
    ASSUME CleanInv, Startup \/ Shutdown \/ ShutdownStep
    PROVE  CleanInv'
<1> USE DEF CleanInv, Cleaner
<1>1. CASE Startup
  <2>1. cleaner' \in [pc : {"none", "listing", "walking", "waiting", "acking", "stopped"}, list : SUBSET Ctids]
    BY <1>1 DEF Startup
  <2> QED
    BY Zenon, <1>1, <2>1 DEF Startup, Noted
<1>2. CASE Shutdown \/ TimeOut
  BY Zenon, <1>2 DEF Shutdown, TimeOut, Noted
<1>3. CASE TakeShutdown \/ Acknowledge
  <2>1. cleaner' \in [pc : {"none", "listing", "walking", "waiting", "acking", "stopped"}, list : SUBSET Ctids]
    BY <1>3 DEF TakeShutdown, Acknowledge
  <2> QED
    BY Zenon, <1>3, <2>1 DEF TakeShutdown, Acknowledge, Noted
<1> QED
  BY Zenon, <1>1, <1>2, <1>3 DEF ShutdownStep

LEMMA DictNext == DictInv /\ [Next]_vars => DictInv'
<1>p. KernelInv' /\ ReadInv' /\ CleanInv' /\ writes' \in 0..MaxWrites => DictInv'
  BY Zenon DEF DictInv, TypeOK, KernelInv, ReadInv, CleanInv
<1> SUFFICES ASSUME KernelInv, ReadInv, CleanInv, writes \in 0..MaxWrites, [Next]_vars
             PROVE  KernelInv' /\ ReadInv' /\ CleanInv' /\ writes' \in 0..MaxWrites
  BY Zenon, InvParts, <1>p
<1>1. ASSUME NEW k \in Keys, AddEntry(k)
      PROVE  KernelInv' /\ ReadInv' /\ CleanInv' /\ writes' \in 0..MaxWrites
  <2>1. PICK v \in Values[k] : writeEntry(k, v)
    BY Zenon, <1>1 DEF AddEntry
  <2>2. UNCHANGED failures \/ Fails
    BY Zenon, <2>1 DEF writeEntry
  <2>3. writes' \in 0..MaxWrites
    BY <1>1, DictAssumption DEF AddEntry
  <2>4. UNCHANGED <<readVars, cleanVars>>
    BY Zenon, <1>1 DEF AddEntry
  <2>5. KernelInv'
    BY Zenon, <2>1, KernelWrite
  <2> QED
    BY Zenon, <2>2, <2>3, <2>4, <2>5, ReadUnchanged, CleanUnchanged
<1>2. ASSUME NEW k \in Keys, DeleteDictionary(k)
      PROVE  KernelInv' /\ ReadInv' /\ CleanInv' /\ writes' \in 0..MaxWrites
  <2>1. deleteEntry(Dictionary(k)) /\ UNCHANGED <<readVars, cleanVars, writes>>
    BY Zenon, <1>2 DEF DeleteDictionary
  <2>2. UNCHANGED failures \/ Fails
    BY Zenon, <2>1 DEF deleteEntry
  <2> QED
    BY Zenon, <2>1, <2>2, KernelDelete, ReadUnchanged, CleanUnchanged
<1>3. ASSUME NEW r \in Readers, ReaderStep(r)
      PROVE  KernelInv' /\ ReadInv' /\ CleanInv' /\ writes' \in 0..MaxWrites
  <2>1. UNCHANGED <<kernelVars, cleanVars, writes>> /\ (UNCHANGED failures \/ Fails)
    BY Zenon, <1>3 DEF ReaderStep, Open, OpenAll, Lock, Ask, ScanEntries, ScanAll, Scanned
  <2> QED
    BY Zenon, <1>3, <2>1, KernelUnchanged, ReadStep, CleanUnchanged
<1>4. CASE CleanerStep
  <2>1. UNCHANGED <<readVars, writes>>
    BY Zenon, <1>4 DEF CleanerStep, List, ListOf, Visit, Purge, Cycle
  <2>2. KernelInv'
    <3>1. ASSUME NEW c \in Ctids, Visit(c)
          PROVE  KernelInv'
      BY Zenon, <3>1, KernelUnchanged, KernelDelete DEF Visit, RemoveOld, RemoveAt, Keep, Note
    <3>2. CASE List \/ Purge \/ Cycle
      BY Zenon, <3>2, KernelUnchanged DEF List, ListOf, Purge, Cycle
    <3> QED
      BY Zenon, <1>4, <3>1, <3>2 DEF CleanerStep
  <2> QED
    BY Zenon, <1>4, <2>1, <2>2, ReadUnchanged, CleanStep
<1>5. CASE Startup \/ Shutdown \/ ShutdownStep
  <2>1. UNCHANGED <<kernelVars, readVars, writes, failures>>
    BY Zenon, <1>5 DEF Startup, Shutdown, ShutdownStep, TakeShutdown, Acknowledge, TimeOut
  <2> QED
    BY Zenon, <1>5, <2>1, KernelUnchanged, ReadUnchanged, ServiceStep
<1>6. CASE UNCHANGED vars
  <2>1. UNCHANGED <<kernelVars, readVars, cleanVars, writes, failures>>
    BY Zenon, <1>6 DEF vars, kernelVars, readVars, cleanVars
  <2> QED
    BY Zenon, <2>1, KernelUnchanged, ReadUnchanged, CleanUnchanged
<1> QED
  BY Zenon, <1>1, <1>2, <1>3, <1>4, <1>5, <1>6 DEF Next

LEMMA DictInvariant == Spec => []DictInv
  BY DictStart, DictNext, PTL DEF Spec

-----------------------------------------------------------------------------
\* Type correctness of the dict service.
THEOREM DictTypeCorrect == Spec => []TypeOK
<1>1. DictInv => TypeOK
  BY DEF DictInv
<1> QED
  BY <1>1, DictInvariant, PTL

\* GetTable, GetDictionary, GetAllEntries, GetEntry, the typed getters and
\* GetSessions give a reader what AddEntry was last called with, whatever other
\* readers, writers and the cleaner do meanwhile.
THEOREM ReadBack == Spec => []ReadsWhatWasWritten
  BY InvReads, DictInvariant, PTL

\* The cleaner removes a session only if it has had the ctid in its table for
\* more than cleanMaxSeconds: never within that time of the start or of its last
\* removal of the ctid, whatever sessions came and went under it meanwhile.
THEOREM CleanerRemovesSeldom == Spec => RemovalsApart
<1>1. ASSUME DictInv, [Next]_vars
      PROVE  [\A c \in Ctids :
                (cleaner' # cleaner /\ \E k \in Session(c) : dict[k] # None /\ dict'[k] = None)
                   => since[c] > MaxAge]_vars
  <2> SUFFICES ASSUME Next, NEW c \in Ctids, cleaner' # cleaner, dict' # dict,
                      NEW k \in Session(c), dict[k] # None, dict'[k] = None
               PROVE  since[c] > MaxAge
    BY Zenon, <1>1
  <2>1. PICK x \in Ctids : Visit(x)
    BY Zenon DEF Next, AddEntry, DeleteDictionary, cleanVars, ReaderStep, Open, OpenAll, Lock, Ask, ScanEntries,
                 ScanAll, Scanned, kernelVars, Startup, Shutdown, ShutdownStep, TakeShutdown, Acknowledge, TimeOut,
                 CleanerStep, List, ListOf, Purge, Cycle
  <2>2. RemoveOld(x) /\ dict' = [y \in Keys |-> IF y \in Session(x) THEN None ELSE dict[y]]
    BY Zenon, <2>1 DEF Visit, Keep, Note, RemoveOld, RemoveAt, deleteEntry, kernelVars
  <2>3. x = c
    BY Zenon, <2>2 DEF Session, SessionKeys
  <2>4. cleanupTable[c] # None /\ cleanupTable[c] > MaxAge
    BY Zenon, <2>2, <2>3 DEF RemoveOld, RemoveAt
  <2>5. cleanupTable[c] \in Nat /\ since[c] \in Nat /\ cleanupTable[c] <= since[c] /\ MaxAge \in Nat
    BY <1>1, <2>4, DictAssumption DEF DictInv, TypeOK, Noted
  <2> QED
    BY <2>4, <2>5
<1> QED
  BY <1>1, DictInvariant, PTL DEF Spec, RemovalsApart

-----------------------------------------------------------------------------
\* A reader that cannot lock readMutex waits for one that asks or scans, unless
\* a reader has failed with the lock in its hands.
LockInUse ==
    readMutex # None => leaked \/ reader[readMutex] \in {"locked", "asked"}

\* cleanupTask is there as long as the service runs, and to hear Shutdown: what
\* is sent is taken by a task in its loop, or was taken by one that will answer.
CleanerListens ==
    /\ service \in {"running", "sending"} =>
         disabled \/ cleaner.pc \in {"listing", "walking", "waiting"}
    /\ service = "sent" => cleaner.pc = "acking"
    /\ service = "off" => cleaner.pc = "none"

\* A reader that waits for readMutex waits for a reader that will unlock it, or
\* for ever because one has failed between its request and the Unlock.
THEOREM LockComesBack == Spec => []LockInUse
<1>1. Init => LockInUse
  BY DEF Init, LockInUse
<1>2. ASSUME DictInv, LockInUse, [Next]_vars PROVE LockInUse'
  <2>1. readMutex \in Readers \cup {None} /\ reader \in [Readers -> ReaderSteps] /\ None \notin Readers
    BY Zenon, <1>2, DictAssumption DEF DictInv, TypeOK
  <2>2. ASSUME NEW r \in Readers, Open(r) \/ OpenAll(r) PROVE LockInUse'
    BY Zenon, <1>2, <2>1, <2>2 DEF Open, OpenAll, Goto, LockInUse
  <2>3. ASSUME NEW r \in Readers, Lock(r) PROVE LockInUse'
    BY Zenon, <2>1, <2>3 DEF Lock, Goto, LockInUse
  <2>4. ASSUME NEW r \in Readers, Ask(r) PROVE LockInUse'
    BY <1>2, <2>1, <2>4 DEF Ask, Goto, LockInUse
  <2>5. ASSUME NEW r \in Readers, ScanEntries(r) PROVE LockInUse'
    BY Zenon, <2>5 DEF ScanEntries, LockInUse
  <2>6. ASSUME NEW r \in Readers, ScanAll(r) PROVE LockInUse'
    BY <1>2, <2>1, <2>6 DEF ScanAll, Scanned, Goto, LockInUse
  <2>7. ASSUME UNCHANGED readVars PROVE LockInUse'
    BY Zenon, <1>2, <2>7 DEF readVars, LockInUse
  <2> QED
    BY Zenon, <1>2, <2>2, <2>3, <2>4, <2>5, <2>6, <2>7
    DEF Next, vars, ReaderStep, AddEntry, DeleteDictionary, Startup, CleanerStep, List, ListOf, Visit,
        Purge, Cycle, Shutdown, ShutdownStep, TakeShutdown, Acknowledge, TimeOut, readVars
<1> QED
  BY <1>1, <1>2, DictInvariant, DictStart, PTL DEF Spec

\* An error of a command, which ends a cycle early, does not end the task: it is
\* there to clean up and to hear Shutdown, unless the service was disabled.
THEOREM CleanerThere == Spec => []CleanerListens
<1>1. Init => CleanerListens
  BY DEF Init, CleanerListens
<1>2. ASSUME CleanerListens, [Next]_vars PROVE CleanerListens'
  <2>1. ASSUME UNCHANGED <<cleaner, service, disabled>> PROVE CleanerListens'
    BY Zenon, <1>2, <2>1 DEF CleanerListens
  <2>2. CASE Startup
    BY <1>2, <2>2 DEF Startup, Cleaner, CleanerListens
  <2>3. CASE CleanerStep
    <3>1. cleaner.pc \in {"listing", "walking", "waiting"}
      BY Zenon, <2>3 DEF CleanerStep, List, ListOf, Visit, Purge, Cycle
    <3>2. cleaner'.pc \in {"listing", "walking", "waiting"} /\ UNCHANGED <<service, disabled>>
      BY SMTT(30), <2>3 DEF CleanerStep, List, ListOf, Visit, Purge, Cycle, Cleaner
    <3> QED
      BY <1>2, <3>1, <3>2 DEF CleanerListens
  <2>4. CASE Shutdown \/ ShutdownStep
    BY <1>2, <2>4 DEF Shutdown, ShutdownStep, TakeShutdown, Acknowledge, TimeOut, Cleaner, CleanerListens
  <2> QED
    BY Zenon, <1>2, <2>1, <2>2, <2>3, <2>4
    DEF Next, vars, AddEntry, DeleteDictionary, ReaderStep, Open, OpenAll, Lock, Ask, ScanEntries, ScanAll,
        Scanned, cleanVars
<1> QED
  BY <1>1, <1>2, PTL DEF Spec

=============================================================================
