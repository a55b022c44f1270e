------------------------------- MODULE Classd --------------------------------
(***************************************************************************)
(* How the classify plugin keeps the classd daemon and its socket alive: a *)
(* process manager, a socket manager, a goroutine that waits for the       *)
(* daemon to end, packet handlers and PluginShutdown.  They talk through   *)
(* two channels of capacity 1 with sends that never block: what does not   *)
(* fit is dropped.                                                         *)
(***************************************************************************)
EXTENDS Naturals

CONSTANT MaxStarts   \* bound: the daemon does not fail after so many starts

ASSUME StartsAssumption == MaxStarts \in Nat

VARIABLES
    processChannel,  \* the signal in the channel, or "empty"
    socketChannel,
    processManager,  \* [pc, msg]: state of daemonProcessManager
    socketManager,   \* [pc, msg]: state of daemonSocketManager
    monitor,         \* the goroutine that waits for the daemon
    daemon,          \* the classd process (external)
    daemonProcess,   \* is daemonProcess set?
    daemonSocket,    \* nil, connected, or connected to a daemon that is gone
    shutdownFlag,    \* of the plugin
    main,            \* the thread that calls PluginStartup and PluginShutdown
    starts,          \* how often classd was started
    dropped          \* has a signal to the process manager been dropped?

processVars == <<processChannel, processManager, dropped>>

socketVars == <<socketChannel, socketManager, daemonSocket>>

classdVars == <<processVars, socketVars, monitor, daemon, daemonProcess, shutdownFlag, main, starts>>

-----------------------------------------------------------------------------
ProcessSignal == {"daemonStartup", "daemonShutdown", "daemonFinished", "systemShutdown"}

SocketSignal == {"socketConnect", "systemShutdown"}

\* loop: about to receive.  waiting: blocked in the receive; a sender hands its
\* signal over.  control: about to tell main that it is finished.
ManagerState(signals) ==
    [pc : {"loop", "waiting", "handle", "starting", "control", "finished"},
     msg : signals \cup {"none"}]

ClassdTypeOK ==
    /\ processChannel \in ProcessSignal \cup {"empty"}
    /\ socketChannel \in SocketSignal \cup {"empty"}
    /\ processManager \in ManagerState(ProcessSignal)
    /\ socketManager \in ManagerState(SocketSignal)
    /\ monitor \in {"none", "watch", "restart", "finish", "restart2", "finish2"}
    /\ daemon \in {"none", "running", "interrupted", "exited", "failed"}
    /\ daemonProcess \in BOOLEAN
    /\ daemonSocket \in {"nil", "open", "broken"}
    /\ shutdownFlag \in BOOLEAN
    /\ main \in {"up", "stopping", "waitSocket", "stopProcess", "waitProcess", "done", "panic"}
    /\ starts \in 0..MaxStarts
    /\ dropped \in BOOLEAN

At(pc, msg) == [pc |-> pc, msg |-> msg]

\* After PluginStartup: both managers run, and the process manager has sent
\* itself the signal to launch the daemon.
ClassdInit ==
    /\ processChannel = "daemonStartup"
    /\ socketChannel = "empty"
    /\ processManager = At("loop", "none")
    /\ socketManager = At("loop", "none")
    /\ monitor = "none"
    /\ daemon = "none"
    /\ daemonProcess = FALSE
    /\ daemonSocket = "nil"
    /\ shutdownFlag = FALSE
    /\ main = "up"
    /\ starts = 0
    /\ dropped = FALSE

-----------------------------------------------------------------------------
(***************************************************************************)
(* Signals: a receiver that waits gets the signal at once; otherwise it    *)
(* goes into the channel, or is dropped if the channel is full.            *)
(***************************************************************************)

SignalProcessManager(msg) ==
    IF processManager.pc = "waiting"
    THEN processManager' = At("handle", msg) /\ UNCHANGED <<processChannel, dropped>>
    ELSE /\ processChannel' = IF processChannel = "empty" THEN msg ELSE processChannel
         /\ dropped' = (dropped \/ processChannel # "empty")
         /\ UNCHANGED processManager

SignalSocketManager(msg) ==
    IF socketManager.pc = "waiting"
    THEN socketManager' = At("handle", msg) /\ UNCHANGED socketChannel
    ELSE /\ socketChannel' = IF socketChannel = "empty" THEN msg ELSE socketChannel
         /\ UNCHANGED socketManager

\* message := <-channel
ReceiveProcess ==
    /\ processManager.pc = "loop"
    /\ processManager' = IF processChannel = "empty" THEN At("waiting", "none")
                         ELSE At("handle", processChannel)
    /\ processChannel' = "empty"
    /\ UNCHANGED <<dropped, socketVars, monitor, daemon, daemonProcess, shutdownFlag, main, starts>>

ReceiveSocket ==
    /\ socketManager.pc = "loop"
    /\ socketManager' = IF socketChannel = "empty" THEN At("waiting", "none")
                        ELSE At("handle", socketChannel)
    /\ socketChannel' = "empty"
    /\ UNCHANGED <<processVars, daemonSocket, monitor, daemon, daemonProcess, shutdownFlag, main, starts>>

-----------------------------------------------------------------------------
(***************************************************************************)
(* The process manager.                                                    *)
(***************************************************************************)

Handles(msg) == processManager = At("handle", msg)

\* daemonProcessShutdown: SIGINT, and forget the process.
Interrupt ==
    /\ daemon' = IF daemonProcess /\ daemon = "running" THEN "interrupted" ELSE daemon
    /\ daemonProcess' = FALSE

SystemShutdown ==
    /\ Handles("systemShutdown")
    /\ shutdownFlag' = TRUE
    /\ Interrupt
    /\ processManager' = At("loop", "none")
    /\ UNCHANGED <<processChannel, dropped, socketVars, monitor, main, starts>>

DaemonShutdown ==
    /\ Handles("daemonShutdown")
    /\ Interrupt
    /\ processManager' = At("loop", "none")
    /\ UNCHANGED <<processChannel, dropped, socketVars, monitor, shutdownFlag, main, starts>>

\* daemonProcessStartup: the process is started; its output is read until it
\* says that it listens, or ends.
DaemonStartup ==
    /\ Handles("daemonStartup")
    /\ starts < MaxStarts
    /\ daemon' = "running"
    /\ daemonProcess' = TRUE
    /\ starts' = starts + 1
    /\ processManager' = At("starting", "none")
    /\ UNCHANGED <<processChannel, dropped, socketVars, monitor, shutdownFlag, main>>

\* The process cannot be started: Release is called on a process that does not
\* exist.
DaemonStartupFails ==
    /\ Handles("daemonStartup")
    /\ main' = "panic"
    /\ UNCHANGED <<processVars, socketVars, monitor, daemon, daemonProcess, shutdownFlag, starts>>

DaemonStarted ==
    /\ processManager.pc = "starting"
    /\ SignalSocketManager("socketConnect")
    /\ monitor' = "watch"
    /\ processManager' = At("loop", "none")
    /\ UNCHANGED <<processChannel, dropped, daemonSocket, daemon, daemonProcess, shutdownFlag, main, starts>>

DaemonFinished ==
    /\ Handles("daemonFinished")
    /\ processManager' = At("control", "none")
    /\ UNCHANGED <<processChannel, dropped, socketVars, monitor, daemon, daemonProcess, shutdownFlag, main,
                   starts>>

-----------------------------------------------------------------------------
(***************************************************************************)
(* The daemon (external) and the goroutine that waits for it.              *)
(***************************************************************************)

DaemonEnds ==
    /\ \/ daemon = "running" /\ starts < MaxStarts
       \/ daemon = "interrupted"
    /\ daemon' \in {"exited", "failed"}
    /\ daemonSocket' = IF daemonSocket = "open" THEN "broken" ELSE daemonSocket
    /\ UNCHANGED <<processVars, socketChannel, socketManager, monitor, daemonProcess, shutdownFlag, main,
                   starts>>

\* Mutant of MonitorChecks: the end of the process is not awaited.
MonitorChecksAtOnce ==
    /\ monitor = "watch"
    /\ shutdownFlag' = (shutdownFlag \/ (daemon = "failed" /\ main # "up"))
    /\ monitor' = IF shutdownFlag' THEN "finish" ELSE "restart"
    /\ UNCHANGED <<processVars, socketVars, daemon, daemonProcess, main, starts>>

\* After a failure the shutdown flag of the kernel service counts as well; it
\* is set before PluginShutdown is called.
MonitorChecks ==
    /\ monitor = "watch"
    /\ daemon \in {"exited", "failed"}
    /\ shutdownFlag' = (shutdownFlag \/ (daemon = "failed" /\ main # "up"))
    /\ monitor' = IF shutdownFlag' THEN "finish" ELSE "restart"
    /\ UNCHANGED <<processVars, socketVars, daemon, daemonProcess, main, starts>>

\* Mutant of MonitorSignals: only the clean-up is signalled.
MonitorSignalsOnce ==
    /\ monitor \in {"restart", "finish"}
    /\ monitor' = "none"
    /\ SignalProcessManager("daemonShutdown")
    /\ UNCHANGED <<socketVars, daemon, daemonProcess, shutdownFlag, main, starts>>

\* Two signals one after the other.
MonitorSignals ==
    /\ \/ /\ monitor = "restart" /\ monitor' = "restart2" /\ SignalProcessManager("daemonShutdown")
       \/ /\ monitor = "finish" /\ monitor' = "finish2" /\ SignalProcessManager("daemonShutdown")
       \/ /\ monitor = "restart2" /\ monitor' = "none" /\ SignalProcessManager("daemonStartup")
       \/ /\ monitor = "finish2" /\ monitor' = "none" /\ SignalProcessManager("daemonFinished")
    /\ UNCHANGED <<socketVars, daemon, daemonProcess, shutdownFlag, main, starts>>

-----------------------------------------------------------------------------
(***************************************************************************)
(* The socket manager and the packet handlers; socketMutex makes each of   *)
(* them one step.                                                          *)
(***************************************************************************)

\* daemonSocketConnect; a connect that fails is signalled again.  The daemon may
\* be too slow to answer.
Connected ==
    /\ socketManager = At("handle", "socketConnect")
    /\ daemonSocket # "nil" \/ daemon = "running"
    /\ daemonSocket' = IF daemonSocket = "nil" THEN "open" ELSE daemonSocket
    /\ socketManager' = At("loop", "none")
    /\ UNCHANGED <<processVars, socketChannel, monitor, daemon, daemonProcess, shutdownFlag, main, starts>>

\* Mutant of ConnectFails: no second attempt.
ConnectFailsForGood ==
    /\ socketManager = At("handle", "socketConnect")
    /\ daemonSocket = "nil"
    /\ socketManager' = At("loop", "none")
    /\ UNCHANGED <<processVars, socketChannel, daemonSocket, monitor, daemon, daemonProcess, shutdownFlag,
                   main, starts>>

ConnectFails ==
    /\ socketManager = At("handle", "socketConnect")
    /\ daemonSocket = "nil"
    /\ socketChannel' = IF socketChannel = "empty" THEN "socketConnect" ELSE socketChannel
    /\ socketManager' = At("loop", "none")
    /\ UNCHANGED <<processVars, daemonSocket, monitor, daemon, daemonProcess, shutdownFlag, main, starts>>

SocketShutdown ==
    /\ socketManager = At("handle", "systemShutdown")
    /\ daemonSocket' = "nil"
    /\ socketManager' = At("control", "none")
    /\ UNCHANGED <<processVars, socketChannel, monitor, daemon, daemonProcess, shutdownFlag, main, starts>>

\* Mutant of Recycle: the socket is closed but not forgotten.
RecycleKeepsSocket ==
    /\ daemonSocket # "nil"
    /\ daemonSocket' = "broken"
    /\ SignalSocketManager("socketConnect")
    /\ UNCHANGED <<processVars, monitor, daemon, daemonProcess, shutdownFlag, main, starts>>

\* daemonClassifyPacket with an error: daemonSocketRecycle.  Without one, or
\* without a socket, nothing changes.
Recycle ==
    /\ daemonSocket # "nil"
    /\ daemonSocket' = "nil"
    /\ SignalSocketManager("socketConnect")
    /\ UNCHANGED <<processVars, monitor, daemon, daemonProcess, shutdownFlag, main, starts>>

-----------------------------------------------------------------------------
(***************************************************************************)
(* PluginShutdown: first the socket manager, then the process manager.     *)
(***************************************************************************)

\* The daemon is told to stop; kernel.SetShutdownFlag.
Stopping ==
    /\ main = "up"
    /\ main' = "stopping"
    /\ UNCHANGED <<processVars, socketVars, monitor, daemon, daemonProcess, shutdownFlag, starts>>

StopSocketManager ==
    /\ main = "stopping"
    /\ main' = "waitSocket"
    /\ SignalSocketManager("systemShutdown")
    /\ UNCHANGED <<processVars, daemonSocket, monitor, daemon, daemonProcess, shutdownFlag, starts>>

StopProcessManager ==
    /\ main = "stopProcess"
    /\ main' = "waitProcess"
    /\ SignalProcessManager("systemShutdown")
    /\ UNCHANGED <<socketVars, monitor, daemon, daemonProcess, shutdownFlag, starts>>

Proceed == main' = IF main = "waitSocket" THEN "stopProcess" ELSE "done"

\* controlChannel is shared: whichever manager reports is taken for the one
\* that main waits for.
ProcessReports ==
    /\ main \in {"waitSocket", "waitProcess"}
    /\ processManager.pc = "control"
    /\ processManager' = At("finished", "none")
    /\ Proceed
    /\ UNCHANGED <<processChannel, dropped, socketVars, monitor, daemon, daemonProcess, shutdownFlag, starts>>

SocketReports ==
    /\ main \in {"waitSocket", "waitProcess"}
    /\ socketManager.pc = "control"
    /\ socketManager' = At("finished", "none")
    /\ Proceed
    /\ UNCHANGED <<processVars, socketChannel, daemonSocket, monitor, daemon, daemonProcess, shutdownFlag,
                   starts>>

\* The time limit of 10 s.
GiveUp ==
    /\ main \in {"waitSocket", "waitProcess"}
    /\ Proceed
    /\ UNCHANGED <<processVars, socketVars, monitor, daemon, daemonProcess, shutdownFlag, starts>>

-----------------------------------------------------------------------------
ProcessManagerStep ==
    \/ ReceiveProcess
    \/ SystemShutdown
    \/ DaemonShutdown
    \/ DaemonStartup
    \/ DaemonStarted
    \/ DaemonFinished

SocketManagerStep ==
    \/ ReceiveSocket
    \/ Connected
    \/ ConnectFails
    \/ SocketShutdown

MonitorStep == MonitorChecks \/ MonitorSignals

MainStep ==
    \/ StopSocketManager
    \/ StopProcessManager
    \/ ProcessReports
    \/ SocketReports
    \/ GiveUp

ClassdNext ==
    /\ main # "panic"
    /\ \/ ProcessManagerStep
       \/ DaemonStartupFails
       \/ DaemonEnds
       \/ MonitorStep
       \/ SocketManagerStep
       \/ Recycle
       \/ Stopping
       \/ MainStep

ClassdSpec == ClassdInit /\ [][ClassdNext]_classdVars

\* Goroutines that can run do so; an interrupted daemon ends; a connect to a
\* daemon that stays up succeeds in the end, and traffic keeps trying a socket
\* that is broken.
ClassdFairSpec ==
    /\ ClassdSpec
    /\ WF_classdVars(ProcessManagerStep)
    /\ WF_classdVars(MonitorStep)
    /\ WF_classdVars(SocketManagerStep)
    /\ WF_classdVars(MainStep)
    /\ WF_classdVars(daemon = "interrupted" /\ DaemonEnds)
    /\ WF_classdVars(daemonSocket = "broken" /\ Recycle)
    /\ SF_classdVars(Connected)

-----------------------------------------------------------------------------
\* The first launch of the daemon is over.
Launched == starts > 1 \/ (starts = 1 /\ processManager.pc # "starting")

\* Although signals are dropped, a missing connection is never forgotten: while
\* the plugin is up and the daemon was launched, there is a socket, or a signal
\* to connect is in the channel or being handled.
ReconnectPending ==
    Launched /\ main \in {"up", "stopping"} /\ daemonSocket = "nil" =>
        socketChannel = "socketConnect" \/ socketManager = At("handle", "socketConnect")

\* Never two daemons: classd is started only when the last one has ended.
OneDaemon == [][starts' # starts => daemon \in {"none", "exited", "failed"}]_classdVars

\* A daemon that ended by itself is started again, unless a signal was dropped.
RestartedUnlessDropped ==
    daemon \in {"exited", "failed"} ~> (daemon = "running" \/ main # "up" \/ dropped)

\* If the daemon stays up, a connection to it comes back again and again.
SocketComesBack == <>[](daemon = "running" /\ main = "up") => []<>(daemonSocket = "open")

=============================================================================
