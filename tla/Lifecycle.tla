------------------------------ MODULE Lifecycle ------------------------------
(***************************************************************************)
(* packetd from start to exit.  The main goroutine starts the services,    *)
(* the plugins and the C threads that read netfilter's queues, conntrack   *)
(* events and log messages, waits for the shutdown flag and takes          *)
(* everything down again, with a time limit on most of what it waits for.  *)
(* The threads watch the same flag and set it themselves when they fail.   *)
(* Requests to the warehouse over REST are left to module Warehouse.       *)
(***************************************************************************)
EXTENDS Warehouse

CONSTANTS
    Queues,       \* nfqueue threads, one per processor
    Conntrack,    \* the conntrack thread
    Netlogger,    \* the netlogger thread
    Plugins,      \* plugins, started and stopped in parallel
    Stats,        \* the one whose PluginShutdown may wait for ever
    MaxTroubles   \* bound: failures of system calls and of scripts

Threads == Queues \cup {Conntrack, Netlogger}

\* The goroutines of StopCallbacks: one stops conntrackTask, one waits for
\* the threads.  Both answer on the same channel.
Stoppers == {"task", "children"}

VARIABLES
    main,          \* where the main goroutine is
    shutdownFlag,  \* kernel.shutdownFlag; its channel is closed with it
    plugins,       \* the plugins that have started and not stopped
    rules,         \* are the netfilter rules in place?
    thread,        \* where each C thread is
    childsync,     \* the threads the WaitGroup counts
    packets,       \* queues with packets in goroutines, which it does not count
    conntrackTask, \* the periodic task
    stopper,       \* the goroutines of StopCallbacks
    services,      \* the goroutine of stopServices
    hung,          \* PluginShutdown of stats never returns
    polled,        \* history: queue threads that gave up on an error of poll
    timedOut,      \* history: time limits of StopCallbacks that ran out
    outlived,      \* history: packets when childsync.Wait returned
    ruleError,     \* history: the script that removes the rules failed
    troubles

daemonVars ==
    <<main, shutdownFlag, plugins, rules, thread, childsync, packets, conntrackTask, stopper,
      services, hung, polled, timedOut, outlived, ruleError, troubles>>

vars == <<daemonVars, warehouseVars>>

ASSUME LifecycleAssumption ==
    /\ Conntrack \notin Queues
    /\ Netlogger \notin Queues
    /\ Conntrack # Netlogger
    /\ Stats \in Plugins
    /\ MaxTroubles \in Nat

MainState ==
    {"startServices", "startPlugins", "insertRules", "warehouse", "wait", "close", "removeRules",
     "StopCallbacks", "selectTask", "waitChildren", "selectChildren", "stopPlugins",
     "stopServices", "exit"}

\* failed and done: the thread function has returned.
ThreadState ==
    {"none", "starting", "counting", "loop", "poll", "handle", "sleep", "ending", "done", "failed"}

TypeOK ==
    /\ main \in MainState
    /\ shutdownFlag \in BOOLEAN
    /\ plugins \subseteq Plugins
    /\ rules \in BOOLEAN
    /\ thread \in [Threads -> ThreadState]
    /\ childsync \subseteq Threads
    /\ packets \subseteq Queues
    /\ conntrackTask \in {"none", "waiting", "dumping", "returned"}
    /\ stopper \in [Stoppers -> {"none", "waiting", "answering", "done"}]
    /\ services \in {"up", "stopping", "answering"}
    /\ hung \in BOOLEAN
    /\ polled \subseteq Queues
    /\ timedOut \subseteq Stoppers
    /\ outlived \subseteq Queues
    /\ ruleError \in BOOLEAN
    /\ troubles \in 0..MaxTroubles
    /\ WarehouseTypeOK

Init ==
    /\ main = "startServices"
    /\ shutdownFlag = FALSE
    /\ plugins = {}
    /\ rules = FALSE
    /\ thread = [t \in Threads |-> "none"]
    /\ childsync = {}
    /\ packets = {}
    /\ conntrackTask = "none"
    /\ stopper = [g \in Stoppers |-> "none"]
    /\ services = "up"
    /\ hung = FALSE
    /\ polled = {}
    /\ timedOut = {}
    /\ outlived = {}
    /\ ruleError = FALSE
    /\ troubles = 0
    /\ WarehouseInit

Trouble == troubles < MaxTroubles /\ troubles' = troubles + 1

-----------------------------------------------------------------------------
(***************************************************************************)
(* The C threads.  They share a skeleton and differ in what they do about  *)
(* errors.                                                                 *)
(***************************************************************************)
threadOnly ==
    <<main, plugins, rules, conntrackTask, stopper, services, hung, timedOut, outlived, ruleError>>

Goto(t, state) == thread' = [thread EXCEPT ![t] = state]

\* nfqueue_startup, conntrack_startup, netlogger_startup.
Starts(t) ==
    /\ thread[t] = "starting"
    /\ Goto(t, "counting")
    /\ UNCHANGED <<threadOnly, packets, shutdownFlag, childsync, polled, troubles>>

\* Mutant of StartFails: only the log shows it.
StartFailsQuietly(t) ==
    /\ thread[t] = "starting"
    /\ Trouble
    /\ Goto(t, IF t = Netlogger THEN "counting" ELSE "failed")
    /\ UNCHANGED <<threadOnly, packets, shutdownFlag, childsync, polled>>

\* The thread returns before it is counted; only netlogger goes on.  (For a
\* queue that nfq_create_queue does not give, nfqueue.c tests the array in place
\* of its element, and the next call gets NULL: not modelled.)
StartFails(t) ==
    /\ thread[t] = "starting"
    /\ Trouble
    /\ shutdownFlag' = TRUE
    /\ Goto(t, IF t = Netlogger THEN "counting" ELSE "failed")
    /\ UNCHANGED <<threadOnly, packets, childsync, polled>>

go_child_startup(t) ==
    /\ thread[t] = "counting"
    /\ childsync' = childsync \cup {t}
    /\ Goto(t, "loop")
    /\ UNCHANGED <<threadOnly, packets, shutdownFlag, polled, troubles>>

\* The head of the loop.
ChecksFlag(t) ==
    /\ thread[t] = "loop"
    /\ Goto(t, IF shutdownFlag THEN "ending" ELSE "poll")
    /\ UNCHANGED <<threadOnly, packets, shutdownFlag, childsync, polled, troubles>>

\* poll or select: nothing within a second, an interrupt, or something to read.
Polls(t) ==
    /\ thread[t] = "poll"
    /\ \E state \in {"loop", "handle"} : Goto(t, state)
    /\ UNCHANGED <<threadOnly, packets, shutdownFlag, childsync, polled, troubles>>

\* nfqueue_thread leaves its loop on an error of poll, without the flag.
PollFails(t) ==
    /\ t \in Queues
    /\ thread[t] = "poll"
    /\ Trouble
    /\ Goto(t, "ending")
    /\ polled' = polled \cup {t}
    /\ UNCHANGED <<threadOnly, packets, shutdownFlag, childsync>>

\* No buffer, or an error of recv.  netlogger closes its handle and sleeps.
ReadFails(t) ==
    /\ thread[t] = "handle"
    /\ t # Conntrack
    /\ Trouble
    /\ Goto(t, IF t = Netlogger THEN "sleep" ELSE "ending")
    /\ shutdownFlag' = IF t = Netlogger THEN shutdownFlag ELSE TRUE
    /\ UNCHANGED <<threadOnly, packets, childsync, polled>>

\* An event is given to the callback of dispatch before the thread goes on, a
\* packet in a goroutine of its own.  A packet that is too short, has no ctid or
\* comes while the bypass flag is set gets its verdict here, and recv may have
\* nothing to give.
Handles(t) ==
    /\ thread[t] = "handle"
    /\ Goto(t, "loop")
    /\ packets' \in {packets, packets \cup ({t} \cap Queues)}
    /\ UNCHANGED <<threadOnly, shutdownFlag, childsync, polled, troubles>>

\* sleep(1000) is over and netlogger_startup is tried again.
Recycles ==
    /\ thread[Netlogger] = "sleep"
    /\ \/ /\ Goto(Netlogger, "loop")
          /\ UNCHANGED <<shutdownFlag, troubles>>
       \/ /\ Trouble
          /\ Goto(Netlogger, "ending")
          /\ shutdownFlag' = TRUE
    /\ UNCHANGED <<threadOnly, packets, childsync, polled>>

\* The handle is closed and go_child_shutdown called.
Ends(t) ==
    /\ thread[t] = "ending"
    /\ childsync' = childsync \ {t}
    /\ Goto(t, "done")
    /\ UNCHANGED <<threadOnly, packets, shutdownFlag, polled, troubles>>

ThreadStep(t) ==
    \/ Starts(t)
    \/ StartFails(t)
    \/ go_child_startup(t)
    \/ ChecksFlag(t)
    \/ Polls(t)
    \/ PollFails(t)
    \/ ReadFails(t)
    \/ Handles(t)
    \/ t = Netlogger /\ Recycles
    \/ Ends(t)

-----------------------------------------------------------------------------
(***************************************************************************)
(* The main goroutine.                                                     *)
(***************************************************************************)
mainOnly == <<childsync, packets, hung, polled, outlived>>

startServices ==
    /\ main = "startServices"
    /\ main' = "startPlugins"
    /\ UNCHANGED <<mainOnly, shutdownFlag, plugins, rules, thread, conntrackTask, stopper, services,
                   timedOut, ruleError, troubles>>

\* One of the goroutines of startPlugins.
PluginStartup(p) ==
    /\ main = "startPlugins"
    /\ p \notin plugins
    /\ plugins' = plugins \cup {p}
    /\ UNCHANGED <<mainOnly, main, shutdownFlag, rules, thread, conntrackTask, stopper, services,
                   timedOut, ruleError, troubles>>

\* Mutant of StartCallbacks: the plugins are not waited for.
StartCallbacksSoon ==
    /\ main = "startPlugins"
    /\ plugins # {}
    /\ main' = "insertRules"
    /\ thread' = [t \in Threads |-> "starting"]
    /\ conntrackTask' = "waiting"
    /\ UNCHANGED <<mainOnly, shutdownFlag, plugins, rules, stopper, services,
                   timedOut, ruleError, troubles>>

\* startPlugins has waited for all of them.
StartCallbacks ==
    /\ main = "startPlugins"
    /\ plugins = Plugins
    /\ main' = "insertRules"
    /\ thread' = [t \in Threads |-> "starting"]
    /\ conntrackTask' = "waiting"
    /\ UNCHANGED <<mainOnly, shutdownFlag, plugins, rules, stopper, services,
                   timedOut, ruleError, troubles>>

\* A script that fails may have inserted some of the rules; one that is not
\* found for want of its directory is not missed.
insertRules ==
    /\ main = "insertRules"
    /\ main' = "warehouse"
    /\ \/ rules' = TRUE /\ UNCHANGED <<shutdownFlag, troubles>>
       \/ Trouble /\ rules' \in BOOLEAN /\ shutdownFlag' = TRUE
       \/ Trouble /\ UNCHANGED <<rules, shutdownFlag>>
    /\ UNCHANGED <<mainOnly, plugins, thread, conntrackTask, stopper, services, timedOut, ruleError>>

\* The shutdown channel is closed after the flag is set.
WaitForShutdown ==
    /\ main = "wait"
    /\ shutdownFlag
    /\ main' = "close"
    /\ UNCHANGED <<mainOnly, shutdownFlag, plugins, rules, thread, conntrackTask, stopper, services,
                   timedOut, ruleError, troubles>>

\* Mutant of removeRules: the rules stay when inserting them had failed.
removeRulesIfRunning ==
    /\ main = "removeRules"
    /\ main' = "StopCallbacks"
    /\ \/ rules' = (rules /\ troubles > 0) /\ UNCHANGED <<ruleError, troubles>>
       \/ Trouble /\ ruleError' = TRUE /\ UNCHANGED rules
    /\ UNCHANGED <<mainOnly, shutdownFlag, plugins, thread, conntrackTask, stopper, services, timedOut>>

removeRules ==
    /\ main = "removeRules"
    /\ main' = "StopCallbacks"
    /\ \/ rules' = FALSE /\ UNCHANGED <<ruleError, troubles>>
       \/ Trouble /\ ruleError' = TRUE /\ UNCHANGED rules
    /\ UNCHANGED <<mainOnly, shutdownFlag, plugins, thread, conntrackTask, stopper, services, timedOut>>

\* The flag, and the goroutine that sends on shutdownConntrackTask.
StopCallbacks ==
    /\ main = "StopCallbacks"
    /\ main' = "selectTask"
    /\ shutdownFlag' = TRUE
    /\ stopper' = [stopper EXCEPT !["task"] = "waiting"]
    /\ UNCHANGED <<mainOnly, plugins, rules, thread, conntrackTask, services,
                   timedOut, ruleError, troubles>>

\* A select of StopCallbacks: some goroutine answers on c, or ten seconds pass.
Select(state, limit, next) ==
    /\ main = state
    /\ main' = next
    /\ \/ \E g \in Stoppers : /\ stopper[g] = "answering"
                              /\ stopper' = [stopper EXCEPT ![g] = "done"]
          /\ UNCHANGED timedOut
       \/ timedOut' = timedOut \cup {limit} /\ UNCHANGED stopper
    /\ UNCHANGED <<mainOnly, shutdownFlag, plugins, rules, thread, conntrackTask, services,
                   ruleError, troubles>>

\* The goroutine that waits for childsync.
WaitChildren ==
    /\ main = "waitChildren"
    /\ main' = "selectChildren"
    /\ stopper' = [stopper EXCEPT !["children"] = "waiting"]
    /\ UNCHANGED <<mainOnly, shutdownFlag, plugins, rules, thread, conntrackTask, services,
                   timedOut, ruleError, troubles>>

stopPlugins ==
    /\ main = "stopPlugins"
    /\ plugins = {}
    /\ main' = "stopServices"
    /\ services' = "stopping"
    /\ UNCHANGED <<mainOnly, shutdownFlag, plugins, rules, thread, conntrackTask, stopper,
                   timedOut, ruleError, troubles>>

\* Mutant of stopServices: no time limit.
stopServicesPatient ==
    /\ main = "stopServices"
    /\ services = "answering"
    /\ main' = "exit"
    /\ UNCHANGED <<mainOnly, shutdownFlag, plugins, rules, thread, conntrackTask, stopper, services,
                   timedOut, ruleError, troubles>>

\* All services have stopped, or ten seconds have passed.  The process exits.
stopServices ==
    /\ main = "stopServices"
    /\ services \in {"answering", "stopping"}
    /\ main' = "exit"
    /\ UNCHANGED <<mainOnly, shutdownFlag, plugins, rules, thread, conntrackTask, stopper, services,
                   timedOut, ruleError, troubles>>

\* The warehouse options of the command line.
StartWarehouse ==
    /\ main = "warehouse"
    /\ main' = "wait"
    /\ \/ /\ warehouse_flag = "P"
          /\ \E p \in Plays : HandleWarehousePlayback(p)
       \/ /\ warehouse_flag = "C"
          /\ capfile' = TRUE
          /\ UNCHANGED <<play, nfTracker, ctTracker, cleanupLists, sessions, conntracks, older>>
       \/ /\ warehouse_flag = "I" \/ \A p \in Plays : play[p] # "none"
          /\ UNCHANGED <<capfile, play, nfTracker, ctTracker, cleanupLists, sessions, conntracks, older>>
    /\ UNCHANGED warehouse_flag
    /\ UNCHANGED <<mainOnly, shutdownFlag, plugins, rules, thread, conntrackTask, stopper, services,
                   timedOut, ruleError, troubles>>

\* CloseWarehouseCapture, if a capture is on.
CloseCapture ==
    /\ main = "close"
    /\ main' = "removeRules"
    /\ capfile' = (capfile /\ warehouse_flag # "C")
    /\ UNCHANGED <<warehouse_flag, play, nfTracker, ctTracker, cleanupLists, sessions, conntracks, older>>
    /\ UNCHANGED <<mainOnly, shutdownFlag, plugins, rules, thread, conntrackTask, stopper, services,
                   timedOut, ruleError, troubles>>

MainStep ==
    \/ /\ \/ startServices
          \/ StartCallbacks
          \/ insertRules
          \/ WaitForShutdown
          \/ removeRules
          \/ StopCallbacks
          \/ Select("selectTask", "task", "waitChildren")
          \/ WaitChildren
          \/ Select("selectChildren", "children", "stopPlugins")
          \/ stopPlugins
          \/ stopServices
       /\ UNCHANGED warehouseVars
    \/ StartWarehouse
    \/ CloseCapture

-----------------------------------------------------------------------------
(***************************************************************************)
(* The other goroutines.                                                   *)
(***************************************************************************)
othersOnly == <<main, rules, thread, childsync, polled, timedOut, ruleError, troubles>>

packetVars == <<packets, outlived>>

\* SIGTERM, SIGINT, or the console.  The handlers are there once the
\* services have started.
Terminate ==
    /\ main # "startServices"
    /\ ~shutdownFlag
    /\ shutdownFlag' = TRUE
    /\ UNCHANGED <<othersOnly, packetVars, plugins, conntrackTask, stopper, services, hung>>

\* The interval of conntrackTask is over: conntrack_dump finds a handle or not.
Dump ==
    /\ conntrackTask = "waiting"
    /\ conntrackTask' = "dumping"
    /\ UNCHANGED <<othersOnly, packetVars, shutdownFlag, plugins, stopper, services, hung>>

Dumped ==
    /\ conntrackTask = "dumping"
    /\ conntrackTask' = "waiting"
    /\ UNCHANGED <<othersOnly, packetVars, shutdownFlag, plugins, stopper, services, hung>>

\* conntrackTask takes the message of its stopper and returns.
TaskReturns ==
    /\ stopper["task"] = "waiting"
    /\ conntrackTask = "waiting"
    /\ conntrackTask' = "returned"
    /\ stopper' = [stopper EXCEPT !["task"] = "answering"]
    /\ UNCHANGED <<othersOnly, packetVars, shutdownFlag, plugins, services, hung>>

\* The last packet of a queue that was in a goroutine has its verdict.
PacketDone(q) ==
    /\ q \in packets
    /\ packets' = packets \ {q}
    /\ UNCHANGED <<othersOnly, shutdownFlag, plugins, conntrackTask, stopper, services, hung, outlived>>

\* childsync.Wait returns: no thread is counted.
ChildrenDone ==
    /\ stopper["children"] = "waiting"
    /\ childsync = {}
    /\ stopper' = [stopper EXCEPT !["children"] = "answering"]
    /\ outlived' = packets
    /\ UNCHANGED <<othersOnly, packets, shutdownFlag, plugins, conntrackTask, services, hung>>

PluginShutdown(p) ==
    /\ main = "stopPlugins"
    /\ p \in plugins
    /\ p = Stats => ~hung
    /\ plugins' = plugins \ {p}
    /\ UNCHANGED <<othersOnly, packetVars, shutdownFlag, conntrackTask, stopper, services, hung>>

\* The pinger is stuck and its channel full: see module Pinger.  dns and revdns
\* send to their tasks without a time limit as well, but those always come back
\* to their select.
StatsHangs ==
    /\ main = "stopPlugins"
    /\ Stats \in plugins
    /\ hung' = TRUE
    /\ UNCHANGED <<othersOnly, packetVars, shutdownFlag, plugins, conntrackTask, stopper, services>>

\* The last Shutdown of stopServices has returned.
ServicesStopped ==
    /\ services = "stopping"
    /\ services' = "answering"
    /\ UNCHANGED <<othersOnly, packetVars, shutdownFlag, plugins, conntrackTask, stopper, hung>>

Running == main # "exit"

Next ==
    \/ MainStep
    \/ /\ Running
       /\ \/ \E t \in Threads : ThreadStep(t)
          \/ \E q \in Queues : PacketDone(q)
          \/ \E p \in Plugins : PluginShutdown(p)
          \/ Terminate
          \/ Dump
          \/ Dumped
          \/ TaskReturns
          \/ ChildrenDone
          \/ StatsHangs
          \/ ServicesStopped
       /\ UNCHANGED warehouseVars
    \/ \E p \in Plugins : PluginStartup(p) /\ UNCHANGED warehouseVars
    \/ Running /\ \E p \in Plays : Playback(p) /\ UNCHANGED daemonVars

Spec == Init /\ [][Next]_vars

\* Go runs every goroutine that can run, and the main goroutine takes the way
\* out that a time limit opens.  Nothing is assumed of the services, of the
\* threads or of a playback.
Fairness ==
    /\ WF_vars(MainStep)
    /\ \A p \in Plugins : WF_vars(PluginStartup(p) /\ UNCHANGED warehouseVars)
    /\ \A p \in Plugins : WF_vars(PluginShutdown(p) /\ UNCHANGED warehouseVars)

FairSpec == Spec /\ Fairness

-----------------------------------------------------------------------------
\* packetd.go: "Start the callbacks AFTER all services and plugins are
\* initialized", and they are removed before the plugins are stopped.  Unless
\* StopCallbacks has logged that a time limit ran out, a thread that has read
\* something for a callback, or may still read it, finds all plugins there, even
\* one that starts so late that childsync does not count it yet; and so does the
\* goroutine of a packet, if StopCallbacks did not leave it behind: it waits for
\* the threads, not for the packets they have handed on.
PluginsThereForCallbacks ==
    timedOut = {} /\ plugins # Plugins =>
        /\ \A t \in Threads : thread[t] \notin {"poll", "handle"}
        /\ packets \subseteq outlived

\* A queue, the conntrack events or the log are never left unread by a packetd
\* that goes on: when a thread has returned the shutdown flag is set, but for
\* a queue thread that met an error of poll.
DeadThreadMeansShutdown ==
    \A t \in Threads \ polled : thread[t] \in {"done", "failed"} => shutdownFlag

\* packetd leaves no netfilter rules behind, whenever the shutdown was asked
\* for and even if inserting them had failed, as long as the script that
\* removes them works.
RulesGoneAtExit == main = "exit" /\ ~ruleError => ~rules

\* Once the shutdown flag is set packetd exits, whatever the threads and the
\* services do, unless PluginShutdown of the stats plugin hangs.
Exits == shutdownFlag ~> (main = "exit" \/ hung)

=============================================================================
