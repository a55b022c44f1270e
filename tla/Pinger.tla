------------------------------- MODULE Pinger -------------------------------
(***************************************************************************)
(* The tasks of the stats plugin.  pingerTask sends a batch of pings every *)
(* few seconds, after it has counted those of the last batch that are      *)
(* still unanswered as timed out; a goroutine per socket reads the         *)
(* replies.  SIGHUP and changes of the network interfaces make the pinger  *)
(* close its sockets and open them again.  Its control channel holds one   *)
(* message, and the pinger sends to it as well as it receives from it.     *)
(***************************************************************************)
EXTENDS Integers, Sequences, FiniteSets

CONSTANTS
    Faces,       \* WAN interfaces in the settings
    Targets,     \* pingCheckTargets
    Socks,       \* open sockets and their watchers, a finished one is used again
    None,        \* no address, no socket, no ping, no watcher
    Reading,     \* a watcher that waits in ReadFrom
    Seqs,        \* sequence numbers, zero included: 2^16 in the code
    MaxPings,    \* bound: pings that are sent
    MaxTroubles  \* bound: changes of interfaces, failing system calls and SIGHUPs

ASSUME PingerAssumption ==
    /\ IsFiniteSet(Faces) /\ IsFiniteSet(Targets)
    /\ Seqs \in Nat /\ Seqs > 1 /\ Seqs > Cardinality(Faces) * Cardinality(Targets)
    /\ MaxPings \in Nat
    /\ MaxTroubles \in Nat

VARIABLES
    link,            \* which of two things net.Interfaces shows of each interface
    addr,            \* the address of each interface, or None, which it does not show
    changes,         \* number of changes so far
    hash,            \* interfaceHashString
    detail,          \* interfaceDetailMap: the address to ping from, or None
    pingerChannel,   \* messages in the channel: TRUE to finish, FALSE to recycle
    pinger,          \* where pingerTask is
    todo,            \* pings of the batch that are still to be sent
    socketList,      \* the socket of each interface, or None
    boundTo,         \* the address a socket was opened with
    watcher,         \* watchNetworkSocket of each socket: the reply it has read
    closed,          \* sockets that are closed
    pingMap,         \* outstanding pings by sequence number
    sequenceCounter,
    sent,            \* number of pings so far
    replies,         \* replies on their way, or that may come again
    hup,             \* where PluginSignal is
    hups,
    stop,            \* where PluginShutdown is
    answered,        \* history: pings whose reply was measured
    timedOut,        \* history: pings counted as timed out
    forgotten,       \* history: pings that a recycle forgot
    failed,          \* history: pings that could not be sent
    failures,
    quiet            \* history: at the last change net.Interfaces showed nothing new

networkVars == <<link, addr, changes, quiet>>
sockets == <<socketList, boundTo, closed>>
sockVars == <<sockets, failures>>
pingVars == <<pingMap, sequenceCounter, sent, replies, answered, timedOut, forgotten, failed>>
pinVars == <<pinger, todo, hash, detail>>
controlVars == <<pingerChannel, hup, hups, stop>>

pingerVars == <<networkVars, sockVars, pingVars, pinVars, controlVars, watcher>>

Pings == 1..MaxPings
Addresses == 0..MaxTroubles

Entry == [face : Faces, ping : Pings]
Reply == [face : Faces, seq : 1..(Seqs - 1), ping : Pings]

ASSUME EntryAssumption == None \notin Entry

PingerTypeOK ==
    /\ link \in [Faces -> BOOLEAN]
    /\ addr \in [Faces -> Addresses \cup {None}]
    /\ changes \in 0..MaxTroubles
    /\ hash \in [Faces -> BOOLEAN]
    /\ detail \in [Faces -> Addresses \cup {None}]
    /\ pingerChannel \in {<<>>, <<TRUE>>, <<FALSE>>}
    /\ pinger \in {"open", "select", "load", "refresh", "send", "ping", "finish", "returned"}
    /\ todo \subseteq Faces \X Targets
    /\ socketList \in [Faces -> Socks \cup {None}]
    /\ boundTo \in [Socks -> Addresses \cup {None}]
    /\ watcher \in [Socks -> {None, Reading} \cup Reply]
    /\ closed \subseteq Socks
    /\ pingMap \in [0..(Seqs - 1) -> Entry \cup {None}]
    /\ sequenceCounter \in 0..(Seqs - 1)
    /\ sent \in 0..MaxPings
    /\ replies \subseteq Reply
    /\ hup \in {"idle", "load", "refresh", "send"}
    /\ hups \in 0..MaxTroubles
    /\ stop \in {"none", "sendPinger", "selectPinger", "returned"}
    /\ answered \subseteq Pings
    /\ timedOut \subseteq Pings
    /\ forgotten \subseteq Pings
    /\ failed \subseteq Pings
    /\ failures \in 0..MaxTroubles
    /\ quiet \in BOOLEAN

\* After PluginStartup, which starts both tasks, or later, between two batches
\* and just recycled: sequenceCounter goes on where it was, and pings have been
\* measured.  An interface may have no address.
PingerInit ==
    /\ link = [f \in Faces |-> TRUE]
    /\ addr \in [Faces -> {0, None}]
    /\ changes \in 0..MaxTroubles
    /\ hash = link
    /\ detail = addr
    /\ pingerChannel = <<>>
    /\ pinger = "open"
    /\ todo = {}
    /\ socketList = [f \in Faces |-> None]
    /\ boundTo = [s \in Socks |-> None]
    /\ watcher = [s \in Socks |-> None]
    /\ closed = {}
    /\ pingMap = [n \in 0..(Seqs - 1) |-> None]
    /\ sequenceCounter \in 0..(Seqs - 1)
    /\ sent \in 0..MaxPings
    /\ replies = {}
    /\ hup = "idle"
    /\ hups = 0
    /\ stop = "none"
    /\ answered = 1..sent
    /\ timedOut = {}
    /\ forgotten = {}
    /\ failed = {}
    /\ failures = 0
    /\ quiet = FALSE

Room(n) == changes + failures + hups + n <= MaxTroubles

-----------------------------------------------------------------------------
(***************************************************************************)
(* The network.                                                            *)
(***************************************************************************)
\* The address stays, goes away or is a new one.
NewAddress(f) ==
    /\ Room(1)
    /\ changes' = changes + 1
    /\ \E a \in {addr[f], None, changes + 1} : addr' = [addr EXCEPT ![f] = a]
    /\ quiet' = (link' = hash)
    /\ UNCHANGED <<sockVars, pingVars, pinVars, controlVars, watcher>>

\* An interface goes down or comes up, with a change of its address or without.
\* One that is down and up again before net.Interfaces is asked looks the same.
LinkChange(f) ==
    /\ link' = [link EXCEPT ![f] = ~@]
    /\ NewAddress(f)

\* Only the address changes.
AddressChange(f) ==
    /\ UNCHANGED link
    /\ NewAddress(f)
    /\ addr' # addr

-----------------------------------------------------------------------------
(***************************************************************************)
(* The maps, which the pinger and PluginSignal both rebuild.               *)
(***************************************************************************)
\* Settings that cannot be read leave the map as it was.
loadInterfaceDetailMap == detail' \in {detail, [f \in Faces |-> None]}

\* n system calls fail.
Fail(n) ==
    /\ Room(n)
    /\ failures' = failures + n

\* net.Interfaces fails and the map stays as it is; otherwise each interface gets
\* its address, or none if Addrs fails.  One that is not listed is passed over.
refreshActivePingInfo ==
    \/ /\ Fail(1)
       /\ UNCHANGED detail
    \/ \E unlisted \in SUBSET {f \in Faces : addr[f] = None}, unread \in SUBSET Faces :
          /\ Fail(Cardinality(unread))
          /\ detail' = [f \in Faces |-> IF f \in unlisted THEN detail[f]
                                       ELSE IF f \in unread THEN None ELSE addr[f]]

\* A send blocks while the channel is full.
Send(message) ==
    /\ pingerChannel = <<>>
    /\ pingerChannel' = <<message>>

-----------------------------------------------------------------------------
(***************************************************************************)
(* pingerTask.                                                             *)
(***************************************************************************)
Sockets == {f \in Faces : socketList[f] # None}

\* openNetworkSockets: a socket that cannot be opened is left out, such as one
\* with an address that the interface does not have any more.
openNetworkSockets ==
    /\ pinger = "open"
    /\ pinger' = "select"
    /\ \E opened \in SUBSET {f \in Faces : detail[f] # None /\ detail[f] = addr[f]} :
          LET assignments == {h \in [opened -> {s \in Socks : watcher[s] = None}] :
                                \A f, g \in opened : f # g => h[f] # h[g]}
              sock == CHOOSE h \in assignments : TRUE
              unopened == {f \in Faces : detail[f] # None /\ detail[f] = addr[f]} \ opened
              new == {sock[f] : f \in opened}
          IN  /\ assignments # {}
              /\ Fail(Cardinality(unopened))
              /\ socketList' = [f \in Faces |-> IF f \in opened THEN sock[f] ELSE None]
              /\ boundTo' = [s \in Socks |-> IF s \in new THEN detail[CHOOSE f \in opened : sock[f] = s]
                                             ELSE boundTo[s]]
              /\ closed' = closed \ new
              /\ watcher' = [s \in Socks |-> IF s \in new THEN Reading ELSE watcher[s]]
    /\ UNCHANGED <<networkVars, pingVars, todo, hash, detail, controlVars>>

Outstanding == {pingMap[n].ping : n \in {m \in 0..(Seqs - 1) : pingMap[m] # None}}

NoPings == [n \in 0..(Seqs - 1) |-> None]

\* Mutant of Receive: the sequence numbers begin anew as well.
ReceiveResets ==
    /\ pinger = "select"
    /\ pingerChannel # <<>>
    /\ pingerChannel' = <<>>
    /\ pinger' = IF Head(pingerChannel) THEN "finish" ELSE "open"
    /\ closed' = closed \cup {socketList[f] : f \in Sockets}
    /\ pingMap' = NoPings
    /\ forgotten' = forgotten \cup Outstanding
    /\ sequenceCounter' = 0
    /\ UNCHANGED <<networkVars, socketList, boundTo, failures, sent, replies, answered,
                   timedOut, failed, todo, hash, detail, hup, hups, stop, watcher>>

\* A message: the sockets are closed and the outstanding pings forgotten.
Receive ==
    /\ pinger = "select"
    /\ pingerChannel # <<>>
    /\ pingerChannel' = <<>>
    /\ pinger' = IF Head(pingerChannel) THEN "finish" ELSE "open"
    /\ closed' = closed \cup {socketList[f] : f \in Sockets}
    /\ pingMap' = NoPings
    /\ forgotten' = forgotten \cup Outstanding
    /\ UNCHANGED <<networkVars, socketList, boundTo, failures, sequenceCounter, sent, replies, answered,
                   timedOut, failed, todo, hash, detail, hup, hups, stop, watcher>>

Finish ==
    /\ pinger = "finish"
    /\ Send(TRUE)
    /\ pinger' = "returned"
    /\ UNCHANGED <<networkVars, sockVars, pingVars, todo, hash, detail, hup, hups, stop, watcher>>

\* net.Interfaces shows what it showed before, or fails.
checkForNoChanges ==
    /\ UNCHANGED hash
    /\ IF link = hash THEN UNCHANGED failures ELSE Fail(1)

\* pingerWorker, when checkForInterfaceChanges sees a change or there is no
\* socket: the maps are rebuilt and a message is sent to pingerTask itself.
WorkerRecycles ==
    /\ pinger = "select"
    /\ pingerChannel = <<>>
    /\ \/ link # hash /\ hash' = link /\ UNCHANGED failures
       \/ Sockets = {} /\ checkForNoChanges
    /\ pinger' = "load"
    /\ UNCHANGED <<networkVars, sockets, pingVars, todo, detail, controlVars, watcher>>

\* Mutant of WorkerLoads: the addresses are not looked up.
WorkerLoadsOnly ==
    /\ pinger = "load"
    /\ loadInterfaceDetailMap
    /\ pinger' = "send"
    /\ UNCHANGED <<networkVars, sockVars, pingVars, todo, hash, controlVars, watcher>>

WorkerLoads ==
    /\ pinger = "load"
    /\ loadInterfaceDetailMap
    /\ pinger' = "refresh"
    /\ UNCHANGED <<networkVars, sockVars, pingVars, todo, hash, controlVars, watcher>>

WorkerRefreshes ==
    /\ pinger = "refresh"
    /\ refreshActivePingInfo
    /\ pinger' = "send"
    /\ UNCHANGED <<networkVars, sockets, pingVars, todo, hash, controlVars, watcher>>

\* Mutant of WorkerSends: the worker goes on when its sockets are to be renewed.
WorkerSendsOn ==
    /\ pinger = "send"
    /\ Send(FALSE)
    /\ pinger' = IF Sockets = {} THEN "load" ELSE "select"
    /\ UNCHANGED <<networkVars, sockVars, pingVars, todo, hash, detail, hup, hups, stop, watcher>>

WorkerSends ==
    /\ pinger = "send"
    /\ Send(FALSE)
    /\ pinger' = "select"
    /\ UNCHANGED <<networkVars, sockVars, pingVars, todo, hash, detail, hup, hups, stop, watcher>>

\* Mutant of WorkerCounts: what has timed out stays in the map.
WorkerCountsKeeps ==
    /\ pinger = "select"
    /\ pingerChannel = <<>>
    /\ Sockets # {} /\ checkForNoChanges
    /\ sent + Cardinality(Sockets \X Targets) <= MaxPings
    /\ timedOut' = timedOut \cup Outstanding
    /\ todo' = Sockets \X Targets
    /\ pinger' = "ping"
    /\ UNCHANGED <<networkVars, sockets, pingMap, sequenceCounter, sent, replies, answered, forgotten,
                   failed, detail, controlVars, watcher>>

\* pingerWorker otherwise: what is outstanding has timed out, and a batch begins.
WorkerCounts ==
    /\ pinger = "select"
    /\ pingerChannel = <<>>
    /\ Sockets # {} /\ checkForNoChanges
    /\ sent + Cardinality(Sockets \X Targets) <= MaxPings
    /\ timedOut' = timedOut \cup Outstanding
    /\ pingMap' = NoPings
    /\ todo' = Sockets \X Targets
    /\ pinger' = "ping"
    /\ UNCHANGED <<networkVars, sockets, sequenceCounter, sent, replies, answered, forgotten,
                   failed, detail, controlVars, watcher>>

nextSequenceNumber(n) == IF (n + 1) % Seqs = 0 THEN 1 ELSE (n + 1) % Seqs

\* A reply is read or lost before its sequence number comes round again.
Recent(ping) == sent + 1 - ping < Seqs - 1

\* pingNetworkAddress and the entry for it, under pingLocker.
Ping(f, x) ==
    LET n == nextSequenceNumber(sequenceCounter)
    IN  /\ pinger = "ping"
        /\ <<f, x>> \in todo
        /\ todo' = todo \ {<<f, x>>}
        /\ \A s \in Socks : watcher[s] \notin {None, Reading} => Recent(watcher[s].ping)
        /\ sequenceCounter' = n
        /\ sent' = sent + 1
        /\ pingMap' = [pingMap EXCEPT ![n] = [face |-> f, ping |-> sent + 1]]
        /\ replies' = {r \in replies : Recent(r.ping)}
                        \cup {[face |-> f, seq |-> n, ping |-> sent + 1]}
        /\ UNCHANGED <<networkVars, sockVars, answered, timedOut, forgotten, failed, pinger, hash,
                       detail, controlVars, watcher>>

\* The name is not resolved, or nothing can be sent: the entry has the number
\* zero, like that of the last ping that failed.
PingFails(f, x) ==
    /\ pinger = "ping"
    /\ <<f, x>> \in todo
    /\ todo' = todo \ {<<f, x>>}
    /\ sequenceCounter' \in {sequenceCounter, nextSequenceNumber(sequenceCounter)}
    /\ sent' = sent + 1
    /\ failed' = failed \cup {sent + 1}
    /\ pingMap' = [pingMap EXCEPT ![0] = [face |-> f, ping |-> sent + 1]]
    /\ UNCHANGED <<networkVars, sockVars, replies, answered, timedOut, forgotten, pinger, hash,
                   detail, controlVars, watcher>>

BatchSent ==
    /\ pinger = "ping"
    /\ todo = {}
    /\ pinger' = "select"
    /\ UNCHANGED <<networkVars, sockVars, pingVars, todo, hash, detail, controlVars, watcher>>

PingerStep ==
    \/ openNetworkSockets
    \/ Receive
    \/ Finish
    \/ WorkerRecycles
    \/ WorkerLoads
    \/ WorkerRefreshes
    \/ WorkerSends
    \/ WorkerCounts
    \/ \E f \in Faces, x \in Targets : Ping(f, x) \/ PingFails(f, x)
    \/ BatchSent

-----------------------------------------------------------------------------
(***************************************************************************)
(* watchNetworkSocket.                                                     *)
(***************************************************************************)
\* ReadFrom returns a reply, which the network may deliver more than once.
Read(s) ==
    /\ watcher[s] = Reading
    /\ s \notin closed
    /\ \E r \in replies :
         /\ socketList[r.face] = s
         /\ watcher' = [watcher EXCEPT ![s] = r]
    /\ UNCHANGED <<networkVars, sockVars, pingVars, pinVars, controlVars>>

\* The outstanding ping is found by sequence number, removed and measured.
Match(s) ==
    /\ watcher[s] \notin {None, Reading}
    /\ LET entry == pingMap[watcher[s].seq]
       IN  answered' = IF entry = None THEN answered ELSE answered \cup {entry.ping}
    /\ pingMap' = [pingMap EXCEPT ![watcher[s].seq] = None]
    /\ watcher' = [watcher EXCEPT ![s] = Reading]
    /\ UNCHANGED <<networkVars, sockVars, pinVars, controlVars, sequenceCounter, sent, replies,
                   timedOut, forgotten, failed>>

\* Closing the socket interrupts ReadFrom.
WatcherReturns(s) ==
    /\ watcher[s] = Reading
    /\ s \in closed
    /\ watcher' = [watcher EXCEPT ![s] = None]
    /\ closed' = closed \ {s}
    /\ boundTo' = [boundTo EXCEPT ![s] = None]
    /\ UNCHANGED <<networkVars, socketList, failures, pingVars, pinVars, controlVars>>

\* ReadFrom fails otherwise: nobody reads the socket, which stays in the list.
WatcherFails(s) ==
    /\ watcher[s] = Reading
    /\ s \notin closed
    /\ Fail(1)
    /\ watcher' = [watcher EXCEPT ![s] = None]
    /\ UNCHANGED <<networkVars, sockets, pingVars, pinVars, controlVars>>

-----------------------------------------------------------------------------
(***************************************************************************)
(* PluginSignal and PluginShutdown.                                        *)
(***************************************************************************)
controlOnly == <<networkVars, sockVars, pingVars, pinger, todo, hash, watcher>>

SIGHUP ==
    /\ hup = "idle"
    /\ Room(1)
    /\ hups' = hups + 1
    /\ hup' = "load"
    /\ UNCHANGED <<controlOnly, detail, pingerChannel, stop>>

HupLoads ==
    /\ hup = "load"
    /\ loadInterfaceDetailMap
    /\ hup' = "refresh"
    /\ UNCHANGED <<controlOnly, hups, pingerChannel, stop>>

HupRefreshes ==
    /\ hup = "refresh"
    /\ refreshActivePingInfo
    /\ hup' = "send"
    /\ UNCHANGED <<networkVars, sockets, pingVars, pinger, todo, hash, watcher, hups, pingerChannel, stop>>

\* Mutant of HupSends: the message is the one to finish.
HupSendsTrue ==
    /\ hup = "send"
    /\ Send(TRUE)
    /\ hup' = "idle"
    /\ UNCHANGED <<controlOnly, detail, hups, stop>>

HupSends ==
    /\ hup = "send"
    /\ Send(FALSE)
    /\ hup' = "idle"
    /\ UNCHANGED <<controlOnly, detail, hups, stop>>

\* What PluginShutdown does to stop interfaceTask, which never sends to itself,
\* comes before and ends within ten seconds.
PluginShutdown ==
    /\ stop = "none"
    /\ stop' = "sendPinger"
    /\ UNCHANGED <<controlOnly, detail, pingerChannel, hup, hups>>

StopSends ==
    /\ stop = "sendPinger"
    /\ Send(TRUE)
    /\ stop' = "selectPinger"
    /\ UNCHANGED <<controlOnly, detail, hup, hups>>

\* The select takes what is in the channel, be it its own message, or gives up
\* after ten seconds.
StopSelectsPinger ==
    /\ stop = "selectPinger"
    /\ stop' = "returned"
    /\ pingerChannel' \in {pingerChannel, <<>>}
    /\ UNCHANGED <<controlOnly, detail, hup, hups>>

HupStep == HupLoads \/ HupRefreshes \/ HupSends

StopStep == StopSends \/ StopSelectsPinger

WatcherStep(s) == Match(s) \/ WatcherReturns(s)

PingerNext ==
    \/ \E f \in Faces : LinkChange(f) \/ AddressChange(f)
    \/ PingerStep
    \/ \E s \in Socks : Read(s) \/ WatcherStep(s) \/ WatcherFails(s)
    \/ SIGHUP
    \/ HupStep
    \/ PluginShutdown
    \/ StopStep

PingerSpec == PingerInit /\ [][PingerNext]_pingerVars

\* Every goroutine that can run does, and time passes for each select.  Whether
\* replies, changes, signals or errors come is open.  The senders that wait for a
\* channel are served in their order, so that none waits for ever while others
\* send.
Fairness ==
    /\ WF_pingerVars(PingerStep)
    /\ SF_pingerVars(HupStep)
    /\ SF_pingerVars(StopStep)
    /\ \A s \in Socks : WF_pingerVars(WatcherStep(s))

PingerFairSpec == PingerSpec /\ Fairness

-----------------------------------------------------------------------------
\* Every ping that did not fail is outstanding, measured, counted as timed out or
\* forgotten by a recycle, and only one of these: none is lost between the
\* pinger and the watchers, none counts as answered and as timed out, however
\* late or often its reply comes.  A ping that failed is never measured, and only
\* the last one of a batch has a fate: the entries of the others are lost.
OneFate ==
    LET fates == <<Outstanding, answered, timedOut, forgotten>>
        counted == UNION {fates[i] : i \in 1..4}
    IN  /\ \A i, j \in 1..4 : i # j => fates[i] \cap fates[j] = {}
        /\ counted \subseteq 1..sent
        /\ (1..sent) \ failed \subseteq counted
        /\ failed \cap answered = {}

\* pinger.go: "The sequence number is used to lookup the transmit time": the
\* entry that a reply finds is that of the ping it answers, or there is none,
\* also when the map was made anew in between.
ReplyFindsOwnPing ==
    \A s \in Socks : watcher[s] \notin {None, Reading} =>
        LET entry == pingMap[watcher[s].seq]
        IN  entry = None \/ entry.ping = watcher[s].ping

\* The pinger waits to send to a channel that nobody but itself reads.
Stuck == pinger = "send" /\ pingerChannel # <<>>

\* pingerWorker's message to its own task finds the channel empty, unless a
\* SIGHUP was handled or PluginShutdown is about to take the message back: only
\* then may the pinger block on itself.
StuckNeedsSignal == Stuck => hups > 0 \/ stop \in {"selectPinger", "returned"}

\* After a change of interfaces that net.Interfaces shows, every interface with
\* an address has a socket with the new address and a goroutine that reads it, and
\* no other interface has a socket, unless the pinger has ended or is stuck.  An
\* interface that was left out because of an error is tried again only if no
\* other one has a socket, and a goroutine that has met an error is not replaced.
SocketsFollowLinks ==
    <>[](\/ quiet
         \/ Stuck
         \/ pinger \in {"finish", "returned"}
         \/ \A f \in Faces :
              IF socketList[f] = None
              THEN addr[f] = None \/ (failures > 0 /\ Sockets # {})
              ELSE /\ boundTo[socketList[f]] = addr[f]
                   /\ watcher[socketList[f]] # None \/ failures > 0)

\* PluginShutdown, and with it packetd, comes to an end unless the pinger is
\* stuck.
ShutdownReturns == stop # "none" ~> (stop = "returned" \/ Stuck)

=============================================================================
