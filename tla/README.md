# Verification of packetd

packetd is the packet daemon of a firewall. The kernel queues the first packets
of every connection to it and sends it connection tracking events; packetd
keeps a table of sessions, lets plugins look at the packets, stores what they
find in a kernel dictionary and logs it to a database, and gives the packet back.
This directory holds TLA+ specifications of its parts, TLC models that check them
on small instances, and TLAPS proofs that hold for instances of any size.

## 1. The system

| part | state | operations that change it | interacts with |
|---|---|---|---|
| `services/kernel` (Go and C) | callbacks, shutdown flag, warehouse flag and buffers | three C threads (nfqueue, conntrack, netlogger), one goroutine per packet, periodic conntrack dump, capture and playback | netfilter, dispatch |
| `services/dispatch` | `sessionTable`, `conntrackTable`, `sessionIndex`, subscription lists | `nfqueueCallback`, `conntrackCallback`, `netloggerCallback`, `cleanerTask`, `ReleaseSession` | kernel, dict, every plugin |
| `services/dict` | kernel dictionary behind `/proc`, table of dead sessions | add, get and delete entries, `cleanupTask` | dispatch, plugins |
| `services/reports` | sqlite database, open queries, event and cloud queues | `LogEvent`, `eventLogger`, `CreateQuery`, `GetData`, `CloseQuery`, clean-up timers | plugins, restd |
| `services/settings` | settings file | get, set, trim, sync and save | restd, plugins |
| `services/certcache`, `plugins/certfetch`, `plugins/certsniff`, `plugins/revdns` | tables of holders that one packet fills and others wait for | handlers, cleaners | dispatch |
| `plugins/classify` | classd process, its socket, cap-1 signal channels | process, socket and cloud manager, packet handler | dispatch, reports |
| `plugins/stats` | latency collectors, sockets, pending pings | pinger, watcher, session handler | dispatch |
| `plugins/dns`, `plugins/sni`, `plugins/geoip`, `plugins/reporter`, `plugins/predicttraffic` | small caches, or none | packet handlers, cleaners | dispatch, reports |
| `services/logger`, `services/overseer` | level table, counters | log, adjust level, count | all |
| `services/restd`, `cmd/settingsd` | web sessions | HTTP handlers | settings, reports, dispatch |
| `cmd/packetd` | start and stop order | `main`, `startServices`, `stopServices` | all |

What makes this program hard to test is that a connection is known by its conntrack
id (ctid), which the kernel reuses; that packets and events of one connection arrive
on different threads; that events can be lost; and that every packet runs in a
goroutine of its own, so that any two handlers interleave between two locks.

## 2. Modules and what they model

### Dispatch

`Dispatch.tla` is the core: the two tables of `services/dispatch` and the actors
that share them. A connection `k` has a ctid `CtidOf[k]` and a client tuple
`TupleOf[k]`; sessions are records in a sequence whose index is the identity of the
Go object, so that "the same ctid, another session" can be told apart.

| variable | code |
|---|---|
| `sessionTable`, `sessionIdle` | `sessionTable` and the `lastActivity` of the session in it, measured against the cleaner's two limits (60 s and 10000 s) |
| `conntrackTable`, `conntrackIdle` | `conntrackTable` and the entry's `LastActivityTime` |
| `session` | every `Session`: its connection and the connection of its `conntrackPointer` |
| `dict` | the kernel dictionary's entries of a ctid: `session_id`, and whether there are others (`bypass_packetd` and what plugins store) |
| `packet` | one goroutine of `nfqueueCallback` per packet, with the session it looked up |
| `handler` | the conntrack thread in `conntrackCallback`, with what it looked up |
| `cleaner` | `cleanerTask`: `cleanSessionTable`, then `cleanConntrackTable` under its mutex |
| `kernel`, `events` | netfilter (external): life of a connection, and the event socket, which is in order and loses what does not fit, or anything else |

An action is what a goroutine does between two acquisitions of `sessionMutex` or
`conntrackTableMutex`. `removeConntrackStale`, for instance, is three actions
(conntrack entry, dictionary, session), `cleanSessionTable` is one because it holds
the mutex throughout, and `cleanConntrackTable` is one action per entry with the mutex
modelled by `ConntrackTableFree` and the entry's `Guardian` in `UpdateConntrack`.

External assumptions, from how netfilter behaves: a ctid is given to a new
connection only when no live connection has it and no queued packet refers to it; a
NEW event follows the verdict on the first packet; UPDATE events come from the
periodic dump; events of the socket are read in order.

Left out: packets that are neither IPv4 nor IPv6 and loopback packets and events (they
return at once and change nothing), byte and packet counters, the session ids of
conntracks without session, and `HandleWarehouseCleanup` (module Warehouse). `nextSessionID` and the
insertion into the table are one step; ids are unique because of the mutex. The kernel is assumed to take the dictionary entries it is
given: `insertSessionTable` does not look at the error of `AddSessionEntry` (`session.go:435`), and after one the entry of a session would be missing.

### Verdicts, Subscribers

`Subscribers.tla` is `callSubscribers`: several packets of one session, each going
through the priorities and starting one goroutine per plugin that waits for the plugin
or for a timer. `call[p][o].st` follows the result of plugin `o` for packet `p` through
the two channels `c` (capacity 1) and `resultsChannel` (unbuffered). `ReleaseSession` is
one step because it holds `subLocker`. At first `bypass_packetd` may be set, by an earlier connection with the ctid. `Verdicts.tla` is what a plugin and the kernel may rely on, without counters, channels,
timers and goroutines: whoever was subscribed when the packet came is asked, in the order of the priorities; the last answer is
followed by the verdict; who leaves the session last makes the kernel bypass packetd. `Subscribers` implements it with
`phase` mapped to `Phase` (a packet whose loop runs is open) and `waiting` to `Waiting` (the plugins of the list whose result was not read).

### SessionIndex

`SessionIndex.tla` is `nextSessionID` across restarts: `StartIndex` is the shifted clock of
`Startup`, with the sizes of the code as parameters (`Shift` 2^16, `Mask` 2^32, `Width` 2^63). The rate of new sessions that the comment in `dispatch.go` takes
for granted is the guard `WithinRate`.

### HolderCache

`HolderCache.tla` is the pattern that `certfetch` (with `certcache`) and `revdns` share: the first
packet for an address inserts a holder whose `WaitGroup` is taken, fetches, and releases it; other packets
wait. The mutex that makes lookup and insertion atomic is a parameter, `MutexOf`: one mutex is
`certfetch`, two are the client and the server handler of `revdns`. The cleaner removes holders by
their creation time, which is zero until the fetch is over.

### Classd

`Classd.tla` is the life of the classd daemon in the classify plugin: `daemonProcessManager`,
`daemonSocketManager`, the goroutine that waits for the process, packet handlers that recycle a broken
socket, and `PluginShutdown`. `signalProcessManager` and `signalSocketManager` send on channels of
capacity 1 and drop the signal if the channel is full; a manager that is blocked in its receive takes the
signal directly. The operating system's part (the process ends, a connect fails) is external.

### Reports

`Reports.tla` is `services/reports` without its cloud queue. Events: plugins log an insert and then an
update per session, the queue drops what does not fit, one logger executes statements, which may fail,
and the cleaner trims old rows. Queries: `CreateQuery`, `GetData` and `CloseQuery` as steps between the
acquisitions of `queriesLock` and the calls of `database/sql` (external: `Advance` is `Rows.Next`), with
the clean-up goroutine of each query. A row is its number in the result.

### Json, SettingsStore, Settings

`Settings.tla` is `services/settings` behind the REST handlers: requests that read `settings.json`, the
settings in force (`current.json`) or the defaults, and requests that change a document with `syncAndSave`.
Each step of a save is an action (temporary file, `sync-settings`, `os.Create`, every write of `io.Copy`),
each can fail, requests take no lock, and `Crash` ends all requests under way and leaves the files. The file
is `Chunks` pieces, each from some document or missing, because a reader may come between two writes. `Json.tla`
has the functions that read, set and trim a document by a path. A node is a map, an array, a value or null; maps and arrays are
functions, from keys or from indices that begin at 0. The recursive calls of the code for a path are numbered (call `i` has the segments after the first `i` left):
`Objects` and `SetObjects` are the objects they are called with, `Results` what they return. The values that a request changes and reads are
`Edit` and `Show` of `Settings`, and the requests and documents of the instance are in `MCSettings.tla`. `SettingsStore.tla` is the
abstract specification: the file shows a document that `sync-settings` accepted, or none, and a request reads
what it shows. `Settings` implements it with `shown` mapped to `Shown`.

### Dict

`Dict.tla` is `services/dict`: `AddEntry` and `DeleteDictionary` with their wrappers for sessions, hosts, users and devices,
readers that open the file, take `readMutex`, write their request and scan the answer (`GetTable`, `GetDictionary`), or that scan
the file of all entries without a lock (`GetAllEntries`), and the task that deletes sessions nobody else deletes. The kernel keeps one
request for all (external, from how the code locks). A key is a table, a typed id and a field. `generateKey`, `parseKey`,
`generateValue` and `parseValue` give every type the token it is written with and the type it is read back as; numbers have the
widths `Int32` and `Int64` and become 0 where `Sscanf` finds them too large. `parseEntry` tells the parts of a line apart by the tokens they contain, so
a text is modelled by the tokens that occur in it (`Mentions`): one with `table: `, `field: ` or `key_` in it is taken for another part. Otherwise the spelling of a string, a
hardware or an IP address is abstracted; keys and fields are without blanks, line ends and tokens. `GetEntry`, the typed getters and
`GetSessions` are operators on the entries a reader got. A session's time stamp is its age in cycles of the task. `service` is the daemon's
`Startup` and `Shutdown` of the service, `leaked` remembers that an early return kept the mutex, `disabled` that no task was started.

### Warehouse and Lifecycle

`Warehouse.tla` is capture and playback: the flag, the goroutine that waits for `cleanupMutex`, the ids a playback
gives to the callbacks and the lists from which `HandleWarehouseCleanup` removes them. `Lifecycle.tla` extends it
with the rest of a process's life: `main` of `cmd/packetd` step by step, plugins started and stopped in parallel,
signals, rules, `StartCallbacks` and `StopCallbacks` with their goroutines, one channel and time limits, and the
loops of the three kinds of C threads with their errors. A queue thread gives each packet to a goroutine (`packets`), which `childsync` does not
count; `outlived` remembers those that were still at work when the last thread had returned. A time limit may run out at any time. `Lifecycle` takes
the warehouse options of the command line; REST requests are in `WarehouseSpec`, because the two together are too many
states for TLC.

### Pinger

`Pinger.tla` is the pinger of `plugins/stats`: `pingerTask` and its worker, one watcher per socket, `PluginSignal`
and `PluginShutdown`. `pingerChannel` has capacity 1 and is sent to by the pinger itself. A ping has a number of its own
beside the sequence number, so that a late reply and the ping it finds can be told apart. A ping that fails returns the sequence number 0, and its entry is put there
over that of the last one that failed. The network is external: replies
are late, repeated or lost; an interface goes down or comes up (`LinkChange`), and may get or lose an address with it or without (`AddressChange`). `link` is what
`net.Interfaces` shows and `checkForInterfaceChanges` compares, so an interface that was down and is up again before the next look has not changed; addresses are not in it. The system calls fail
(`Fail`): `net.Interfaces` in both places, `Addrs`, which leaves an interface out, `ListenPacket`, and `ReadFrom`, which ends a watcher while its socket stays in the list. Opening a socket with an address the interface has lost fails
always. `MaxTroubles` bounds changes, failures and SIGHUPs together; with it the errors end. `Recent` says that no packet lives as long as the sequence numbers
take to repeat, 65536 in the code and `Seqs` here.

## 3. Runs

| run | bounds | properties | what it shows |
|---|---|---|---|
| `dispatch_race` | 1 ctid, 2 connections, 2 packets at a time, 2 sessions, 1 event in the socket | `LinkedToOwnConnection`, `DictShowsCurrentSession`, `EvictionsJustified` | links, dictionary and evictions while packets race each other, the handler and the cleaner |
| `dispatch_noleak` | 1 packet, 1 event, fairness | `NoLeak` | tables are emptied although events are lost |
| `subscribers` | 2 packets, 2 plugins of different priority, fairness | `CalledInOrder`, `AllAnswered`, `BypassIffUnsubscribed`, `VerdictSpec`, `VerdictInTime` | refinement of `Verdicts`, and with it that the loop never panics; order, completeness, bypass; a verdict unless a plugin exceeds its time |
| `session_index` | 5 seconds, 2 ids per second; restarts a second apart | `EverIncreasing` | ids grow across restarts |
| `holder_cache` | 2 addresses, 4 packets, 1 mutex, fairness | `AttachesFetched`, `NeverReplaced`, `AllServed` | packets attach what was fetched for their address, holders are not replaced, nobody waits for ever |
| `classd` | 3 starts of the daemon, fairness | `ReconnectPending`, `OneDaemon`, `RestartedUnlessDropped`, `SocketComesBack` | one daemon at a time; a lost connection is not forgotten and comes back; the daemon is restarted unless a signal is dropped |
| `reports` | 2 sessions, queue of 2, 1 query of 3 rows, pages of 2, 2 clients, fairness | `UpdateVisible`, `PageInOrder`, `OpenHasTimer`, `QueriesCleaned` | updates are visible, pages in order, no rows leak, queries are closed in the end |
| `settings` | 3 requests out of 11 kinds, 2 temporary files, 2 writes per copy, 15 documents, crashes | `TornOnlyByInterruptedSave`, `OnlyThePathChanges`, `StoreSpec`, `OkMeansSaved` | refinement of the store; an OK means saved and in force; only an interrupted or overlapped copy leaves the file incomplete; an edit changes its path only |
| `dict` | 1 session and a host with 2 fields each, one of them a text with `key_` in it, 2 readers, 2 writes, 1 failing call, `MaxAge` 1, int32 of 3 and int64 of 4 bits, fairness | `ReadsWhatWasWritten`, `RemovalsApart`, `OrphansRemoved`, `ReadersReturn`, `ShutdownReturns` | a reader gets what was last written for the keys it asked for, in the type it should have, or no value for a text with a token; abandoned sessions are removed, and a ctid not twice within the limit; readers and shutdown return |
| `lifecycle` | 1 queue thread and the other two, packets, 2 plugins, 1 playback, 1 failure, fairness | `PluginsThereForCallbacks`, `DeadThreadMeansShutdown`, `RulesGoneAtExit`, `Exits` | plugins are there for callbacks of threads and, if it did not outlive them, of a packet's goroutine, a dead thread means shutdown, rules are removed, packetd exits |
| `warehouse` | 2 playbacks, 2 ids | `PlaybackCleanable` | what the last playback left can be cleaned up |
| `pinger` | 2 interfaces, of which one may have no address, 1 target, 3 sockets, 3 sequence numbers that come round; 2 pings and 1 trouble, or 2 troubles; fairness | `OneFate`, `ReplyFindsOwnPing`, `StuckNeedsSignal`, `SocketsFollowLinks`, `ShutdownReturns` | one fate per ping, replies find their own ping, sockets follow interfaces, the pinger blocks itself only after a signal or at shutdown |

The type invariants `TypeOK` are not among the properties of the runs: they are theorems (section 4).

Conditions in these properties are exceptions that the code really has: `leaked` and `disabled` (Dict), `Stuck`
(Pinger), `hung`, `polled` and `timedOut` (Lifecycle), `dropped` (Classd), `TimedOut` (Subscribers). Each is reachable in
its run; section 5 says what happens then.

Why the bounds are enough. Dispatch: the code never relates two ctids, every lookup, insertion and
removal uses the ctid of the packet, event or entry at hand, so one ctid is enough; two connections are
the least number for reuse. Subscribers: two plugins of different priority let one be started
while the other is awaited, and two packets let each release the last subscription. Reports: with three
rows and pages of two a query is read in more than one page, and two clients can share it. Classd: three
starts are a first one, a restart and a restart that races the shutdown. Settings: two writes are the
least number with a state between them, and three requests let a reader meet two overlapping saves; a path of the
instance ends in an array, leads through one, through a value or to nothing. Dict: one reader
that fails and one that comes after it, a session that is deleted and comes again with its ctid during a cleaning, and numbers at the ends of their
ranges; ctids share nothing but the list of the cleaner, whose entries are handled apart; `MaxAge` 1 has an age that is kept and one that is not. Lifecycle: each
failure is followed by a complete shutdown, and a second one would need an operator between them; queue threads do not
share state with each other. Warehouse: one playback during, and one before, a clean-up. Pinger (`MCPinger.tla`): of two interfaces one can have a
socket and the other none, which decides whether an error is made good; two pings are
two batches of one interface, so that a reply of the first can come in the second, or one of both, and the counter starts where it wraps around. To send pings and to meet two troubles are two
initial states, because troubles do not look at pings but only close sockets, and one trouble is enough for that; two are needed for a change that meets an error or a SIGHUP. Three sockets let an old watcher be at work while
two new ones are opened. Except for
liveness, what the runs check is proved without these bounds (section 4).

Fairness. Dispatch: time passes and the cleaner's timer keeps firing (weak fairness); a goroutine that
waits for a mutex gets it (strong fairness for the handler and packets, because Go's mutexes hand over to
a waiter that has waited for 1 ms); nothing is assumed of the kernel. Subscribers: runnable goroutines run
and plugins return, before or after their timer. HolderCache: packets run, and a fetch ends, because both
have time-outs of their own. Classd: goroutines run, an interrupted daemon ends, traffic keeps trying a
broken socket, and a connect that is tried again and again to a daemon that stays up succeeds in the end
(strong fairness, because each attempt may fail). Reports: logger and handlers run and timers fire; no
client has to do anything. Dict: goroutines run and calls of the kernel return; strong fairness for a reader that
waits for the mutex and for the cleaner's select, which may prefer its timer but not for ever. Lifecycle: the main goroutine
and the goroutines of the plugins run (weak fairness); nothing is assumed of threads, services or the playback, whose waits all have time
limits. Pinger: its goroutines run (weak fairness), and who waits to send to the channel sends in the end (strong fairness for `PluginSignal` and
`PluginShutdown`, because Go serves blocked senders in their order, and without an address on any interface the pinger sends and receives for ever); nothing is assumed of the network. Settings and Warehouse have no liveness.

Deadlock is not checked where the system may stop: packets and requests of these models are finite in
number, and the daemon ends.

## 4. Proofs

Every safety property of the runs, action properties and both refinements included, is proved for all values of the constants that satisfy the named assumptions. Each
proof module has the inductive invariants as conjunctions of named parts, one lemma or step per action, and theorems that
combine them. The invariants were checked by TLC on the instances of the runs first.

| module | theorems | inductive invariant |
|---|---|---|
| `DispatchProofs` | `TypeCorrect`, `DictCurrent` | what every goroutine remembers (the session a packet found, those found by the handler, the entry the cleaner is about to remove) exists and belongs to the ctid at hand |
| `DispatchLinkProofs` | `Linked`, `Justified` | further: where the code compared tuples, a remembered session is one of the same connection. `LinkedToOwnConnection` alone is not inductive because the handler carries a session across an unlock. Needs `TuplesDistinct`: with equal tuples the code cannot tell two connections on a ctid apart |
| `DaemonProofs` (Subscribers) | `SubscribersTypeCorrect`, `Ordered`, `Answered`, `NeverPanics`, `BypassExact`, `WaitsWithReason`, `ImplementsVerdicts` | `hitcount` is the number of plugins of the current priority that are called and not yet received, `subcount` the number of plugins of the list whose priority has been reached. Needs `PrioritiesBelowLimit`: a plugin with the limit as its priority would make the loop panic |
| `DaemonProofs` (SessionIndex) | `IndexTypeCorrect`, `Increasing` | ids handed out are below the counter while packetd is up, and below the end of the second of its last stop while it is down |
| `ServicesProofs` (Classd) | `ClassdTypeCorrect`, `NeverForgotten`, `NeverTwoDaemons`, `NeverAbandoned` | the signal to start, the launch and the exec monitor follow each other, one at a time, and start only after the last daemon ended; until the shutdown the socket manager has nothing but connects to do. `NeverAbandoned` is inductive by itself: while the plugin is up nothing that would end the process manager is in a channel, in its hands or about to be sent |
| `ServicesProofs` (HolderCache) | `CacheTypeCorrect`, `Fetched`, `NotReplaced`, `FetchUnderWay` | a packet and the table hold holders of the right address, and a packet's own holder keeps others waiting until it is filled; `NotReplaced` adds that who is about to insert holds the mutex of an address that has no holder. `FetchUnderWay` needs `MakerInv`: a holder in the table, or in the hands of a packet, was made by a packet past its insertion, and is waited for only while that packet fetches |
| `ServicesProofs` (Dict) | `DictTypeCorrect`, `ReadBack`, `CleanerRemovesSeldom`, `LockComesBack`, `CleanerThere` | the kernel holds, in its form, what was last written (`Mirrors`); who has written a request holds `readMutex` and the kernel's request is still its own (`Locked`). `ReadsWhatWasWritten` alone is not inductive: it says nothing of what is stored while nobody reads. That every type of key and value survives generating and parsing is a lemma of its own. `RemovalsApart` needs `Noted`: what the cleaner notes of a ctid is no older than the last removal |
| `DaemonProofs` (Warehouse) | `Cleanable`, `CleanableInDaemon` | whoever plays back is the one whose lists dispatch would clean up (`ListsOfPlayer`); without it a second playback could fill lists nobody looks at. `CleanableInDaemon` is the same for the playback of the command line, while the daemon starts and stops around it |
| `DaemonProofs` (Lifecycle) | `LifecycleTypeCorrect`, `PluginsThere`, `DeadThreads`, `RulesGone` | `LifeInv`: threads, and packets, exist only once all plugins are started, and a thread in its loop is counted in `childsync`; once no thread is, packets only become fewer than those that outlived the threads; without a time limit that ran out, the answer of each goroutine of `StopCallbacks` was taken; once no thread was counted, one that was not counted yet finds the flag set. `PluginsThereForCallbacks` is about the moment after `StopCallbacks`, and all of these are needed to get there |
| `PingerProofs` | `PingerTypeCorrect`, `EveryPingOneFate`, `OwnPingFound` | an entry or a reply lies at most as many numbers behind the counter as pings were sent after its own, and the rest of the batch does not come round to a number in use (`EntriesSpaced`, `RepliesConsistent`), and the entry at zero, and no other, is of a ping that failed (`ZeroFailed`). The counter wraps and skips zero, so neither `OneFate` nor `ReplyFindsOwnPing` is inductive without these distances |
| `PingerProofs` | `OnlySignalsBlock` | the pinger sends to its own channel after it has found it empty; something is in it then only because of SIGHUP or the shutdown |
| `ReportsProofs` | `ReportsTypeCorrect`, `NoRowsLeak`, `PagesInOrder`, `UpdatesVisible` | ids in the table, in timers and in requests have rows; a page ends with the last value scanned, which is not ahead of the rows; no insert follows the update of its session in the queue, the logger or the database |
| `SettingsProofs` | `SettingsTypeCorrect`, `TornNeedsCause`, `SavedWhenOk`, `ImplementsStore`, `SavesItsEdit` | a request's temporary file is its own and holds its document; what is in the file or on its way there was accepted; a save alone since its `sync-settings` is the only one and its document is in force; what an undisturbed copy has written is there, and without a cut there is one copy at most. `TornOnlyByInterruptedSave` alone is not inductive: the last write of a copy makes the file whole only if the writes before it are still there. For `SavesItsEdit`: a request that is saving has in `doc` what `Edit` made of `seen`, which the theorems of `JsonProofs` then describe |
| `JsonProofs` | `SetFound`, `TrimFound`, `SetElsewhere`, `TrimElsewhere` | no state: for all documents and paths of any length, what is set is found, what is trimmed is not, and what is found on a path apart from that of the edit (`Apart`) stays. By induction over the calls |

`ImplementsStore` is the refinement: the initial states map to initial states of `SettingsStore`, `Accepts` maps to
`Accept`, `Read` to `Read`, `Create` to `Tear`, the last write of a copy to `Publish` (or a stutter, or `Tear` when copies overlap), everything else
to a stutter. It assumes of the constants only `ChunksAssumption` and `DocsAssumption` (an edit of a document yields a
document or an error).

`ImplementsVerdicts` is the other one: `Start` maps to `Begin`, `Receive` to `Answer`, `PluginReleases` to `Release` (to a stutter if the
plugin had left before), the `NextPriority` that ends the loop to `Finish`, everything else to a stutter. That `Receive` is an `Answer` of somebody
who is asked, and none before it is missing, is `CalledInOrder`; that nobody is waited for at `Finish` is the part of the invariant about `subcount`; and
that the loop ends there and not in a panic is `NoPanic`.

The induction of `JsonProofs` is by least counterexample: the numbers of the calls are well-founded (`NatLessThanWellFounded`), so that a set of calls
which is not empty has a least one (`WFMin`), and the step from a call to the next rules that out. The recursive functions of `Json` are unfolded once per call by lemmas
(`ObjectsCalls` and its like), which is all the theorems use of them. `SetElsewhere` holds for paths that part at a map, or at the array whose element is set; it is
false below an array that the path of the edit leads through, see section 5.

Assumptions that say something of the system: `PingerAssumption` has more sequence numbers than pings in a batch (65536 against
the product of interfaces and targets; with more, a batch would overwrite its own entries), and the guard `Recent` of `Ping` that no reply
is read after its number has come round. `TypesAssumption` has values that fit their type and types that `generateKey` and
`generateValue` accept, fields that have a name, and in the table of sessions the keys of `AddSessionEntry` only. `DictAssumption` has an int64 that is wide enough for
an unsigned int32. `LifecycleAssumption` has three kinds of threads that are not the same. `PathsAssumption` has paths of strings. The others (`WarehouseAssumption`, `EntryAssumption`) keep "none"
apart from what is there.

Model-checked only: liveness, which needs fairness and `ENABLED`. What could go wrong in these properties is that somebody waits for something
that nobody will do; where this is a statement about states, it is a theorem:

| liveness property | who waits, and what is proved about it |
|---|---|
| `VerdictInTime` | a packet: a plugin it waits for works or its result is under way, unless a timer fired (`WaitsWithReason`) |
| `AllServed` | a packet: who holds the mutex is about to release it, whose holder is waited for is fetching (`FetchUnderWay`) |
| `RestartedUnlessDropped` | a dead daemon: its end is being watched, or the start is signalled or under way, and the process manager runs (`NeverAbandoned`) |
| `SocketComesBack` | a lost connection: a connect is pending (`NeverForgotten`) |
| `QueriesCleaned` | an open query: its timer runs (`NoRowsLeak`) |
| `ReadersReturn` | a reader: who holds `readMutex` will unlock it, unless one failed with it (`LockComesBack`) |
| `OrphansRemoved`, `ShutdownReturns` of Dict | a dead session, the daemon: the task is in its loop, or about to acknowledge (`CleanerThere`) |
| `ShutdownReturns` of Pinger | the daemon: the pinger blocks itself only after a signal or at shutdown (`OnlySignalsBlock`) |
| `NoLeak`, `Exits`, `SocketsFollowLinks` | nobody waits for another without a limit in time; these rest on timers and loops that go on |

## 5. Where code and comments disagree

Places where the code does something else than a comment of it says. They are why some properties have the
exceptions they have.

* `conntrack.go`, NEW event with another tuple than the session's: "we can conclude its not valid anymore". The event may be
  a late one of an earlier connection; the session it removes is then that of a live one (last disjunct of
  `JustifiedEviction`).
* `nfqueue.go:183`: "We don't need to flush here - this is a new session its already been flushed". If the DELETE event
  of the last connection was lost or is late, a reused ctid inherits its dictionary entries;
  `DictShowsCurrentSession` is about `session_id` only.
* `nfqueue.go`, on the time limit of a plugin: "the packet is passed and the session released". The timer's result
  goes to a channel that nobody reads any more, and so does that of the plugin if it returns later: after a time-out there is never a
  verdict (`VerdictInTime`, `TimedOut`).
* `revdns.go:117`: of two sessions with the same address "the first will do the reverse lookup, and the other threads
  will wait here". The client and the server handler have a mutex each and share the table: both look up.
  `NeverReplaced` assumes one mutex per key, as in certfetch.
* `procmgr.go:72`: "If the shutdown flag is clear the daemon needs to be restarted". The two signals in a row go
  to a channel of capacity 1 that drops what does not fit, and the second may be lost (`RestartedUnlessDropped`).
* `reports.go:174` says that the read lock is held until the query is closed; line 193 releases it at once.
* `kernel.go:110`: "StopCallbacks stops all C services and callbacks". It waits for the threads; the goroutine that a queue thread gives a packet
  to (`kernel.go:288`) may call plugins after it has returned in time, and after the plugins were stopped (`outlived` in `PluginsThereForCallbacks`).
* `dns.go`, the cleaner, says that it removes stale entries; its test keeps those that are past their time and removes the
  others, and the result of `ExpireTime.Add` is discarded (not modelled).

Modelling met others, without a comment to the contrary:

* `removeConntrackStale` deletes the dictionary entries of a ctid before it looks at who owns it
  (`conntrack.go:327`), so `DictShowsCurrentSession` does not say that a live session's entries are there.
* A connection with the tuple and the ctid of a dead one takes over its `Session` object
  (`nfqueue.go:161`), hence `TuplesDistinct`.
* A restart within the second of the last start repeats session ids; `session_index` assumes that the clock
  moves on.
* The certificate cleaner removes a holder whose fetch is going on, because its creation time is zero:
  a certificate may be fetched twice, and `NeverReplaced` is about other packets only.
* The shutdown signal of the classify plugin can be dropped like any other, and a failing `Start` ends in a nil
  dereference (`procmgr.go:153`); `DaemonStartupFails` models it as the end.
* `GetData` calls `rows.Next()` before it looks at the limit, so each full page skips a row; and a row is
  repeated if the query is closed between `Next` and `Scan`. `PageInOrder` allows for both.
* Settings: two overlapping changes lose one of them, or leave the file mixed (`alone` and `cutShort` mark it);
  `sync-settings` has applied a document even if the copy then fails; `setSettings` answers a body that is no JSON
  with an error and still goes on to set the value nil (`restd.go:565`). `setSettingsInJSON` makes a new map of any node on the way that
  is no map ("this will override the existing value", `settings.go:298`), an array too: to set `net/1/x` drops the other elements of the array
  `net`, although `net/1` alone sets an element and `getSettingsFromJSON` reads through arrays. `OnlyThePathChanges` is about the rest (`Apart`). DELETE of `/settings/` without a path trims nothing,
  saves the document as it was and answers OK (`restd.go:173`, `settings.go:233`).
* Dict: a write that fails leaves `readMutex` locked for good (`dict.go:626`); `Shutdown` of a disabled service waits for
  a receiver that was never started (`dict.go:41`, only the goroutine of `stopServices` waits, under its limit); the cleaner removes
  whatever has been in its table for an hour, live or not, and so a young session whose ctid was in use before, though a ctid not twice within the hour
  (`RemovalsApart`); a text value in which a token of the format occurs is read back as no value, and with `key_` in it `GetSessions` may fail for all
  sessions (`dict.go:177`).
* Lifecycle: a queue thread that meets an error of `poll` leaves its loop without setting the shutdown flag
  (`nfqueue.c:273`), and its queue is no longer read; a queue that `nfq_create_queue` does not give is not noticed, because the test is of the array
  (`nfqueue.c:170`), and the next call gets NULL (not modelled); after a time-out of `StopCallbacks` the late answer of the first goroutine is
  taken for the second's (`kernel.go:138`). `PluginShutdown` of stats may never return (`hung`, see Pinger); those of dns and revdns send without a limit too (`dns.go:44`,
  `revdns.go:48`), to a task that does nothing but receive and tidy up.
* Warehouse: a capture file that cannot be created ends the process, which writes the header to NULL (`warehouse.c:49`; the model's behaviour stops there); a file that cannot be played leaves the flag set; a clean-up knows the last playback only, and what
  an earlier one left stays (`older`).
* Pinger: with a message of SIGHUP in the channel the pinger blocks in its own send (`pinger.go:120`) and
  `PluginShutdown`, which has no time limit for its send, blocks with it; an interface whose socket could not be opened is not tried
  again while another has one, and so is one whose addresses could not be read; a watcher that met an error is not replaced until the next recycle (`pinger.go:214`); of the pings of a batch
  that fail only the last one is counted as timed out, because they share the entry at 0 (`pinger.go:156`); a changed address is not seen by `checkForInterfaceChanges`, which compares what
  `net.Interfaces` returns, and that has no addresses.

## 6. Not modelled

* `dispatch`: counters and attachments (one mutex each) and `updateStatsAndRates` (floating point; the differences it
  takes are unsigned, so that its test for a counter that went back never fires, `conntrack.go:428`).
* `classify`: the packet side and the cloud manager, whose table is filled by one goroutine; the parsing of
  classd's replies is data. `predicttraffic`: a cache whose requests do not depend on each other. `dns`: see section 5.
* `stats`: the collectors and `interfaceTask` compute and log averages in floating point.
* `reports`: the cloud queue and its sender, and the SQL text.
* `restd` apart from settings and warehouse: status pages shell out and format; authentication and web sessions are
  kept by libraries. `settingsd` makes the same calls to `settings` as `restd`. `certmanager` shells out to openssl.
* `sni`, `geoip`, `reporter`, `example`: handlers without state of their own. `logger`, `overseer`: levels and
  counters behind a mutex.
* C: netlink parsing, the verdict message, buffers, the record format of captures and the pauses between records.
* Composition: Dispatch, Dict and Pinger are separate from Lifecycle, which has only the states of them that start and stop need.
* In the modelled parts: payload and byte counters, loopback and non-IP packets, a clock that is set back or passes
  the year 2106, the start-up time-outs of classify, certsniff (its keys, other ports than 443, are never those of
  certfetch), the shutdown of the certificate and reverse lookup cleaners, the spelling of strings and addresses in the
  dictionary, console input apart from its effect.
