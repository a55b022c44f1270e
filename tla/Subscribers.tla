---------------------------- MODULE Subscribers -----------------------------
(***************************************************************************)
(* callSubscribers: how the packets of one session are handed to the       *)
(* plugins that subscribed to it.  Several packets of the session are      *)
(* handled at the same time, each by a goroutine of its own that goes      *)
(* through the priorities; every call of a plugin has a goroutine that     *)
(* waits for the plugin or for a timer, and one that runs the plugin.      *)
(***************************************************************************)
EXTENDS Integers, FiniteSets

CONSTANTS
    Packets,        \* packets of the session, each handled once
    Owners,         \* owners of the nfqueue subscriptions
    PriorityOf,     \* [Owners -> priority of the subscription]
    PriorityLimit   \* the loop panics above this one: 100 in the code

ASSUME PluginAssumption ==
    /\ IsFiniteSet(Owners)
    /\ PriorityLimit \in Nat
    /\ PriorityOf \in [Owners -> 0..PriorityLimit]

\* dispatch.go: the priorities in use are 1 to 4.
ASSUME PrioritiesBelowLimit ==
    \A o \in Owners : PriorityOf[o] < PriorityLimit

VARIABLES
    subscriptions,  \* session.subscriptions, guarded by subLocker
    bypass,         \* the dictionary entry bypass_packetd of the session
    packet,         \* [Packets -> state of callSubscribers]
    call            \* [Packets -> [Owners -> state of the call]]

subscriberVars == <<subscriptions, bypass, packet, call>>

-----------------------------------------------------------------------------
\* sublist is the copy of the subscriptions the packet is handled with.
PacketState ==
    [pc : {"idle", "call", "wait", "done", "panic"}, sublist : SUBSET Owners,
     priority : Nat, subcount : Nat, hitcount : Nat]

\* running: the plugin works.  ready: its result is in channel c.  sending: it
\* was taken from c and is offered on resultsChannel.  late: the timer fired
\* and its own result sits in c.  stuck: one of the two goroutines blocks for
\* ever on c, which is full.  release: the result's sessionRelease.
CallState ==
    [st : {"none", "running", "ready", "sending", "received", "late", "stuck"}, release : BOOLEAN]

SubscribersTypeOK ==
    /\ subscriptions \subseteq Owners
    /\ bypass \in BOOLEAN
    /\ packet \in [Packets -> PacketState]
    /\ call \in [Packets -> [Owners -> CallState]]

Idle == [pc |-> "idle", sublist |-> {}, priority |-> 0, subcount |-> 0, hitcount |-> 0]

\* createSession has attached every subscription; no packet was handled yet.  A
\* connection that had the same ctid may have left its entry in the dictionary.
SubscribersInit ==
    /\ subscriptions = Owners
    /\ bypass \in BOOLEAN
    /\ packet = [p \in Packets |-> Idle]
    /\ call = [p \in Packets |-> [o \in Owners |-> [st |-> "none", release |-> FALSE]]]

-----------------------------------------------------------------------------
\* The loop of packet p goes on at pc, its list and calls as they are.
Loop(p, pc, priority, subcount, hitcount) ==
    packet' = [packet EXCEPT ![p] = [pc |-> pc, sublist |-> packet[p].sublist, priority |-> priority,
                                     subcount |-> subcount, hitcount |-> hitcount]]

Call(p, o, st, release) ==
    call' = [call EXCEPT ![p] = [call[p] EXCEPT ![o] = [st |-> st, release |-> release]]]

\* Mutant of ReleaseSession: the last one to go does not set bypass_packetd.
ReleaseOnly(o) ==
    /\ subscriptions' = subscriptions \ {o}
    /\ UNCHANGED bypass

\* ReleaseSession: all of it under subLocker.
ReleaseSession(o) ==
    /\ subscriptions' = subscriptions \ {o}
    /\ bypass' = (bypass \/ (subscriptions # {} /\ subscriptions' = {}))

\* MirrorNfqueueSubscriptions.  Without subscribers the session is bypassed.
Start(p) ==
    /\ packet[p].pc = "idle"
    /\ packet' = [packet EXCEPT ![p] =
                    [pc |-> IF subscriptions = {} THEN "done" ELSE "call",
                     sublist |-> subscriptions, priority |-> 0, subcount |-> 0, hitcount |-> 0]]
    /\ bypass' = (bypass \/ subscriptions = {})
    /\ UNCHANGED <<subscriptions, call>>

Hits(p) == {o \in packet[p].sublist : PriorityOf[o] = packet[p].priority}

\* The current priority's plugins are started; the loop counts n of them as
\* called and waits for m answers.
StartCalls(p, n, m) ==
    /\ packet[p].pc = "call"
    /\ call' = [call EXCEPT ![p] =
                  [o \in Owners |-> IF o \in Hits(p) THEN [st |-> "running", release |-> FALSE]
                                    ELSE call[p][o]]]
    /\ Loop(p, "wait", packet[p].priority, packet[p].subcount + n, m)
    /\ UNCHANGED <<subscriptions, bypass>>

\* Mutants of CallPriority: no answer is awaited, the calls are not counted.
CallPriorityNoWait(p) == StartCalls(p, Cardinality(Hits(p)), 0)

CallPriorityUncounted(p) == StartCalls(p, 0, Cardinality(Hits(p)))

\* Call every plugin of the current priority.
CallPriority(p) == StartCalls(p, Cardinality(Hits(p)), Cardinality(Hits(p)))

\* The plugin returns.  If the timer was faster nobody reads its result.
Return(p, o) ==
    /\ \/ /\ call[p][o].st = "running"
          /\ \E release \in BOOLEAN : Call(p, o, "ready", release)
       \/ /\ call[p][o].st = "late"
          /\ Call(p, o, "stuck", FALSE)
    /\ UNCHANGED <<subscriptions, bypass, packet>>

\* Some plugins call ReleaseSession themselves while they run.
PluginReleases(p, o) ==
    /\ call[p][o].st \in {"running", "late"}
    /\ ReleaseSession(o)
    /\ UNCHANGED <<packet, call>>

\* Mutant of Forward: the result is taken from c and not passed on.
ForwardNothing(p, o) ==
    /\ call[p][o].st = "ready"
    /\ Call(p, o, "received", call[p][o].release)
    /\ UNCHANGED <<subscriptions, bypass, packet>>

\* select: the result arrives first ...
Forward(p, o) ==
    /\ call[p][o].st = "ready"
    /\ Call(p, o, "sending", call[p][o].release)
    /\ UNCHANGED <<subscriptions, bypass, packet>>

\* ... or the timer fires first, and its result is sent to c.
Timeout(p, o) ==
    /\ \/ call[p][o].st = "running" /\ Call(p, o, "late", TRUE)
       \/ call[p][o].st = "ready" /\ Call(p, o, "stuck", call[p][o].release)
    /\ UNCHANGED <<subscriptions, bypass, packet>>

\* Read one result from resultsChannel.
Receive(p, o) ==
    /\ packet[p].pc = "wait"
    /\ packet[p].hitcount > 0
    /\ call[p][o].st = "sending"
    /\ Call(p, o, "received", call[p][o].release)
    /\ IF call[p][o].release THEN ReleaseSession(o) ELSE UNCHANGED <<subscriptions, bypass>>
    /\ Loop(p, "wait", packet[p].priority, packet[p].subcount, packet[p].hitcount - 1)

\* Mutant of NextPriority: the answers are not awaited.
NextPriorityAtOnce(p) ==
    LET priority == packet[p].priority + 1
        pc == IF priority > PriorityLimit THEN "panic"
              ELSE IF packet[p].subcount # Cardinality(packet[p].sublist) THEN "call" ELSE "done"
    IN  /\ packet[p].pc = "wait"
        /\ Loop(p, pc, priority, packet[p].subcount, 0)
        /\ UNCHANGED <<subscriptions, bypass, call>>

\* After the last result of a priority.  The limit is looked at before the
\* loop condition.
NextPriority(p) ==
    LET priority == packet[p].priority + 1
        pc == IF priority > PriorityLimit THEN "panic"
              ELSE IF packet[p].subcount # Cardinality(packet[p].sublist) THEN "call" ELSE "done"
    IN  /\ packet[p].pc = "wait"
        /\ packet[p].hitcount = 0
        /\ Loop(p, pc, priority, packet[p].subcount, 0)
        /\ UNCHANGED <<subscriptions, bypass, call>>

PacketStep(p) ==
    \/ Start(p)
    \/ CallPriority(p)
    \/ \E o \in Owners : Receive(p, o)
    \/ NextPriority(p)

SubscribersNext ==
    \E p \in Packets :
        \/ PacketStep(p)
        \/ \E o \in Owners : \/ Return(p, o)
                             \/ PluginReleases(p, o)
                             \/ Forward(p, o)
                             \/ Timeout(p, o)

SubscribersSpec == SubscribersInit /\ [][SubscribersNext]_subscriberVars

\* Runnable goroutines run and plugins return, sooner or later than the timer.
SubscribersFairSpec ==
    /\ SubscribersSpec
    /\ \A p \in Packets :
         /\ WF_subscriberVars(PacketStep(p))
         /\ \A o \in Owners : /\ WF_subscriberVars(Return(p, o))
                              /\ WF_subscriberVars(Forward(p, o) \/ Timeout(p, o))

-----------------------------------------------------------------------------
\* "the handlers are called in order starting with the lowest priority": a
\* plugin is called only when all of lower priority have answered for the
\* same packet, and none that the packet started with is left out.
CalledInOrder ==
    \A p \in Packets : \A o \in packet[p].sublist : call[p][o].st # "none" =>
        \A q \in packet[p].sublist : PriorityOf[q] < PriorityOf[o] => call[p][q].st = "received"

\* callSubscribers returns, and the kernel gets its verdict, only after every
\* plugin that was subscribed at the start has answered, and after no other.
AllAnswered ==
    \A p \in Packets : packet[p].pc = "done" =>
        packet[p].sublist = {o \in Owners : call[p][o].st = "received"}

\* The loop over the priorities ends before the limit: it never panics.
NoPanic == \A p \in Packets : packet[p].pc # "panic"

\* Seen from outside, a packet is open while its loop runs; who has not answered
\* is whose result the loop has not read.
Phase == [p \in Packets |-> IF packet[p].pc \in {"call", "wait"} THEN "open" ELSE packet[p].pc]

Waiting == [p \in Packets |-> {o \in packet[p].sublist : call[p][o].st # "received"}]

Promise == INSTANCE Verdicts WITH phase <- Phase, waiting <- Waiting

\* The counters, channels, timers and goroutines of callSubscribers do what
\* Verdicts promises: one answer of everyone who was subscribed, in the order of
\* the priorities, then the verdict, and no panic instead of it.
VerdictSpec == Promise!Spec

\* The kernel is told to bypass packetd when nobody is interested in the session
\* any more, whichever packet's plugin is the last one to go, and not before.
BypassIffUnsubscribed ==
    /\ [](Owners # {} /\ subscriptions = {} => bypass)
    /\ [][bypass' # bypass => bypass' /\ subscriptions' = {}]_subscriberVars

TimedOut(p) == \E o \in Owners : call[p][o].st \in {"late", "stuck"}

\* Every packet gets its verdict if no plugin exceeds its time.
VerdictInTime ==
    \A p \in Packets : packet[p].pc # "idle" ~> (packet[p].pc = "done" \/ TimedOut(p))

=============================================================================
