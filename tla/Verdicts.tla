------------------------------ MODULE Verdicts ------------------------------
(***************************************************************************)
(* What callSubscribers promises for the packets of a session: every       *)
(* plugin that was subscribed when the packet came is asked, in the order  *)
(* of the priorities, and the verdict is given when all have answered, and *)
(* always then.  A plugin leaves the session with its answer or while it   *)
(* is asked, and the last one to leave makes the kernel bypass packetd.    *)
(***************************************************************************)
EXTENDS Integers

CONSTANTS
    Packets,        \* packets of the session
    Owners,         \* plugins that may subscribe to it
    PriorityOf      \* [Owners -> priority of the subscription]

VARIABLES
    subscriptions,  \* the plugins that are subscribed
    bypass,         \* does the kernel bypass packetd for the session?
    phase,          \* [Packets -> idle, open or done: the verdict is given]
    waiting         \* [Packets -> the plugins that have not answered]

pvars == <<subscriptions, bypass, phase, waiting>>

Init ==
    /\ subscriptions = Owners
    /\ bypass \in BOOLEAN
    /\ phase = [p \in Packets |-> "idle"]
    /\ waiting = [p \in Packets |-> {}]

Leave(o) ==
    /\ subscriptions' = subscriptions \ {o}
    /\ bypass' = (bypass \/ subscriptions' = {})

\* A packet that nobody is interested in has its verdict, and is the last one.
Begin(p) ==
    /\ phase[p] = "idle"
    /\ phase' = [phase EXCEPT ![p] = IF subscriptions = {} THEN "done" ELSE "open"]
    /\ waiting' = [waiting EXCEPT ![p] = subscriptions]
    /\ bypass' = (bypass \/ subscriptions = {})
    /\ UNCHANGED subscriptions

\* Plugin o is asked: its answer is due, and no earlier one is missing.
Asked(p, o) ==
    /\ phase[p] = "open"
    /\ o \in waiting[p]
    /\ \A q \in waiting[p] : PriorityOf[o] <= PriorityOf[q]

Answer(p, o) ==
    /\ Asked(p, o)
    /\ waiting' = [waiting EXCEPT ![p] = waiting[p] \ {o}]
    /\ Leave(o) \/ UNCHANGED <<subscriptions, bypass>>
    /\ UNCHANGED phase

Release(p, o) ==
    /\ Asked(p, o)
    /\ Leave(o)
    /\ UNCHANGED <<phase, waiting>>

Finish(p) ==
    /\ phase[p] = "open"
    /\ waiting[p] = {}
    /\ phase' = [phase EXCEPT ![p] = "done"]
    /\ UNCHANGED <<subscriptions, bypass, waiting>>

Next ==
    \E p \in Packets :
        \/ Begin(p)
        \/ \E o \in Owners : Answer(p, o) \/ Release(p, o)
        \/ Finish(p)

Spec == Init /\ [][Next]_pvars

=============================================================================
