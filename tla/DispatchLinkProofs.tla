------------------------- MODULE DispatchLinkProofs -------------------------
(***************************************************************************)
(* The two safety properties of module Dispatch that depend on the order   *)
(* in which connections use a ctid: LinkedToOwnConnection and              *)
(* EvictionsJustified, for connections whose tuples differ.                *)
(*                                                                         *)
(* The argument is about the past.  Two connections are never alive on one *)
(* ctid, a dead one stays dead, and the event socket keeps the order of    *)
(* events: so whatever the conntrack thread or conntrackTable refers to is *)
(* dead as soon as an event of another connection with its ctid follows.   *)
(***************************************************************************)
EXTENDS DispatchProofs

Exclusive ==
    \A k, l \in Conns : k # l /\ CtidOf[k] = CtidOf[l] => ~(Live(k) /\ Live(l))

\* While a packet is queued its connection is the only one on the ctid.
FlightInv ==
    \A p \in Packets : packet[p].pc # "idle" =>
        /\ kernel[packet[p].conn] # "free"
        /\ \A k \in Conns : CtidOf[k] = CtidOf[packet[p].conn] /\ k # packet[p].conn => ~Live(k)
        /\ packet[p].pc = "evict" => session[packet[p].sess].conn # packet[p].conn

SessionInv == \A s \in 1..Len(session) : kernel[session[s].conn] # "free"

\* Event e comes after the confirmation of connection k, and after its end if
\* e is another connection's.
Follows(e, k) ==
    /\ CtidOf[k] = CtidOf[e.conn] /\ k # e.conn => kernel[k] = "dead"
    /\ e.type = "N" => k # e.conn

\* The connections that every unread event follows.
Past == {k \in Conns : /\ kernel[k] \in {"confirmed", "dead"}
                       /\ \A i \in 1..Len(events) : Follows(events[i], k)}

EventInv ==
    /\ \A i \in 1..Len(events) :
         /\ kernel[events[i].conn] \in {"confirmed", "dead"}
         /\ events[i].type = "D" => kernel[events[i].conn] = "dead"
    /\ \A i, j \in 1..Len(events) : i < j => Follows(events[j], events[i].conn)

ConntrackInv ==
    \A c \in Ctids : conntrackTable[c] # NoConntrack =>
        /\ conntrackTable[c].conn \in Past
        /\ conntrackTable[c].session # NoSession =>
             session[conntrackTable[c].session].conn = conntrackTable[c].conn

HandlerInv ==
    handler.pc # "idle" =>
        /\ handler.conn \in Past
        /\ handler.pc \in {"rmct", "rmdict", "rmsess"} /\ handler.stale # NoSession =>
             kernel[session[handler.stale].conn] = "dead"
        /\ handler.pc \in {"confirm", "insert"} /\ handler.sess # NoSession =>
             session[handler.sess].conn = handler.conn

ConfirmedInv ==
    \A s \in 1..Len(session) : session[s].conntrack \in {NoConn, session[s].conn}

Links == /\ Exclusive /\ FlightInv /\ SessionInv
         /\ EventInv /\ ConntrackInv /\ HandlerInv /\ ConfirmedInv

LEMMA LinksInit == Init => Links
  BY DEF Init, Links, Exclusive, FlightInv, SessionInv, EventInv, ConntrackInv, HandlerInv,
         ConfirmedInv, Live, IdlePacket, IdleHandler

-----------------------------------------------------------------------------
(***************************************************************************)
(* Connections age, and the past only grows.                               *)
(***************************************************************************)

Ages ==
    \A k \in Conns :
        /\ kernel[k] = "dead" => kernel'[k] = "dead"
        /\ kernel[k] = "confirmed" => kernel'[k] \in {"confirmed", "dead"}
        /\ kernel[k] # "free" => kernel'[k] # "free"
        /\ kernel'[k] \in {"new", "confirmed"} => Live(k) \/ IdFree(k)

LEMMA SessionConn ==
    ASSUME TypeOK
    PROVE  \A s \in 1..Len(session) : session[s].conn \in Conns
<1>1. \A s \in 1..Len(session) : session[s] \in Session
  BY DEF TypeOK
<1>2. \A s \in Session : s.conn \in Conns
  BY DEF Session
<1> QED
  BY <1>1, <1>2

LEMMA KernelUnchanged ==
    ASSUME Exclusive, UNCHANGED kernel
    PROVE  Ages /\ Exclusive'
  BY DEF Ages, Exclusive, Live

\* One connection moves on.
LEMMA KernelMoves ==
    ASSUME TypeOK, Exclusive, NEW k \in Conns, NEW st,
           kernel' = [kernel EXCEPT ![k] = st],
           \/ IdFree(k) /\ st \in {"new", "confirmed"}
           \/ kernel[k] = "new" /\ st \in {"confirmed", "dead"}
           \/ kernel[k] = "confirmed" /\ st \in {"confirmed", "dead"}
    PROVE  Ages /\ Exclusive'
<1>1. kernel \in [Conns -> KernelState]
  BY DEF TypeOK
<1>2. \A l \in Conns : l # k => kernel'[l] = kernel[l]
  BY <1>1
<1>3. kernel'[k] = st
  BY <1>1
<1>4. Ages
  BY Zenon, <1>1, <1>2, <1>3 DEF Ages, Live, IdFree, KernelState
<1>5. Exclusive'
  BY <1>1, <1>2, <1>3 DEF Exclusive, Live, IdFree, KernelState
<1> QED
  BY <1>4, <1>5

LEMMA EventConn ==
    ASSUME events \in Seq(Event)
    PROVE  \A i \in 1..Len(events) : events[i] \in Event /\ events[i].conn \in Conns
<1>1. \A i \in 1..Len(events) : events[i] \in Event
  OBVIOUS
<1>2. \A e \in Event : e.conn \in Conns
  BY DEF Event
<1> QED
  BY <1>1, <1>2

LEMMA PastSameEvents ==
    ASSUME Ages, EventInv, UNCHANGED events, events \in Seq(Event)
    PROVE  Past \subseteq Past' /\ EventInv'
<1>1. \A i \in 1..Len(events) : events[i] \in Event /\ events[i].conn \in Conns
  BY EventConn
<1>2. \A i \in 1..Len(events), k \in Conns : Follows(events[i], k) => Follows(events[i], k)'
  BY <1>1 DEF Ages, Follows
<1>3. Past \subseteq Past'
  BY <1>2 DEF Past, Ages
<1>4. EventInv'
  BY Zenon, <1>1, <1>2 DEF EventInv, Ages
<1> QED
  BY <1>3, <1>4

LEMMA PastEmit ==
    ASSUME Ages, EventInv, events \in Seq(Event),
           NEW k \in Conns, NEW type \in {"N", "U", "D"}, Emit(type, k),
           kernel'[k] \in {"confirmed", "dead"},
           type = "D" => kernel'[k] = "dead",
           type = "N" => kernel[k] \in {"free", "new"},
           \A l \in Conns : CtidOf[l] = CtidOf[k] /\ l # k => ~Live(l)
    PROVE  Past \subseteq Past' /\ EventInv'
<1> DEFINE e == [type |-> type, conn |-> k]
<1>1. e \in Event /\ e.type = type /\ e.conn = k
  BY DEF Event
<1>2. \A i \in 1..Len(events) : events[i] \in Event /\ events[i].conn \in Conns
  BY Zenon, EventConn
<1>3. CASE UNCHANGED events
  BY Zenon, <1>3, PastSameEvents
<1>4. CASE events' = Append(events, e)
  <2> HIDE DEF e
  <2>1. /\ Len(events) \in Nat /\ Len(events') = Len(events) + 1
        /\ \A i \in 1..Len(events) : events'[i] = events[i]
        /\ events'[Len(events')] = e
    BY <1>1, <1>4, AppendProperties
  <2>2. \A l \in Conns : kernel[l] \in {"confirmed", "dead"} =>
          /\ CtidOf[l] = CtidOf[k] /\ l # k => kernel'[l] = "dead"
          /\ type = "N" => l # k
    BY DEF Ages, Live
  <2>3. \A l \in Conns : kernel[l] \in {"confirmed", "dead"} =>
          /\ CtidOf[l] = CtidOf[events'[Len(events')].conn] /\ l # events'[Len(events')].conn
               => kernel'[l] = "dead"
          /\ events'[Len(events')].type = "N" => l # events'[Len(events')].conn
    BY Zenon, <1>1, <2>1, <2>2
  <2>4. \A i \in 1..Len(events), l \in Conns :
          Follows(events[i], l) =>
            /\ CtidOf[l] = CtidOf[events'[i].conn] /\ l # events'[i].conn => kernel'[l] = "dead"
            /\ events'[i].type = "N" => l # events'[i].conn
    BY Zenon, <2>1 DEF Follows, Ages
  <2>5. \A i \in 1..Len(events') : i \in 1..Len(events) \/ i = Len(events')
    BY <2>1
  <2>6. Past \subseteq Past'
    BY <2>3, <2>4, <2>5 DEF Past, Ages, Follows
  <2>7. \A i \in 1..Len(events') :
         /\ kernel'[events'[i].conn] \in {"confirmed", "dead"}
         /\ events'[i].type = "D" => kernel'[events'[i].conn] = "dead"
    BY Zenon, <1>1, <1>2, <2>1, <2>5 DEF EventInv, Ages
  <2>8. ASSUME NEW i \in 1..Len(events'), NEW j \in 1..Len(events'), i < j
        PROVE  /\ CtidOf[events'[i].conn] = CtidOf[events'[j].conn] /\ events'[i].conn # events'[j].conn
                    => kernel'[events'[i].conn] = "dead"
               /\ events'[j].type = "N" => events'[i].conn # events'[j].conn
    <3>1. i \in 1..Len(events) /\ events'[i] = events[i] /\ events[i].conn \in Conns
      BY <1>2, <2>1, <2>8
    <3>2. kernel[events[i].conn] \in {"confirmed", "dead"}
      BY Zenon, <3>1 DEF EventInv
    <3>3. CASE j \in 1..Len(events)
      BY Zenon, <2>4, <2>8, <3>1, <3>3 DEF EventInv
    <3>4. CASE j = Len(events')
      BY Zenon, <2>3, <3>1, <3>2, <3>4
    <3> QED
      BY Zenon, <2>5, <3>3, <3>4
  <2>9. EventInv'
    BY Zenon, <2>7, <2>8 DEF EventInv, Follows
  <2> QED
    BY Zenon, <2>6, <2>9
<1> QED
  BY Zenon, <1>3, <1>4 DEF Emit

\* The oldest event is read: its connection joins the past.
LEMMA PastRead ==
    ASSUME EventInv, events \in Seq(Event), events # <<>>, events' = Tail(events), UNCHANGED kernel
    PROVE  /\ Past \subseteq Past' /\ EventInv'
           /\ events[1].conn \in Past'
<1>1. \A i \in 1..Len(events) : events[i] \in Event /\ events[i].conn \in Conns
  BY EventConn
<1>2. /\ Len(events) \in Nat /\ Len(events) >= 1 /\ Len(events') = Len(events) - 1
      /\ \A i \in 1..Len(events') : events'[i] = events[i+1] /\ i + 1 \in 1..Len(events)
  BY HeadTailProperties
<1>3. Past \subseteq Past'
  BY <1>2 DEF Past, Follows
<1>4. EventInv'
  BY <1>2 DEF EventInv, Follows
<1>5. /\ kernel[events[1].conn] \in {"confirmed", "dead"} /\ events[1].conn \in Conns
      /\ \A i \in 1..Len(events') : Follows(events[i+1], events[1].conn)
  BY <1>1, <1>2 DEF EventInv
<1>6. events[1].conn \in Past'
  BY <1>2, <1>5 DEF Past, Follows
<1> QED
  BY Zenon, <1>3, <1>4, <1>6

-----------------------------------------------------------------------------
(***************************************************************************)
(* What keeps each part, as connections age and the past grows.            *)
(***************************************************************************)

LEMMA FlightFrame ==
    ASSUME Structure, FlightInv, Ages, SessionsKept,
           \A p \in Packets :
             \/ packet'[p] = packet[p]
             \/ packet'[p].pc = "idle"
             \/ /\ packet[p].pc # "idle" /\ packet'[p].pc # "evict"
                /\ packet'[p].conn = packet[p].conn
    PROVE  FlightInv'
<1>1. ASSUME NEW p \in Packets, packet[p].pc # "idle"
      PROVE  /\ kernel'[packet[p].conn] # "free"
             /\ \A k \in Conns : CtidOf[k] = CtidOf[packet[p].conn] /\ k # packet[p].conn => ~Live(k)'
  <2>1. packet[p].conn \in Conns
    BY Zenon, <1>1 DEF Structure, Refs, PacketRefs
  <2> QED
    BY Zenon, <1>1, <2>1 DEF FlightInv, Ages, IdFree, InFlight, Live
<1>2. ASSUME NEW p \in Packets, packet[p].pc = "evict"
      PROVE  session'[packet[p].sess].conn # packet[p].conn
  <2>1. packet[p].sess \in 1..Len(session)
    BY Zenon, <1>2 DEF Structure, Refs, PacketRefs, IsSession
  <2> QED
    BY Zenon, <1>2, <2>1 DEF FlightInv, SessionsKept
<1> QED
  BY Zenon, <1>1, <1>2 DEF FlightInv

LEMMA SessionFrame ==
    ASSUME Structure, SessionInv, Ages, SessionsKept, Len(session') = Len(session)
    PROVE  SessionInv'
<1>1. \A s \in 1..Len(session) : session[s].conn \in Conns
  BY Zenon, SessionConn DEF Structure
<1> QED
  BY <1>1 DEF SessionInv, Ages, SessionsKept

LEMMA ConntrackInvFrame ==
    ASSUME Structure, ConntrackInv, Past \subseteq Past', SessionsKept,
           \A c \in Ctids : conntrackTable'[c] \in {NoConntrack, conntrackTable[c]}
    PROVE  ConntrackInv'
<1>1. ASSUME NEW c \in Ctids, conntrackTable'[c] # NoConntrack
      PROVE  /\ conntrackTable'[c].conn \in Past'
             /\ conntrackTable'[c].session # NoSession =>
                  session'[conntrackTable'[c].session].conn = conntrackTable'[c].conn
  <2>1. conntrackTable'[c] = conntrackTable[c]
    BY Zenon, <1>1
  <2>2. conntrackTable[c].session # NoSession => conntrackTable[c].session \in 1..Len(session)
    BY Zenon, <1>1, <2>1 DEF Structure, Refs, ConntrackRefs, IsSession
  <2> QED
    BY <1>1, <2>1, <2>2 DEF ConntrackInv, SessionsKept
<1> QED
  BY Zenon, <1>1 DEF ConntrackInv

LEMMA HandlerInvFrame ==
    ASSUME Structure, HandlerInv, Ages, Past \subseteq Past', SessionsKept, UNCHANGED handler
    PROVE  HandlerInv'
<1> SUFFICES ASSUME handler.pc # "idle" PROVE HandlerInv'
  BY DEF HandlerInv
<1>1. /\ handler.stale # NoSession => handler.stale \in 1..Len(session)
      /\ handler.sess # NoSession => handler.sess \in 1..Len(session)
  BY DEF Structure, Refs, HandlerRefs, IsSession
<1>2. \A s \in 1..Len(session) : session[s].conn \in Conns
  BY SessionConn DEF Structure
<1> QED
  BY Zenon, <1>1, <1>2 DEF HandlerInv, SessionsKept, Ages

LEMMA ConfirmedFrame ==
    ASSUME ConfirmedInv, UNCHANGED session
    PROVE  ConfirmedInv'
  BY DEF ConfirmedInv

-----------------------------------------------------------------------------
(***************************************************************************)
(* One lemma per actor.                                                    *)
(***************************************************************************)

LEMMA LinksKernel ==
    Structure /\ Links /\ KernelStep => Links'
<1> SUFFICES ASSUME Structure, Links, KernelStep PROVE Links'
  BY Zenon
<1> USE DEF sessionVars, conntrackVars
<1>1. UNCHANGED <<session, sessionTable, conntrackTable, dict, packet, handler, cleaner>>
  BY DEF KernelStep, StartUnqueued, Confirm, Abandon, Dump, Destroy, Tick
<1>2. SessionsKept
  BY Zenon, <1>1, SessionsUnchanged DEF Structure
<1>3. TypeOK /\ events \in Seq(Event) /\ Exclusive /\ EventInv
  BY DEF Structure, TypeOK, Links
<1>4. Ages /\ Exclusive' /\ Past \subseteq Past' /\ EventInv'
  <2>1. CASE Tick
    BY Zenon, <1>3, <2>1, KernelUnchanged, PastSameEvents DEF Tick
  <2>2. ASSUME NEW k \in Conns, StartUnqueued(k)
        PROVE  Ages /\ Exclusive' /\ Past \subseteq Past' /\ EventInv'
    <3>1. Ages /\ Exclusive'
      BY Zenon, <1>3, <2>2, KernelMoves DEF StartUnqueued
    <3>2. kernel'[k] = "confirmed" /\ kernel[k] = "free" /\ Emit("N", k)
      BY Zenon, <1>3, <2>2 DEF StartUnqueued, IdFree, TypeOK
    <3>3. \A l \in Conns : CtidOf[l] = CtidOf[k] /\ l # k => ~Live(l)
      BY Zenon, <2>2 DEF StartUnqueued, IdFree
    <3> QED
      BY Zenon, <1>3, <3>1, <3>2, <3>3, PastEmit
  <2>3. ASSUME NEW k \in Conns, Confirm(k)
        PROVE  Ages /\ Exclusive' /\ Past \subseteq Past' /\ EventInv'
    <3>1. Ages /\ Exclusive'
      BY Zenon, <1>3, <2>3, KernelMoves DEF Confirm
    <3>2. kernel'[k] = "confirmed" /\ kernel[k] = "new" /\ Emit("N", k)
      BY Zenon, <1>3, <2>3 DEF Confirm, TypeOK
    <3>3. \A l \in Conns : CtidOf[l] = CtidOf[k] /\ l # k => ~Live(l)
      BY Zenon, <1>3, <3>2 DEF Exclusive, Live
    <3> QED
      BY Zenon, <1>3, <3>1, <3>2, <3>3, PastEmit
  <2>4. ASSUME NEW k \in Conns, Abandon(k)
        PROVE  Ages /\ Exclusive' /\ Past \subseteq Past' /\ EventInv'
    <3>1. Ages /\ Exclusive' /\ UNCHANGED events
      BY Zenon, <1>3, <2>4, KernelMoves DEF Abandon
    <3> QED
      BY Zenon, <1>3, <3>1, PastSameEvents
  <2>5. ASSUME NEW k \in Conns, Dump(k)
        PROVE  Ages /\ Exclusive' /\ Past \subseteq Past' /\ EventInv'
    <3>1. Ages /\ Exclusive'
      BY Zenon, <1>3, <2>5, KernelUnchanged DEF Dump
    <3>2. kernel'[k] = "confirmed" /\ kernel[k] = "confirmed" /\ Emit("U", k)
      BY Zenon, <1>3, <2>5 DEF Dump
    <3>3. \A l \in Conns : CtidOf[l] = CtidOf[k] /\ l # k => ~Live(l)
      BY Zenon, <1>3, <3>2 DEF Exclusive, Live
    <3> QED
      BY Zenon, <1>3, <3>1, <3>2, <3>3, PastEmit
  <2>6. ASSUME NEW k \in Conns, Destroy(k)
        PROVE  Ages /\ Exclusive' /\ Past \subseteq Past' /\ EventInv'
    <3>1. Ages /\ Exclusive'
      BY Zenon, <1>3, <2>6, KernelMoves DEF Destroy
    <3>2. kernel'[k] = "dead" /\ kernel[k] = "confirmed" /\ Emit("D", k)
      BY Zenon, <1>3, <2>6 DEF Destroy, TypeOK
    <3>3. \A l \in Conns : CtidOf[l] = CtidOf[k] /\ l # k => ~Live(l)
      BY Zenon, <1>3, <3>2 DEF Exclusive, Live
    <3> QED
      BY Zenon, <1>3, <3>1, <3>2, <3>3, PastEmit
  <2> QED
    BY Zenon, <2>1, <2>2, <2>3, <2>4, <2>5, <2>6 DEF KernelStep
<1>5. FlightInv' /\ SessionInv' /\ ConntrackInv' /\ HandlerInv' /\ ConfirmedInv'
  BY Zenon, <1>1, <1>2, <1>4, FlightFrame, SessionFrame, ConntrackInvFrame, HandlerInvFrame, ConfirmedFrame
     DEF Links
<1> QED
  BY <1>4, <1>5 DEF Links

LEMMA LinksArrive ==
    Structure /\ Links /\ PacketArrives => Links'
<1> SUFFICES ASSUME Structure, Links, NEW p \in Packets, NEW k \in Conns, NEW isNew \in BOOLEAN,
                    (FirstPacket(p, k) /\ isNew) \/ LaterPacket(p, k, isNew)
             PROVE  Links'
  BY Zenon DEF PacketArrives
<1> USE DEF sessionVars, conntrackVars
<1> DEFINE s == sessionTable[CtidOf[k]]
<1>1. /\ FindSession(p, k, isNew)
      /\ UNCHANGED <<events, session, sessionTable, conntrackTable, dict, handler, cleaner>>
  BY Zenon DEF FirstPacket, LaterPacket
<1>2. SessionsKept
  BY Zenon, <1>1, SessionsUnchanged DEF Structure
<1>3. TypeOK /\ events \in Seq(Event) /\ Exclusive /\ EventInv
  BY DEF Structure, TypeOK, Links
<1>4. Ages /\ Exclusive'
  <2>1. CASE FirstPacket(p, k)
    BY Zenon, <1>3, <2>1, KernelMoves DEF FirstPacket
  <2>2. CASE LaterPacket(p, k, isNew)
    BY Zenon, <1>3, <2>2, KernelUnchanged DEF LaterPacket
  <2> QED
    BY Zenon, <2>1, <2>2
<1>5. Past \subseteq Past' /\ EventInv'
  BY Zenon, <1>1, <1>3, <1>4, PastSameEvents
<1>6. kernel'[k] # "free" /\ \A l \in Conns : CtidOf[l] = CtidOf[k] /\ l # k => ~Live(l)'
  <2>1. CASE FirstPacket(p, k)
    BY Zenon, <1>3, <2>1 DEF FirstPacket, IdFree, Live, TypeOK
  <2>2. CASE LaterPacket(p, k, isNew)
    BY Zenon, <1>3, <2>2 DEF LaterPacket, Exclusive, Live
  <2> QED
    BY Zenon, <2>1, <2>2
<1>7. FlightInv'
  <2>1. PICK next \in {"bypass", "create", "evict", "deliver"} :
          /\ packet' = [packet EXCEPT ![p] = [pc |-> next, conn |-> k, sess |-> s]]
          /\ next = "evict" => ~SameTuple(k, session[s].conn)
    BY Zenon, <1>1 DEF FindSession
  <2>2. packet'[p] = [pc |-> next, conn |-> k, sess |-> s] /\ \A q \in Packets : q # p => packet'[q] = packet[q]
    BY Zenon, <1>3, <2>1 DEF TypeOK
  <2>3. next = "evict" => session[s].conn # k
    BY Zenon, <2>1 DEF SameTuple
  <2> HIDE DEF s
  <2>4. packet'[p].pc # "idle" =>
        /\ kernel'[packet'[p].conn] # "free"
        /\ \A l \in Conns : CtidOf[l] = CtidOf[packet'[p].conn] /\ l # packet'[p].conn => ~Live(l)'
        /\ packet'[p].pc = "evict" => session'[packet'[p].sess].conn # packet'[p].conn
    BY <1>1, <1>6, <2>2, <2>3
  <2>5. ASSUME NEW q \in Packets, q # p, packet[q].pc # "idle"
        PROVE  /\ kernel'[packet[q].conn] # "free"
               /\ \A l \in Conns : CtidOf[l] = CtidOf[packet[q].conn] /\ l # packet[q].conn => ~Live(l)'
               /\ packet[q].pc = "evict" => session'[packet[q].sess].conn # packet[q].conn
    <3>1. packet[q].conn \in Conns
      BY Zenon, <2>5 DEF Structure, Refs, PacketRefs
    <3> QED
      BY Zenon, <1>1, <1>4, <2>5, <3>1 DEF Links, FlightInv, Ages, IdFree, InFlight, Live
  <2> QED
    BY Zenon, <2>2, <2>4, <2>5 DEF FlightInv
<1>8. SessionInv' /\ ConntrackInv' /\ HandlerInv' /\ ConfirmedInv'
  BY Zenon, <1>1, <1>2, <1>4, <1>5, SessionFrame, ConntrackInvFrame, HandlerInvFrame, ConfirmedFrame DEF Links
<1> QED
  BY Zenon, <1>4, <1>5, <1>7, <1>8 DEF Links

LEMMA LinksPacket ==
    ASSUME Structure, Links, NEW p \in Packets, PacketStep(p)
    PROVE  Links'
<1> USE DEF sessionVars, conntrackVars
<1>1. UNCHANGED <<kernel, events, handler, cleaner>>
  BY Zenon DEF PacketStep, BypassPacket, EvictConflicting, CreateSession, RemovePreviousConntrack, Deliver
<1>2. Ages /\ Exclusive' /\ Past \subseteq Past' /\ EventInv'
  BY Zenon, <1>1, KernelUnchanged, PastSameEvents DEF Links, Structure, TypeOK
<1>3. packet \in [Packets -> PacketState] /\ TypeOK
  BY DEF Structure, TypeOK
<1>4. CASE CreateSession(p)
  <2> DEFINE k == packet[p].conn
             new == [conn |-> k, conntrack |-> NoConn]
  <2>1. k \in Conns /\ kernel[k] # "free" /\ session \in Seq(Session) /\ packet[p].pc # "idle"
    BY Zenon, <1>3, <1>4 DEF CreateSession, Structure, TypeOK, Refs, PacketRefs, Links, FlightInv
  <2>2. new \in Session
    BY Zenon, <2>1 DEF Session
  <2>3. /\ session' = Append(session, new)
        /\ packet' = [packet EXCEPT ![p] = [pc |-> "rmct", conn |-> k, sess |-> Len(session) + 1]]
        /\ UNCHANGED conntrackTable
    BY Zenon, <1>4 DEF CreateSession, Goto
  <2>4. new.conn = k /\ new.conntrack = NoConn
    BY Zenon
  <2> HIDE DEF new
  <2>5. /\ Len(session) \in Nat /\ Len(session') = Len(session) + 1
        /\ \A i \in 1..Len(session) : session'[i] = session[i]
        /\ session'[Len(session')] = new
    BY <2>1, <2>2, <2>3, AppendProperties
  <2>6. SessionsKept
    BY <2>5 DEF SessionsKept
  <2>7. \A i \in 1..Len(session') : i \in 1..Len(session) \/ i = Len(session')
    BY <2>5
  <2>8. SessionInv' /\ ConfirmedInv'
    BY Zenon, <1>1, <2>1, <2>4, <2>5, <2>7 DEF Links, SessionInv, ConfirmedInv
  <2>9. FlightInv'
    BY Zenon, <1>2, <1>3, <2>1, <2>3, <2>6, FlightFrame DEF Links
  <2>10. ConntrackInv' /\ HandlerInv'
    BY Zenon, <1>1, <1>2, <2>3, <2>6, ConntrackInvFrame, HandlerInvFrame DEF Links
  <2> QED
    BY ZenonT(60), <1>2, <2>8, <2>9, <2>10 DEF Links
<1>5. CASE BypassPacket(p) \/ EvictConflicting(p) \/ RemovePreviousConntrack(p) \/ Deliver(p)
  <2>1. UNCHANGED session
    BY Zenon, <1>5 DEF BypassPacket, EvictConflicting, RemovePreviousConntrack, Deliver
  <2>2. SessionsKept
    BY Zenon, <2>1, SessionsUnchanged DEF Structure
  <2>3. \A q \in Packets : \/ packet'[q] = packet[q]
                           \/ packet'[q].pc = "idle"
                           \/ /\ packet[q].pc # "idle" /\ packet'[q].pc # "evict"
                              /\ packet'[q].conn = packet[q].conn
    BY <1>3, <1>5 DEF BypassPacket, EvictConflicting, RemovePreviousConntrack, Deliver, Goto, IdlePacket
  <2>4. \A c \in Ctids : conntrackTable'[c] \in {NoConntrack, conntrackTable[c]}
    <3>1. CASE RemovePreviousConntrack(p)
      BY ZenonT(60), <1>3, <3>1, DropConntrackType DEF RemovePreviousConntrack, RemoveConntrack
    <3>2. CASE BypassPacket(p) \/ EvictConflicting(p) \/ Deliver(p)
      BY <3>2 DEF BypassPacket, EvictConflicting, Deliver
    <3> QED
      BY Zenon, <1>5, <3>1, <3>2
  <2>5. FlightInv' /\ SessionInv' /\ ConntrackInv' /\ HandlerInv' /\ ConfirmedInv'
    BY ZenonT(60), <1>1, <1>2, <2>1, <2>2, <2>3, <2>4, FlightFrame, SessionFrame, ConntrackInvFrame, HandlerInvFrame,
       ConfirmedFrame DEF Links
  <2> QED
    BY Zenon, <1>2, <2>5 DEF Links
<1> QED
  BY <1>4, <1>5 DEF PacketStep

\* Steps of the conntrack thread and of the cleaner that only drop entries.
LEMMA LinksDrop ==
    ASSUME Structure, Links, UNCHANGED <<kernel, events, session, packet>>, HandlerInv',
           \A c \in Ctids : conntrackTable'[c] \in {NoConntrack, conntrackTable[c]}
    PROVE  Links'
<1>1. SessionsKept
  BY Zenon, SessionsUnchanged DEF Structure
<1>2. Ages /\ Exclusive' /\ Past \subseteq Past' /\ EventInv'
  BY Zenon, KernelUnchanged, PastSameEvents DEF Links, Structure, TypeOK
<1>3. FlightInv' /\ SessionInv' /\ ConntrackInv' /\ ConfirmedInv'
  BY Zenon, <1>1, <1>2, FlightFrame, SessionFrame, ConntrackInvFrame, ConfirmedFrame DEF Links
<1> QED
  BY Zenon, <1>2, <1>3 DEF Links

\* The session of the entry found is dead, unless the event is an UPDATE of
\* that same connection.
LEMMA LinksReadEvent ==
    ASSUME Structure, Links, ReadEvent
    PROVE  Links'
<1> USE DEF sessionVars, conntrackVars
<1> DEFINE e == events[1]
           entry == conntrackTable[CtidOf[e.conn]]
<1>1. /\ events \in Seq(Event) /\ events # <<>> /\ events' = Tail(events) /\ Head(events) = e
      /\ UNCHANGED <<kernel, session, sessionTable, conntrackTable, dict, packet, cleaner>>
  BY DEF ReadEvent, Structure, TypeOK
<1>2. 1 \in 1..Len(events) /\ e \in Event
  BY <1>1, HeadTailProperties
<1>3. e.conn \in Conns /\ CtidOf[e.conn] \in Ctids /\ e.type \in {"N", "U", "D"}
  <2> HIDE DEF e
  <2> QED
    BY Zenon, <1>2, KernelAssumption DEF Event
<1>4. SessionsKept
  BY Zenon, <1>1, SessionsUnchanged DEF Structure
<1>5. Past \subseteq Past' /\ EventInv' /\ e.conn \in Past'
  BY Zenon, <1>1, PastRead DEF Links
<1>6. Ages /\ Exclusive'
  BY Zenon, <1>1, KernelUnchanged DEF Links
<1>7. FlightInv' /\ SessionInv' /\ ConntrackInv' /\ ConfirmedInv'
  BY Zenon, <1>1, <1>4, <1>5, <1>6, FlightFrame, SessionFrame, ConntrackInvFrame, ConfirmedFrame DEF Links
<1>8. PICK pc \in {"idle", "find", "insert", "update", "rmct"} :
        /\ Handle(pc, e, entry.session, NoSession)
        /\ pc = "rmct" => entry # NoConntrack /\ ~(e.type = "U" /\ SameTuple(e.conn, entry.conn))
  BY Zenon, <1>1, <1>3 DEF ReadEvent, WithoutEntry
<1>9. pc = "rmct" /\ entry.session # NoSession => kernel[session[entry.session].conn] = "dead"
  <2>1. SUFFICES ASSUME pc = "rmct", entry.session # NoSession
                 PROVE  kernel[session[entry.session].conn] = "dead"
    BY Zenon
  <2>2. /\ entry.conn \in Past /\ session[entry.session].conn = entry.conn
        /\ CtidOf[entry.conn] = CtidOf[e.conn] /\ entry.conn \in Conns
    BY ZenonT(60), <1>3, <1>8, <2>1 DEF Links, ConntrackInv, Structure, Refs, ConntrackRefs
  <2>3. Follows(e, entry.conn)
    BY Zenon, <1>2, <2>2 DEF Past
  <2>4. e.type = "D" => kernel[e.conn] = "dead"
    BY ZenonT(60), <1>2 DEF Links, EventInv
  <2>5. e.conn = entry.conn => e.type # "U"
    BY <1>8, <2>1 DEF SameTuple
  <2> HIDE DEF e, entry
  <2> QED
    BY Zenon, <1>3, <2>2, <2>3, <2>4, <2>5 DEF Follows
<1>10. HandlerInv'
  <2>1. CASE pc = "idle"
    BY Zenon, <1>8, <2>1 DEF Handle, IdleHandler, HandlerInv
  <2>2. CASE pc # "idle"
    <3>1. handler' = [pc |-> pc, type |-> e.type, conn |-> e.conn, stale |-> entry.session, sess |-> NoSession]
      BY Zenon, <1>8, <2>2 DEF Handle
    <3> HIDE DEF e, entry
    <3>2. /\ handler'.conn = e.conn /\ handler'.pc = pc /\ handler'.stale = entry.session
          /\ handler'.sess = NoSession
      BY Zenon, <3>1
    <3> QED
      BY ZenonT(60), <1>1, <1>5, <1>9, <3>2 DEF HandlerInv
  <2> QED
    BY Zenon, <2>1, <2>2
<1> QED
  BY ZenonT(60), <1>5, <1>6, <1>7, <1>10 DEF Links

LEMMA LinksRemoveStale ==
    ASSUME Structure, Links, RemoveStaleConntrack \/ RemoveStaleDict \/ RemoveStaleSession
    PROVE  Links'
<1> USE DEF sessionVars, conntrackVars
<1>1. UNCHANGED <<kernel, events, session, packet, cleaner>>
  BY Zenon DEF RemoveStaleConntrack, RemoveStaleDict, RemoveStaleSession
<1>2. /\ handler.conn \in Past
      /\ handler.stale # NoSession => kernel[session[handler.stale].conn] = "dead"
  BY Zenon DEF Links, HandlerInv, RemoveStaleConntrack, RemoveStaleDict, RemoveStaleSession
<1>3. PICK pc \in {"rmdict", "rmsess", "idle", "find", "insert"}, stale \in {NoSession, handler.stale} :
        Handle(pc, handler, stale, NoSession)
  BY Zenon DEF RemoveStaleConntrack, RemoveStaleDict, RemoveStaleSession, WithoutEntry
<1>4. Past' = Past
  BY Zenon, <1>1 DEF Past, Follows
<1>5. HandlerInv'
  <2>1. CASE pc = "idle"
    BY Zenon, <1>3, <2>1 DEF Handle, IdleHandler, HandlerInv
  <2>2. CASE pc # "idle"
    <3>1. /\ handler'.conn = handler.conn /\ handler'.pc = pc /\ handler'.stale = stale
          /\ handler'.sess = NoSession
      BY Zenon, <1>3, <2>2 DEF Handle
    <3> QED
      BY Zenon, <1>1, <1>2, <1>4, <3>1 DEF HandlerInv
  <2> QED
    BY Zenon, <2>1, <2>2
<1>6. \A c \in Ctids : conntrackTable'[c] \in {NoConntrack, conntrackTable[c]}
  <2>1. CASE RemoveStaleConntrack
    BY Zenon, <2>1, DropConntrackType DEF RemoveStaleConntrack, RemoveConntrack, Structure
  <2>2. CASE RemoveStaleDict \/ RemoveStaleSession
    BY <2>2 DEF RemoveStaleDict, RemoveStaleSession
  <2> QED
    BY Zenon, <2>1, <2>2
<1> QED
  BY Zenon, <1>1, <1>5, <1>6, LinksDrop

\* Same ctid and same tuple: the session found belongs to the event's connection.
LEMMA LinksNew ==
    ASSUME TuplesDistinct, Structure, Links, FindSessionForNew \/ FlushMismatch \/ EvictMismatch
    PROVE  Links'
<1> USE DEF sessionVars, conntrackVars
<1>1. UNCHANGED <<kernel, events, session, conntrackTable, packet, cleaner>>
  BY DEF FindSessionForNew, FlushMismatch, EvictMismatch
<1>2. handler.conn \in Past /\ handler.conn \in Conns /\ HandlerCtid \in Ctids
  <2>1. handler.conn \in Past
    BY Zenon DEF Links, HandlerInv, FindSessionForNew, FlushMismatch, EvictMismatch
  <2> QED
    BY ZenonT(60), <2>1, KernelAssumption DEF Past, HandlerCtid
<1>3. Past' = Past
  BY Zenon, <1>1 DEF Past, Follows
<1>4. PICK pc \in {"insert", "confirm", "flush", "evict"}, s \in Nat :
        /\ Handle(pc, handler, NoSession, s)
        /\ pc = "insert" => s = NoSession
        /\ pc = "confirm" => s # NoSession /\ s = sessionTable[HandlerCtid] /\ SameTuple(handler.conn, session[s].conn)
  <2>1. sessionTable[HandlerCtid] \in Nat /\ handler.sess \in Nat /\ NoSession \in Nat
    BY Zenon, <1>2 DEF Structure, TypeOK, HandlerState, NoSession
  <2> QED
    BY Zenon, <2>1 DEF FindSessionForNew, FlushMismatch, EvictMismatch
<1>5. pc = "confirm" => session[s].conn = handler.conn
  <2>1. SUFFICES ASSUME pc = "confirm" PROVE session[s].conn = handler.conn
    OBVIOUS
  <2>2. s \in 1..Len(session) /\ CtidOf[session[s].conn] = CtidOf[handler.conn]
    BY Zenon, <1>2, <1>4, <2>1 DEF Structure, Refs, TableRefs, IsSession, SessionCtid, HandlerCtid
  <2>3. session[s].conn \in Conns
    BY Zenon, <2>2, SessionConn DEF Structure
  <2> QED
    BY Zenon, <1>2, <1>4, <2>1, <2>2, <2>3 DEF TuplesDistinct, SameTuple
<1>6. /\ handler'.conn = handler.conn /\ handler'.pc = pc /\ handler'.sess = s
  BY Zenon, <1>4 DEF Handle
<1>7. HandlerInv'
  BY Zenon, <1>1, <1>2, <1>3, <1>4, <1>5, <1>6 DEF HandlerInv
<1> QED
  BY ZenonT(60), <1>1, <1>7, LinksDrop

LEMMA LinksConfirmSession ==
    ASSUME Structure, Links, ConfirmSession
    PROVE  Links'
<1> USE DEF sessionVars, conntrackVars
<1> DEFINE s == handler.sess
           new == [conn |-> session[s].conn, conntrack |-> handler.conn]
<1>1. /\ s \in 1..Len(session) /\ s # NoSession /\ session \in Seq(Session)
      /\ handler.conn \in Conns
  BY Zenon DEF ConfirmSession, Structure, TypeOK, Refs, HandlerRefs, IsSession
<1>2. handler.conn \in Past /\ session[s].conn = handler.conn
  BY Zenon, <1>1 DEF ConfirmSession, Links, HandlerInv
<1>3. new \in Session
  BY Zenon, <1>1, <1>2 DEF Session
<1>4. /\ session' = [session EXCEPT ![s] = new] /\ Handle("insert", handler, NoSession, s)
      /\ new.conn = session[s].conn /\ new.conntrack = handler.conn
      /\ UNCHANGED <<kernel, events, sessionTable, conntrackTable, dict, packet, cleaner>>
  BY Zenon DEF ConfirmSession
<1>5. /\ handler'.conn = handler.conn /\ handler'.pc = "insert" /\ handler'.sess = s
  BY Zenon, <1>4 DEF Handle
<1> HIDE DEF new, s
<1>6. /\ Len(session') = Len(session)
      /\ session'[s] = new
      /\ \A i \in 1..Len(session) : i # s => session'[i] = session[i]
  BY <1>1, <1>3, <1>4, ExceptSeq
<1>7. SessionsKept
  BY <1>1, <1>4, <1>6 DEF SessionsKept
<1>8. Ages /\ Exclusive' /\ Past \subseteq Past' /\ EventInv'
  BY Zenon, <1>4, KernelUnchanged, PastSameEvents DEF Links, Structure, TypeOK
<1>9. FlightInv' /\ SessionInv' /\ ConntrackInv'
  BY Zenon, <1>4, <1>6, <1>7, <1>8, FlightFrame, SessionFrame, ConntrackInvFrame DEF Links
<1>10. ConfirmedInv'
  BY <1>1, <1>2, <1>4, <1>6 DEF Links, ConfirmedInv
<1>11. HandlerInv'
  BY Zenon, <1>1, <1>2, <1>4, <1>5, <1>6, <1>8 DEF HandlerInv
<1> QED
  BY Zenon, <1>8, <1>9, <1>10, <1>11 DEF Links

LEMMA LinksInsertNewConntrack ==
    ASSUME Structure, Links, InsertNewConntrack
    PROVE  Links'
<1> USE DEF sessionVars, conntrackVars
<1> DEFINE new == [conn |-> handler.conn, session |-> handler.sess]
<1>1. /\ handler.conn \in Past
      /\ handler.sess # NoSession => session[handler.sess].conn = handler.conn
  BY Zenon DEF InsertNewConntrack, Links, HandlerInv
<1>2. /\ conntrackTable' = [conntrackTable EXCEPT ![HandlerCtid] = new] /\ handler' = IdleHandler
      /\ new.conn = handler.conn /\ new.session = handler.sess
      /\ UNCHANGED <<kernel, events, session, sessionTable, dict, packet, cleaner>>
  BY Zenon DEF InsertNewConntrack, InsertConntrack
<1> HIDE DEF new
<1>3. SessionsKept
  BY Zenon, <1>2, SessionsUnchanged DEF Structure
<1>4. Ages /\ Exclusive' /\ Past \subseteq Past' /\ EventInv'
  BY Zenon, <1>2, KernelUnchanged, PastSameEvents DEF Links, Structure, TypeOK
<1>5. FlightInv' /\ SessionInv' /\ ConfirmedInv'
  BY Zenon, <1>2, <1>3, <1>4, FlightFrame, SessionFrame, ConfirmedFrame DEF Links
<1>6. HandlerInv'
  BY Zenon, <1>2 DEF HandlerInv, IdleHandler
<1>7. \A c \in Ctids : conntrackTable'[c] = new \/ conntrackTable'[c] = conntrackTable[c]
  BY Zenon, <1>2 DEF Structure, TypeOK
<1>8. ConntrackInv'
  BY Zenon, <1>1, <1>2, <1>4, <1>7 DEF Links, ConntrackInv
<1> QED
  BY Zenon, <1>4, <1>5, <1>6, <1>8 DEF Links

LEMMA LinksUpdateConntrack ==
    ASSUME Structure, Links, UpdateConntrack
    PROVE  Links'
<1>1. /\ handler' = IdleHandler
      /\ UNCHANGED <<kernel, events, session, sessionTable, conntrackTable, dict, packet, cleaner>>
  BY Zenon DEF UpdateConntrack
<1>2. HandlerInv'
  BY Zenon, <1>1 DEF HandlerInv, IdleHandler
<1> QED
  BY Zenon, <1>1, <1>2, LinksDrop

LEMMA LinksCleaner ==
    Structure /\ Links /\ CleanerStep => Links'
<1> SUFFICES ASSUME Structure, Links, CleanerStep PROVE Links'
  OBVIOUS
<1> USE DEF sessionVars, conntrackVars
<1>1. UNCHANGED <<kernel, events, session, packet, handler>>
  BY Zenon DEF CleanerStep, CleanSessionTable, StartCleanConntrackTable, CleanConntrackEntry, CleanFlushDict,
         CleanRemove
<1>2. HandlerInv'
  BY <1>1 DEF Links, HandlerInv, Past, Follows
<1>3. \A c \in Ctids : conntrackTable'[c] \in {NoConntrack, conntrackTable[c]}
  <2>1. CASE CleanRemove
    BY <2>1, DropConntrackType DEF CleanRemove, Structure
  <2>2. CASE ~CleanRemove
    BY Zenon, <2>2 DEF CleanerStep, CleanSessionTable, StartCleanConntrackTable, CleanConntrackEntry,
                CleanFlushDict
  <2> QED
    BY ZenonT(60), <2>1, <2>2
<1> QED
  BY Zenon, <1>1, <1>2, <1>3, LinksDrop

LEMMA LinksNext ==
    ASSUME TuplesDistinct
    PROVE  Structure /\ Links /\ [Next]_vars => Links'
<1> SUFFICES ASSUME Structure, Links, [Next]_vars PROVE Links'
  OBVIOUS
<1>1. CASE HandlerStep
  BY Zenon, <1>1, LinksReadEvent, LinksRemoveStale, LinksNew, LinksConfirmSession, LinksInsertNewConntrack,
     LinksUpdateConntrack DEF HandlerStep
<1>2. CASE \E p \in Packets : PacketStep(p)
  BY Zenon, <1>2, LinksPacket
<1>3. CASE UNCHANGED vars
  <2>1. UNCHANGED <<kernel, events, session, conntrackTable, packet, handler>>
    BY ZenonT(60), <1>3 DEF vars, sessionVars, conntrackVars
  <2>2. HandlerInv'
    BY <2>1 DEF Links, HandlerInv, Past, Follows
  <2> QED
    BY Zenon, <2>1, <2>2, LinksDrop
<1> QED
  BY Zenon, <1>1, <1>2, <1>3, LinksKernel, LinksArrive, LinksCleaner DEF Next

LEMMA LinksInvariant == TuplesDistinct => (Spec => [](Structure /\ Links))
<1> SUFFICES ASSUME TuplesDistinct PROVE Spec => [](Structure /\ Links)
  OBVIOUS
<1>1. Init => Structure /\ Links
  BY StructureInit, LinksInit
<1>2. (Structure /\ Links) /\ [Next]_vars => (Structure /\ Links)'
  BY StructureNext, LinksNext
<1> QED
  BY <1>1, <1>2, PTL DEF Spec

-----------------------------------------------------------------------------
\* When no two connections on a ctid have the same tuple, NEW events confirm
\* only sessions of their own connection and conntrack entries point only to
\* such sessions: conntrackCallback's tuple comparison is all that is needed.
THEOREM Linked == TuplesDistinct => (Spec => []LinkedToOwnConnection)
<1> SUFFICES ASSUME TuplesDistinct PROVE Spec => []LinkedToOwnConnection
  BY Zenon
<1>1. Structure /\ Links => LinkedToOwnConnection
  <2> SUFFICES ASSUME Structure, Links PROVE LinkedToOwnConnection
    BY Zenon
  <2>1. \A s \in 1..Len(session) : Confirmed(s) => session[s].conntrack = session[s].conn
    BY Zenon DEF Links, ConfirmedInv, Confirmed
  <2>2. ASSUME NEW c \in Ctids, conntrackTable[c].session # NoSession
        PROVE  session[conntrackTable[c].session].conn = conntrackTable[c].conn
    <3>1. conntrackTable[c] # NoConntrack
      BY <2>2 DEF NoConntrack
    <3> QED
      BY Zenon, <2>2, <3>1 DEF Links, ConntrackInv
  <2> QED
    BY <2>1, <2>2 DEF LinkedToOwnConnection
<1> QED
  BY <1>1, LinksInvariant, PTL

LEMMA RemovedIsOwned ==
    ASSUME TypeOK, NEW c \in Ctids, NEW d, NEW s, RemoveFromSessionTable(d, s),
           sessionTable'[c] # sessionTable[c]
    PROVE  d = c /\ sessionTable[c] = s /\ s # NoSession
  BY DEF TypeOK, RemoveFromSessionTable, Owns

\* A step that takes a session out of sessionTable has one of the reasons that
\* JustifiedEviction lists; late events and late packets are none.
THEOREM Justified == TuplesDistinct => (Spec => EvictionsJustified)
<1> SUFFICES ASSUME TuplesDistinct PROVE Spec => EvictionsJustified
  OBVIOUS
<1> DEFINE Step == \A c \in Ctids :
                     sessionTable[c] # NoSession /\ sessionTable'[c] # sessionTable[c]
                       => JustifiedEviction(c)
<1> USE DEF sessionVars, conntrackVars
<1>1. Structure /\ Links /\ [Next]_vars => [Step]_vars
  <2> SUFFICES ASSUME Structure, Links, Next, NEW c \in Ctids, sessionTable[c] # NoSession,
                      sessionTable'[c] # sessionTable[c]
               PROVE  JustifiedEviction(c)
    OBVIOUS
  <2> DEFINE s == sessionTable[c]
  <2>1. s \in 1..Len(session) /\ CtidOf[session[s].conn] = c
    BY Zenon DEF Structure, Refs, TableRefs, IsSession, SessionCtid
  <2>2. session[s].conn \in Conns /\ kernel[session[s].conn] # "free" /\ TypeOK
        /\ kernel[session[s].conn] \in KernelState
    BY Zenon, <2>1, SessionConn DEF Links, SessionInv, Structure, TypeOK
  <2>3. ASSUME NEW p \in Packets, PacketStep(p)
        PROVE  JustifiedEviction(c)
    <3> DEFINE k == packet[p].conn
    <3>1. EvictConflicting(p) \/ CreateSession(p)
      BY Zenon, <2>3 DEF PacketStep, BypassPacket, RemovePreviousConntrack, Deliver
    <3>r. ASSUME EvictConflicting(p)
          PROVE  SessionCtid(packet[p].sess) = c /\ packet[p].sess = s
      <4> DEFINE x == packet[p].sess
                 d == SessionCtid(x)
      <4>1. IF sessionTable[d] = x
            THEN sessionTable' = [sessionTable EXCEPT ![d] = NoSession]
            ELSE sessionTable' = sessionTable
        BY Zenon, <3>r DEF EvictConflicting, RemoveFromSessionTable, Owns
      <4> HIDE DEF x, d
      <4>2. sessionTable[d] = x /\ d = c
        BY Zenon, <4>1, <2>2 DEF TypeOK
      <4> QED
        BY Zenon, <4>2 DEF x, d
    <3>2. CtidOf[k] = c /\ k \in Conns /\ packet[p].pc # "idle"
      <4>1. CASE EvictConflicting(p)
        <5>1. SessionCtid(packet[p].sess) = c
          BY Zenon, <3>r, <4>1
        <5> QED
          BY Zenon, <4>1, <5>1 DEF EvictConflicting, Structure, Refs, PacketRefs
      <4>2. CASE CreateSession(p)
        BY Zenon, <2>2, <4>2 DEF CreateSession, InsertSessionTable, TypeOK, Structure, Refs, PacketRefs
      <4> QED
        BY Zenon, <3>1, <4>1, <4>2
    <3>3. session[s].conn # k => Dead(s)
      BY Zenon, <2>1, <2>2, <3>2 DEF Links, FlightInv, Live, Dead, KernelState
    <3>4. CASE EvictConflicting(p)
      <4>1. packet[p].sess = s
        BY Zenon, <3>r, <3>4
      <4>2. session[s].conn # k
        BY Zenon, <3>4, <4>1 DEF EvictConflicting, Links, FlightInv
      <4> QED
        BY ZenonT(60), <3>3, <4>2 DEF JustifiedEviction
    <3>5. CASE CreateSession(p)
      <4> DEFINE t == Len(session) + 1
                 new == [conn |-> k, conntrack |-> NoConn]
      <4>1. session \in Seq(Session) /\ new \in Session /\ sessionTable \in [Ctids -> Nat]
        BY Zenon, <2>2, <3>2 DEF TypeOK, Session
      <4>2. session' = Append(session, new) /\ sessionTable' = [sessionTable EXCEPT ![CtidOf[k]] = t]
        BY Zenon, <3>5 DEF CreateSession, InsertSessionTable
      <4>3. new.conn = k
        BY ZenonT(60)
      <4> HIDE DEF new
      <4>4. session'[t] = new /\ t # NoSession /\ sessionTable'[c] = t
        BY <3>2, <4>1, <4>2, AppendProperties DEF NoSession
      <4> QED
        BY Zenon, <3>3, <4>3, <4>4 DEF JustifiedEviction
    <3> QED
      BY ZenonT(60), <3>1, <3>4, <3>5
  <2>4. CASE HandlerStep
    <3>1. RemoveStaleSession \/ EvictMismatch
      BY Zenon, <2>4 DEF HandlerStep, ReadEvent, RemoveStaleConntrack, RemoveStaleDict, FindSessionForNew,
         FlushMismatch, ConfirmSession, InsertNewConntrack, UpdateConntrack
    <3>2. CASE RemoveStaleSession
      <4>1. handler.stale = s /\ handler.stale # NoSession
        BY ZenonT(60), <2>2, <3>2, RemovedIsOwned DEF RemoveStaleSession
      <4>2. Dead(s)
        BY Zenon, <3>2, <4>1 DEF RemoveStaleSession, Links, HandlerInv, Dead
      <4> QED
        BY Zenon, <4>2 DEF JustifiedEviction
    <3>3. CASE EvictMismatch
      <4>1. handler.pc = "evict" /\ handler.sess = s
        BY ZenonT(60), <2>2, <3>3, RemovedIsOwned DEF EvictMismatch
      <4> QED
        BY SMTT(30), <4>1 DEF JustifiedEviction
    <3> QED
      BY ZenonT(60), <3>1, <3>2, <3>3
  <2>5. CASE CleanerStep
    <3>1. CleanSessionTable \/ CleanRemove
      BY Zenon, <2>5 DEF CleanerStep, StartCleanConntrackTable, CleanConntrackEntry, CleanFlushDict
    <3>2. CASE CleanSessionTable
      <4>1. cleaner.pc = "sleep" /\ Expired(c)
        BY Zenon, <3>2 DEF CleanSessionTable
      <4> QED
        BY <4>1 DEF JustifiedEviction
    <3>3. CASE CleanRemove
      <4>1. cleaner.pc = "rmsess" /\ cleaner.sess = s
        <5> DEFINE x == cleaner.sess
                   d == CtidOf[cleaner.conn]
        <5>1. IF sessionTable[d] = x
              THEN sessionTable' = [sessionTable EXCEPT ![d] = NoSession]
              ELSE sessionTable' = sessionTable
          BY Zenon, <3>3 DEF CleanRemove, RemoveFromSessionTable, Owns
        <5> HIDE DEF x, d
        <5>2. sessionTable[d] = x /\ d = c
          BY Zenon, <5>1, <2>2 DEF TypeOK
        <5> QED
          BY Zenon, <3>3, <5>2 DEF x, d, CleanRemove
      <4> QED
        BY <4>1 DEF JustifiedEviction
    <3> QED
      BY <3>1, <3>2, <3>3
  <2>6. CASE KernelStep
    BY Zenon, <2>6 DEF KernelStep, StartUnqueued, Confirm, Abandon, Dump, Destroy, Tick
  <2>7. CASE PacketArrives
    BY Zenon, <2>7 DEF PacketArrives, FirstPacket, LaterPacket
  <2> QED
    BY Zenon, <2>3, <2>4, <2>5, <2>6, <2>7 DEF Next
<1>2. Spec => [][Step]_vars
  <2> HIDE DEF Step
  <2> QED
    BY <1>1, LinksInvariant, PTL DEF Spec
<1> QED
  BY <1>2 DEF EvictionsJustified

=============================================================================
