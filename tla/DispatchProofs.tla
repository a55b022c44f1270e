--------------------------- MODULE DispatchProofs ---------------------------
(***************************************************************************)
(* Proofs about module Dispatch, for any number of ctids, connections and  *)
(* packets and any bounds.                                                 *)
(***************************************************************************)
EXTENDS Dispatch, SequenceTheorems, TLAPS

(***************************************************************************)
(* The references between the tables and the goroutines are well formed.   *)
(* Nothing here depends on the order in which events arrive.               *)
(***************************************************************************)

IsSession(s) == s \in 1..Len(session)

TableRefs ==
    \A c \in Ctids : sessionTable[c] # NoSession =>
        IsSession(sessionTable[c]) /\ SessionCtid(sessionTable[c]) = c

PacketRefs ==
    \A p \in Packets :
        /\ packet[p].pc # "idle" => packet[p].conn \in Conns
        /\ packet[p].pc \in {"evict", "rmct", "deliver"} =>
             IsSession(packet[p].sess) /\ SessionCtid(packet[p].sess) = CtidOf[packet[p].conn]

ConntrackRefs ==
    \A c \in Ctids : conntrackTable[c] # NoConntrack =>
        /\ conntrackTable[c].conn \in Conns
        /\ CtidOf[conntrackTable[c].conn] = c
        /\ conntrackTable[c].session # NoSession => IsSession(conntrackTable[c].session)

HandlerRefs ==
    handler.pc # "idle" =>
        /\ handler.conn \in Conns
        /\ handler.stale # NoSession => IsSession(handler.stale)
        /\ handler.sess # NoSession =>
             IsSession(handler.sess) /\ SessionCtid(handler.sess) = HandlerCtid
        /\ handler.pc \in {"confirm", "flush", "evict"} => handler.sess # NoSession

Refs == TableRefs /\ PacketRefs /\ ConntrackRefs /\ HandlerRefs

Structure == TypeOK /\ Refs /\ DictShowsCurrentSession

USE KernelAssumption, BoundAssumption DEF NoSession, Age, PacketState, HandlerState, CleanerState

-----------------------------------------------------------------------------
(***************************************************************************)
(* What keeps each part well formed.  Sessions are only ever added, and    *)
(* their connection does not change.                                       *)
(***************************************************************************)

SessionsKept ==
    /\ Len(session) \in Nat /\ Len(session') \in Nat
    /\ Len(session) <= Len(session')
    /\ \A s \in 1..Len(session) : session'[s].conn = session[s].conn

LEMMA SessionsUnchanged ==
    ASSUME TypeOK, UNCHANGED session
    PROVE  SessionsKept
  BY DEF TypeOK, SessionsKept

LEMMA SessionKept ==
    ASSUME SessionsKept, NEW s, IsSession(s)
    PROVE  IsSession(s)' /\ SessionCtid(s)' = SessionCtid(s)
  BY DEF SessionsKept, IsSession, SessionCtid

\* Table entries may go.
LEMMA TableFrame ==
    ASSUME TableRefs, SessionsKept,
           \A c \in Ctids : sessionTable'[c] \in {NoSession, sessionTable[c]}
    PROVE  TableRefs'
  BY SessionKept DEF TableRefs

LEMMA DictFrame ==
    ASSUME DictShowsCurrentSession,
           \A c \in Ctids : /\ sessionTable'[c] \in {NoSession, sessionTable[c]}
                            /\ dict'[c].session_id \in {NoSession, dict[c].session_id}
    PROVE  DictShowsCurrentSession'
  BY DEF DictShowsCurrentSession

\* A goroutine may end, wait without a session, or go on with the one it has.
LEMMA PacketFrame ==
    ASSUME PacketRefs, SessionsKept,
           \A p \in Packets :
             \/ packet'[p] = packet[p]
             \/ packet'[p].pc = "idle"
             \/ /\ packet[p].pc # "idle"
                /\ packet'[p].conn = packet[p].conn
                /\ \/ packet'[p].pc \in {"bypass", "create"}
                   \/ /\ packet[p].pc \in {"evict", "rmct", "deliver"}
                      /\ packet'[p].sess = packet[p].sess
    PROVE  PacketRefs'
  BY SessionKept DEF PacketRefs

\* Conntrack entries may go.
LEMMA ConntrackFrame ==
    ASSUME ConntrackRefs, SessionsKept,
           \A c \in Ctids : conntrackTable'[c] \in {NoConntrack, conntrackTable[c]}
    PROVE  ConntrackRefs'
  BY SessionKept DEF ConntrackRefs, NoConntrack

LEMMA HandlerFrame ==
    ASSUME HandlerRefs, SessionsKept, UNCHANGED handler
    PROVE  HandlerRefs'
  BY SessionKept DEF HandlerRefs, HandlerCtid

-----------------------------------------------------------------------------
LEMMA ResetAge ==
    ASSUME NEW f \in [Ctids -> Age], NEW c
    PROVE  [f EXCEPT ![c] = 0] \in [Ctids -> Age]
<1>1. 0 \in Age
  OBVIOUS
<1> QED
  BY Zenon, <1>1

\* removeFromSessionTable, flushDict, removeConntrack.
LEMMA RemoveFromSessionTableType ==
    ASSUME TypeOK, NEW c, NEW s, RemoveFromSessionTable(c, s)
    PROVE  /\ sessionTable' \in [Ctids -> Nat] /\ sessionIdle' \in [Ctids -> Age]
           /\ \A d \in Ctids : sessionTable'[d] \in {NoSession, sessionTable[d]}
<1>1. sessionTable \in [Ctids -> Nat] /\ sessionIdle \in [Ctids -> Age]
  BY Zenon DEF TypeOK
<1>2. CASE Owns(s, c)
  BY <1>1, <1>2 DEF RemoveFromSessionTable
<1>3. CASE ~Owns(s, c)
  BY <1>1, <1>3 DEF RemoveFromSessionTable
<1> QED
  BY <1>2, <1>3

LEMMA FlushDictType ==
    ASSUME TypeOK, NEW c, NEW s, FlushDict(c, s)
    PROVE  /\ dict' \in [Ctids -> DictEntry]
           /\ \A d \in Ctids : dict'[d].session_id \in {NoSession, dict[d].session_id}
<1>1. dict \in [Ctids -> DictEntry] /\ NoEntry \in DictEntry /\ NoEntry.session_id = NoSession
  BY DEF TypeOK, DictEntry, NoEntry
<1>2. CASE Owns(s, c)
  BY Zenon, <1>1, <1>2 DEF FlushDict
<1>3. CASE ~Owns(s, c)
  BY <1>1, <1>3 DEF FlushDict
<1> QED
  BY <1>2, <1>3

LEMMA DropConntrackType ==
    ASSUME TypeOK, NEW c,
           conntrackTable' = [conntrackTable EXCEPT ![c] = NoConntrack],
           conntrackIdle' = [conntrackIdle EXCEPT ![c] = 0]
    PROVE  /\ conntrackTable' \in [Ctids -> Conntrack] /\ conntrackIdle' \in [Ctids -> Age]
           /\ \A d \in Ctids : conntrackTable'[d] \in {NoConntrack, conntrackTable[d]}
<1>1. /\ conntrackTable \in [Ctids -> Conntrack] /\ conntrackIdle \in [Ctids -> Age]
      /\ NoConntrack \in Conntrack
  BY Zenon DEF TypeOK, Conntrack, NoConntrack
<1>2. conntrackTable' \in [Ctids -> Conntrack]
  BY Zenon, <1>1
<1>3. conntrackIdle' \in [Ctids -> Age]
  BY <1>1, ResetAge
<1>4. \A d \in Ctids : conntrackTable'[d] \in {NoConntrack, conntrackTable[d]}
  BY <1>1
<1> QED
  BY <1>2, <1>3, <1>4

LEMMA TouchType ==
    ASSUME TypeOK, NEW c, NEW s, Touch(c, s)
    PROVE  sessionIdle' \in [Ctids -> Age]
<1>1. sessionIdle \in [Ctids -> Age]
  BY DEF TypeOK
<1>2. CASE Owns(s, c)
  BY <1>1, <1>2, ResetAge DEF Touch
<1>3. CASE ~Owns(s, c)
  BY <1>1, <1>3 DEF Touch
<1> QED
  BY <1>2, <1>3

LEMMA AddSessionEntryType ==
    ASSUME TypeOK, NEW c
    PROVE  /\ AddSessionEntry(c) \in [Ctids -> DictEntry]
           /\ \A d \in Ctids : AddSessionEntry(c)[d].session_id = dict[d].session_id
  BY Zenon DEF TypeOK, AddSessionEntry, DictEntry

LEMMA OlderAge == \A a \in Age : Older(a) \in Age
  BY DEF Older

LEMMA EmitType ==
    ASSUME NEW k \in Conns, NEW type \in {"N", "U", "D"}, events \in Seq(Event), Emit(type, k)
    PROVE  events' \in Seq(Event)
<1> DEFINE e == [type |-> type, conn |-> k]
<1>1. e \in Event
  BY DEF Event
<1>2. Append(events, e) \in Seq(Event)
  BY <1>1, AppendProperties
<1> QED
  BY Zenon, <1>2 DEF Emit

LEMMA StructureInit == Init => Structure
<1> SUFFICES ASSUME Init PROVE Structure
  BY Zenon
<1>1. TypeOK
  <2>1. kernel \in [Conns -> KernelState] /\ events \in Seq(Event) /\ session \in Seq(Session)
    BY DEF Init, KernelState
  <2>2. /\ sessionTable \in [Ctids -> Nat] /\ sessionIdle \in [Ctids -> Age]
        /\ conntrackTable \in [Ctids -> Conntrack] /\ conntrackIdle \in [Ctids -> Age]
        /\ dict \in [Ctids -> DictEntry]
    BY DEF Init, Conntrack, NoConntrack, DictEntry, NoEntry
  <2> QED
    BY <2>1, <2>2 DEF Init, TypeOK, IdlePacket, IdleHandler, Sleeping
<1>2. Refs /\ DictShowsCurrentSession
  BY DEF Init, Refs, TableRefs, PacketRefs, ConntrackRefs, HandlerRefs, DictShowsCurrentSession,
         IdlePacket, IdleHandler
<1> QED
  BY <1>1, <1>2 DEF Structure

\* One step of the kernel: the tables and the goroutines stay as they are.
LEMMA StructureKernel ==
    Structure /\ KernelStep => Structure'
<1> SUFFICES ASSUME Structure, KernelStep PROVE Structure'
  OBVIOUS
<1>1. /\ kernel \in [Conns -> KernelState]
      /\ events \in Seq(Event)
  BY Zenon DEF Structure, TypeOK
<1>2. ASSUME NEW k \in Conns, StartUnqueued(k) \/ Confirm(k) \/ Abandon(k) \/ Dump(k) \/ Destroy(k)
      PROVE  Structure'
  <2>1. kernel' \in [Conns -> KernelState]
    BY Zenon, <1>1, <1>2 DEF StartUnqueued, Confirm, Abandon, Dump, Destroy, KernelState
  <2>2. Emit("N", k) \/ Emit("U", k) \/ Emit("D", k) \/ UNCHANGED events
    BY <1>2 DEF StartUnqueued, Confirm, Abandon, Dump, Destroy
  <2>3. events' \in Seq(Event)
    BY <1>1, <2>2, EmitType
  <2>4. UNCHANGED <<sessionVars, conntrackVars, dict, packet, handler, cleaner>>
    BY Zenon, <1>2 DEF StartUnqueued, Confirm, Abandon, Dump, Destroy
  <2>5. TypeOK'
    BY ZenonT(60), <2>1, <2>3, <2>4 DEF Structure, TypeOK, sessionVars, conntrackVars
  <2>6. Refs' /\ DictShowsCurrentSession'
    BY ZenonT(60), <2>4 DEF Structure, Refs, TableRefs, PacketRefs, ConntrackRefs, HandlerRefs,
       DictShowsCurrentSession, IsSession, SessionCtid, HandlerCtid, sessionVars, conntrackVars
  <2> QED
    BY Zenon, <2>5, <2>6 DEF Structure
<1>3. CASE Tick
  <2>1. sessionIdle' \in [Ctids -> Age] /\ conntrackIdle' \in [Ctids -> Age]
    <3>1. sessionIdle \in [Ctids -> Age] /\ conntrackIdle \in [Ctids -> Age]
      BY Zenon DEF Structure, TypeOK
    <3>2. \A c \in Ctids : Older(sessionIdle[c]) \in Age /\ Older(conntrackIdle[c]) \in Age
      BY <3>1, OlderAge
    <3> QED
      BY <1>3, <3>2 DEF Tick
  <2>2. UNCHANGED <<kernel, events, session, sessionTable, conntrackTable, dict, packet, handler, cleaner>>
    BY <1>3 DEF Tick
  <2> QED
    BY <2>1, <2>2 DEF Structure, TypeOK, Refs, TableRefs, PacketRefs, ConntrackRefs, HandlerRefs,
       DictShowsCurrentSession, IsSession, SessionCtid, HandlerCtid
<1> QED
  BY <1>2, <1>3 DEF KernelStep

\* A goroutine that finds a session in the table refers to a session of its ctid.
LEMMA FindSessionRefs ==
    ASSUME Structure, NEW p \in Packets, NEW k \in Conns, NEW isNew \in BOOLEAN,
           FindSession(p, k, isNew), UNCHANGED session
    PROVE  /\ packet' \in [Packets -> PacketState]
           /\ PacketRefs'
<1> DEFINE s == sessionTable[CtidOf[k]]
<1>1. s \in Nat /\ CtidOf[k] \in Ctids
  BY DEF Structure, TypeOK
<1>2. PICK next \in {"bypass", "create", "evict", "deliver"} :
        /\ packet' = [packet EXCEPT ![p] = [pc |-> next, conn |-> k, sess |-> s]]
        /\ next \in {"evict", "deliver"} => s # NoSession
  BY Zenon DEF FindSession
<1>3. s # NoSession => IsSession(s) /\ SessionCtid(s) = CtidOf[k]
  BY <1>1 DEF Structure, Refs, TableRefs
<1> HIDE DEF s
<1>4. packet' \in [Packets -> PacketState]
  BY Zenon, <1>1, <1>2 DEF Structure, TypeOK
<1>5. PacketRefs'
  BY <1>1, <1>2, <1>3 DEF Structure, TypeOK, Refs, PacketRefs, IsSession, SessionCtid
<1> QED
  BY Zenon, <1>4, <1>5

LEMMA StructureArrive ==
    Structure /\ PacketArrives => Structure'
<1> SUFFICES ASSUME Structure, NEW p \in Packets, NEW k \in Conns, NEW isNew \in BOOLEAN,
                    (FirstPacket(p, k) /\ isNew) \/ LaterPacket(p, k, isNew)
             PROVE  Structure'
  BY Zenon DEF PacketArrives
<1>1. FindSession(p, k, isNew) /\ UNCHANGED <<events, sessionVars, conntrackVars, dict, handler, cleaner>>
  BY Zenon DEF FirstPacket, LaterPacket
<1>2. kernel' \in [Conns -> KernelState]
  BY Zenon DEF FirstPacket, LaterPacket, Structure, TypeOK, KernelState
<1>3. SessionsKept
  BY <1>1, SessionsUnchanged DEF Structure, sessionVars
<1>4. TypeOK' /\ PacketRefs'
  BY SMTT(30), <1>1, <1>2, FindSessionRefs DEF Structure, TypeOK, sessionVars, conntrackVars
<1>5. TableRefs' /\ ConntrackRefs' /\ HandlerRefs'
  BY <1>1, <1>3, TableFrame, ConntrackFrame, HandlerFrame
     DEF Structure, Refs, sessionVars, conntrackVars
<1>6. DictShowsCurrentSession'
  BY <1>1 DEF Structure, DictShowsCurrentSession, sessionVars
<1> QED
  BY <1>4, <1>5, <1>6 DEF Structure, Refs

LEMMA StructurePacket ==
    ASSUME Structure, NEW p \in Packets, PacketStep(p)
    PROVE  Structure'
<1> USE DEF sessionVars, conntrackVars
<1>1. CASE BypassPacket(p)
  <2>1. SessionsKept
    BY Zenon, <1>1, SessionsUnchanged DEF BypassPacket, Structure
  <2>2. /\ dict' \in [Ctids -> DictEntry]
        /\ \A c \in Ctids : dict'[c].session_id = dict[c].session_id
    BY <1>1, AddSessionEntryType DEF BypassPacket, Structure
  <2>3. TypeOK'
    BY ZenonT(60), <1>1, <2>2 DEF BypassPacket, IdlePacket, Structure, TypeOK
  <2>4. PacketRefs'
    BY <1>1, <2>1, PacketFrame DEF BypassPacket, IdlePacket, Structure, TypeOK, Refs
  <2>5. TableRefs' /\ ConntrackRefs' /\ HandlerRefs' /\ DictShowsCurrentSession'
    BY <1>1, <2>1, <2>2, TableFrame, ConntrackFrame, HandlerFrame, DictFrame
       DEF BypassPacket, Structure, Refs
  <2> QED
    BY <2>3, <2>4, <2>5 DEF Structure, Refs
<1>2. CASE EvictConflicting(p)
  <2>1. SessionsKept
    BY <1>2, SessionsUnchanged DEF EvictConflicting, Structure
  <2>2. /\ sessionTable' \in [Ctids -> Nat] /\ sessionIdle' \in [Ctids -> Age]
        /\ \A c \in Ctids : sessionTable'[c] \in {NoSession, sessionTable[c]}
    BY <1>2, RemoveFromSessionTableType DEF EvictConflicting, Structure
  <2>3. TypeOK'
    BY ZenonT(60), <1>2, <2>2 DEF EvictConflicting, Goto, Structure, TypeOK
  <2>4. PacketRefs'
    BY <1>2, <2>1, PacketFrame DEF EvictConflicting, Goto, Structure, TypeOK, Refs
  <2>5. TableRefs' /\ ConntrackRefs' /\ HandlerRefs' /\ DictShowsCurrentSession'
    BY <1>2, <2>1, <2>2, TableFrame, ConntrackFrame, HandlerFrame, DictFrame
       DEF EvictConflicting, Structure, Refs
  <2> QED
    BY <2>3, <2>4, <2>5 DEF Structure, Refs
<1>3. CASE CreateSession(p)
  <2> DEFINE k == packet[p].conn
             s == Len(session) + 1
  <2>1. k \in Conns /\ CtidOf[k] \in Ctids /\ session \in Seq(Session)
    BY <1>3 DEF CreateSession, Structure, TypeOK, Refs, PacketRefs
  <2>2. [conn |-> k, conntrack |-> NoConn] \in Session
    BY <2>1 DEF Session
  <2>3. /\ session' \in Seq(Session)
        /\ Len(session') = s
        /\ s \in Nat
        /\ \A i \in 1..Len(session) : session'[i] = session[i]
        /\ session'[s] = [conn |-> k, conntrack |-> NoConn]
    BY <1>3, <2>1, <2>2, AppendProperties DEF CreateSession
  <2>4. SessionsKept /\ s \in 1..Len(session') /\ s # NoSession /\ session'[s].conn = k
    BY <2>1, <2>3 DEF SessionsKept
  <2>5. /\ sessionTable' = [sessionTable EXCEPT ![CtidOf[k]] = s]
        /\ sessionIdle' = [sessionIdle EXCEPT ![CtidOf[k]] = 0]
        /\ dict' = [dict EXCEPT ![CtidOf[k]] = [session_id |-> s, data |-> dict[CtidOf[k]].data]]
        /\ packet' = [packet EXCEPT ![p] = [pc |-> "rmct", conn |-> k, sess |-> s]]
        /\ UNCHANGED <<kernel, events, conntrackVars, handler, cleaner>>
    BY Zenon, <1>3 DEF CreateSession, InsertSessionTable, Goto
  <2> HIDE DEF k, s
  <2>6. dict' \in [Ctids -> DictEntry]
    BY Zenon, <2>1, <2>3, <2>5 DEF Structure, TypeOK, DictEntry
  <2>7. TypeOK'
    <3>1. sessionTable' \in [Ctids -> Nat] /\ sessionIdle' \in [Ctids -> Age]
      BY <2>1, <2>3, <2>5 DEF Structure, TypeOK, Age
    <3>2. packet' \in [Packets -> PacketState]
      BY <2>1, <2>3, <2>5 DEF Structure, TypeOK, PacketState
    <3> QED
      BY ZenonT(60), <2>3, <2>5, <2>6, <3>1, <3>2 DEF Structure, TypeOK, conntrackVars
  <2>8. TableRefs'
    BY ZenonT(60), <2>1, <2>4, <2>5, SessionKept DEF Structure, TypeOK, Refs, TableRefs, IsSession, SessionCtid
  <2>9. PacketRefs'
    <3>1. packet[p].pc # "idle" /\ packet[p].conn = k
      BY <1>3 DEF CreateSession, k
    <3> QED
      BY ZenonT(60), <2>1, <2>4, <2>5, <3>1, SessionKept
         DEF Structure, TypeOK, Refs, PacketRefs, IsSession, SessionCtid
  <2>10. ConntrackRefs' /\ HandlerRefs'
    BY <2>4, <2>5, ConntrackFrame, HandlerFrame DEF Structure, Refs
  <2>11. DictShowsCurrentSession'
    BY Zenon, <2>1, <2>5 DEF Structure, TypeOK, DictShowsCurrentSession
  <2> QED
    BY <2>7, <2>8, <2>9, <2>10, <2>11 DEF Structure, Refs
<1>4. CASE RemovePreviousConntrack(p)
  <2>1. SessionsKept
    BY <1>4, SessionsUnchanged DEF RemovePreviousConntrack, Structure
  <2>2. /\ conntrackTable' \in [Ctids -> Conntrack] /\ conntrackIdle' \in [Ctids -> Age]
        /\ \A c \in Ctids : conntrackTable'[c] \in {NoConntrack, conntrackTable[c]}
    BY Zenon, <1>4, DropConntrackType DEF RemovePreviousConntrack, RemoveConntrack, Structure
  <2>3. TypeOK'
    BY ZenonT(60), <1>4, <2>2 DEF RemovePreviousConntrack, Goto, Structure, TypeOK
  <2>4. PacketRefs'
    BY <1>4, <2>1, PacketFrame DEF RemovePreviousConntrack, Goto, Structure, TypeOK, Refs
  <2>5. TableRefs' /\ ConntrackRefs' /\ HandlerRefs' /\ DictShowsCurrentSession'
    BY <1>4, <2>1, <2>2, TableFrame, ConntrackFrame, HandlerFrame, DictFrame
       DEF RemovePreviousConntrack, Structure, Refs
  <2> QED
    BY <2>3, <2>4, <2>5 DEF Structure, Refs
<1>5. CASE Deliver(p)
  <2>1. SessionsKept
    BY <1>5, SessionsUnchanged DEF Deliver, Structure
  <2>2. /\ dict' \in [Ctids -> DictEntry]
        /\ \A c \in Ctids : dict'[c].session_id = dict[c].session_id
    <3>1. dict' = dict \/ dict' = AddSessionEntry(SessionCtid(packet[p].sess))
      BY Zenon, <1>5 DEF Deliver
    <3>2. dict \in [Ctids -> DictEntry]
      BY DEF Structure, TypeOK
    <3> QED
      BY Zenon, <3>1, <3>2, AddSessionEntryType DEF Structure
  <2>3. sessionIdle' \in [Ctids -> Age]
    BY Zenon, <1>5, TouchType DEF Deliver, Structure
  <2>4. TypeOK'
    BY <1>5, <2>2, <2>3 DEF Deliver, IdlePacket, Structure, TypeOK
  <2>5. PacketRefs'
    BY Zenon, <1>5, <2>1, PacketFrame DEF Deliver, IdlePacket, Structure, TypeOK, Refs
  <2>6. TableRefs' /\ ConntrackRefs' /\ HandlerRefs' /\ DictShowsCurrentSession'
    BY Zenon, <1>5, <2>1, <2>2, TableFrame, ConntrackFrame, HandlerFrame, DictFrame
       DEF Deliver, Structure, Refs
  <2> QED
    BY <2>4, <2>5, <2>6 DEF Structure, Refs
<1> QED
  BY Zenon, <1>1, <1>2, <1>3, <1>4, <1>5 DEF PacketStep

LEMMA HandleType ==
    ASSUME NEW pc \in {"idle", "rmct", "rmdict", "rmsess", "find", "flush", "evict", "confirm",
                       "insert", "update"},
           NEW e, e.type \in {"N", "U", "D"}, e.conn \in Conns,
           NEW stale \in Nat, NEW sess \in Nat, Handle(pc, e, stale, sess)
    PROVE  handler' \in HandlerState
<1>1. CASE pc = "idle"
  BY Zenon, <1>1 DEF Handle, IdleHandler
<1>2. CASE pc # "idle"
  BY <1>2 DEF Handle
<1> QED
  BY Zenon, <1>1, <1>2

LEMMA HandleRefs ==
    ASSUME NEW pc, NEW e, NEW stale, NEW sess, Handle(pc, e, stale, sess), e.conn \in Conns,
           stale # NoSession => stale \in 1..Len(session'),
           sess # NoSession => /\ sess \in 1..Len(session')
                               /\ CtidOf[session'[sess].conn] = CtidOf[e.conn],
           pc \in {"confirm", "flush", "evict"} => sess # NoSession
    PROVE  HandlerRefs'
<1>1. CASE pc = "idle"
  BY Zenon, <1>1 DEF Handle, IdleHandler, HandlerRefs
<1>2. CASE pc # "idle"
  BY Zenon, <1>2 DEF Handle, HandlerRefs, HandlerCtid, IsSession, SessionCtid
<1> QED
  BY Zenon, <1>1, <1>2

LEMMA StructureReadEvent ==
    ASSUME Structure, ReadEvent
    PROVE  Structure'
<1> USE DEF sessionVars, conntrackVars
<1> DEFINE e == Head(events)
           entry == conntrackTable[CtidOf[e.conn]]
<1>1. /\ e \in Event /\ events' = Tail(events) /\ Tail(events) \in Seq(Event)
      /\ e.type \in {"N", "U", "D"} /\ e.conn \in Conns /\ CtidOf[e.conn] \in Ctids
  <2>1. events \in Seq(Event) /\ events # <<>> /\ events' = Tail(events)
    BY DEF ReadEvent, Structure, TypeOK
  <2>2. e \in Event /\ Tail(events) \in Seq(Event)
    BY SMTT(30), <2>1, HeadTailProperties
  <2> HIDE DEF e
  <2> QED
    BY ZenonT(60), <2>1, <2>2 DEF Event
<1>2. PICK pc \in {"idle", "find", "insert", "update", "rmct"} :
        Handle(pc, e, entry.session, NoSession)
  BY Zenon, <1>1 DEF ReadEvent, WithoutEntry
<1>3. entry \in Conntrack /\ entry.session \in Nat
  BY Zenon, <1>1 DEF Structure, TypeOK, Conntrack
<1>4. entry.session # NoSession => entry.session \in 1..Len(session)
  BY <1>1 DEF Structure, Refs, ConntrackRefs, IsSession, NoConntrack
<1>5. UNCHANGED <<kernel, sessionVars, conntrackVars, dict, packet, cleaner>>
  BY DEF ReadEvent
<1>6. SessionsKept
  BY Zenon, <1>5, SessionsUnchanged DEF Structure
<1> HIDE DEF e, entry
<1>7. handler' \in HandlerState /\ HandlerRefs'
  BY SMTT(30), <1>1, <1>2, <1>3, <1>4, <1>5, HandleType, HandleRefs
<1>8. TypeOK'
  BY Zenon, <1>1, <1>5, <1>7 DEF Structure, TypeOK
<1>9. TableRefs' /\ PacketRefs' /\ ConntrackRefs' /\ DictShowsCurrentSession'
  BY Zenon, <1>5, <1>6, TableFrame, PacketFrame, ConntrackFrame, DictFrame DEF Structure, Refs
<1> QED
  BY <1>7, <1>8, <1>9 DEF Structure, Refs

LEMMA StructureRemoveStale ==
    ASSUME Structure, RemoveStaleConntrack \/ RemoveStaleDict \/ RemoveStaleSession
    PROVE  Structure'
<1> USE DEF sessionVars, conntrackVars
<1>1. /\ handler.conn \in Conns /\ handler.type \in {"N", "U", "D"} /\ handler.stale \in Nat
      /\ handler.stale # NoSession => handler.stale \in 1..Len(session)
  BY Zenon DEF RemoveStaleConntrack, RemoveStaleDict, RemoveStaleSession, Structure, TypeOK, Refs,
         HandlerRefs, IsSession
<1>2. UNCHANGED <<kernel, events, session, packet, cleaner>>
  BY DEF RemoveStaleConntrack, RemoveStaleDict, RemoveStaleSession
<1>3. SessionsKept
  BY <1>2, SessionsUnchanged DEF Structure
<1>4. PICK pc \in {"rmdict", "rmsess", "idle", "find", "insert"}, stale \in {NoSession, handler.stale} :
        Handle(pc, handler, stale, NoSession)
  BY Zenon DEF RemoveStaleConntrack, RemoveStaleDict, RemoveStaleSession, WithoutEntry
<1>5. handler' \in HandlerState /\ HandlerRefs'
  BY <1>1, <1>2, <1>4, HandleType, HandleRefs
<1>6. /\ conntrackTable' \in [Ctids -> Conntrack] /\ conntrackIdle' \in [Ctids -> Age]
      /\ \A c \in Ctids : conntrackTable'[c] \in {NoConntrack, conntrackTable[c]}
  <2>1. CASE RemoveStaleConntrack
    BY Zenon, <2>1, DropConntrackType DEF RemoveStaleConntrack, RemoveConntrack, Structure
  <2>2. CASE RemoveStaleDict \/ RemoveStaleSession
    BY Zenon, <2>2 DEF RemoveStaleDict, RemoveStaleSession, Structure, TypeOK
  <2> QED
    BY <2>1, <2>2
<1>7. /\ sessionTable' \in [Ctids -> Nat] /\ sessionIdle' \in [Ctids -> Age]
      /\ \A c \in Ctids : sessionTable'[c] \in {NoSession, sessionTable[c]}
  <2>1. CASE RemoveStaleSession
    BY <2>1, RemoveFromSessionTableType DEF RemoveStaleSession, Structure
  <2>2. CASE RemoveStaleConntrack \/ RemoveStaleDict
    BY ZenonT(60), <2>2 DEF RemoveStaleConntrack, RemoveStaleDict, Structure, TypeOK
  <2> QED
    BY ZenonT(60), <2>1, <2>2
<1>8. /\ dict' \in [Ctids -> DictEntry]
      /\ \A c \in Ctids : dict'[c].session_id \in {NoSession, dict[c].session_id}
  <2>1. dict \in [Ctids -> DictEntry] /\ NoEntry \in DictEntry /\ NoEntry.session_id = NoSession
    BY Zenon DEF Structure, TypeOK, DictEntry, NoEntry
  <2>2. dict' = dict \/ dict' = [dict EXCEPT ![HandlerCtid] = NoEntry]
    BY DEF RemoveStaleConntrack, RemoveStaleDict, RemoveStaleSession
  <2> QED
    BY Zenon, <2>1, <2>2
<1>9. TypeOK'
  BY ZenonT(60), <1>2, <1>5, <1>6, <1>7, <1>8 DEF Structure, TypeOK
<1>10. TableRefs' /\ PacketRefs' /\ ConntrackRefs' /\ DictShowsCurrentSession'
  BY Zenon, <1>2, <1>3, <1>6, <1>7, <1>8, TableFrame, PacketFrame, ConntrackFrame, DictFrame
     DEF Structure, Refs
<1> QED
  BY Zenon, <1>5, <1>9, <1>10 DEF Structure, Refs

LEMMA StructureFindSessionForNew ==
    ASSUME Structure, FindSessionForNew
    PROVE  Structure'
<1> USE DEF sessionVars, conntrackVars
<1> DEFINE s == sessionTable[HandlerCtid]
<1>1. handler.conn \in Conns /\ handler.type \in {"N", "U", "D"} /\ HandlerCtid \in Ctids /\ s \in Nat
  BY Zenon DEF FindSessionForNew, Structure, TypeOK, Refs, HandlerRefs, HandlerCtid
<1>2. UNCHANGED <<kernel, events, sessionVars, conntrackVars, dict, packet, cleaner>>
  BY DEF FindSessionForNew
<1>3. SessionsKept
  BY <1>2, SessionsUnchanged DEF Structure
<1>4. PICK pc \in {"insert", "confirm", "flush"} :
        Handle(pc, handler, NoSession, s) /\ (pc # "insert" => s # NoSession)
  BY Zenon DEF FindSessionForNew
<1>5. s # NoSession => s \in 1..Len(session) /\ CtidOf[session[s].conn] = CtidOf[handler.conn]
  BY Zenon, <1>1 DEF Structure, Refs, TableRefs, IsSession, SessionCtid, HandlerCtid
<1> HIDE DEF s
<1>6. handler' \in HandlerState
  BY <1>1, <1>4, HandleType
<1>7. HandlerRefs'
  BY Zenon, <1>1, <1>2, <1>4, <1>5, HandleRefs
<1>8. TypeOK'
  BY Zenon, <1>2, <1>6 DEF Structure, TypeOK
<1>9. TableRefs' /\ PacketRefs' /\ ConntrackRefs' /\ DictShowsCurrentSession'
  BY Zenon, <1>2, <1>3, TableFrame, PacketFrame, ConntrackFrame, DictFrame DEF Structure, Refs
<1> QED
  BY Zenon, <1>7, <1>8, <1>9 DEF Structure, Refs

LEMMA StructureMismatch ==
    ASSUME Structure, FlushMismatch \/ EvictMismatch
    PROVE  Structure'
<1> USE DEF sessionVars, conntrackVars
<1>1. /\ handler.conn \in Conns /\ handler.type \in {"N", "U", "D"} /\ handler.sess \in Nat
      /\ handler.sess \in 1..Len(session) /\ CtidOf[session[handler.sess].conn] = CtidOf[handler.conn]
      /\ handler.sess # NoSession
  BY Zenon DEF FlushMismatch, EvictMismatch, Structure, TypeOK, Refs, HandlerRefs, IsSession, SessionCtid,
         HandlerCtid
<1>2. UNCHANGED <<kernel, events, session, conntrackVars, packet, cleaner>>
  BY DEF FlushMismatch, EvictMismatch
<1>3. SessionsKept
  BY <1>2, SessionsUnchanged DEF Structure
<1>4. \/ Handle("evict", handler, NoSession, handler.sess)
      \/ Handle("insert", handler, NoSession, NoSession)
  BY ZenonT(60) DEF FlushMismatch, EvictMismatch
<1>5. handler' \in HandlerState /\ HandlerRefs'
  <2>1. handler' \in HandlerState
    BY <1>1, <1>4, HandleType
  <2>2. HandlerRefs'
    BY Zenon, <1>1, <1>2, <1>4, HandleRefs
  <2> QED
    BY Zenon, <2>1, <2>2
<1>6. /\ sessionTable' \in [Ctids -> Nat] /\ sessionIdle' \in [Ctids -> Age]
      /\ \A c \in Ctids : sessionTable'[c] \in {NoSession, sessionTable[c]}
  <2>1. CASE EvictMismatch
    BY Zenon, <2>1, RemoveFromSessionTableType DEF EvictMismatch, Structure
  <2>2. CASE FlushMismatch
    BY Zenon, <2>2 DEF FlushMismatch, Structure, TypeOK
  <2> QED
    BY ZenonT(60), <2>1, <2>2
<1>7. /\ dict' \in [Ctids -> DictEntry]
      /\ \A c \in Ctids : dict'[c].session_id \in {NoSession, dict[c].session_id}
  <2>1. CASE FlushMismatch
    BY Zenon, <2>1, FlushDictType DEF FlushMismatch, Structure
  <2>2. CASE EvictMismatch
    BY <2>2 DEF EvictMismatch, Structure, TypeOK
  <2> QED
    BY ZenonT(60), <2>1, <2>2
<1>8. TypeOK'
  BY ZenonT(60), <1>2, <1>5, <1>6, <1>7 DEF Structure, TypeOK
<1>9. TableRefs' /\ PacketRefs' /\ ConntrackRefs' /\ DictShowsCurrentSession'
  BY Zenon, <1>2, <1>3, <1>6, <1>7, TableFrame, PacketFrame, ConntrackFrame, DictFrame DEF Structure, Refs
<1> QED
  BY ZenonT(60), <1>5, <1>8, <1>9 DEF Structure, Refs
LEMMA StructureConfirmSession ==
    ASSUME Structure, ConfirmSession
    PROVE  Structure'
<1> USE DEF sessionVars, conntrackVars
<1> DEFINE s == handler.sess
           new == [conn |-> session[s].conn, conntrack |-> handler.conn]
<1>1. /\ handler.conn \in Conns /\ handler.type \in {"N", "U", "D"} /\ s \in 1..Len(session)
      /\ s \in Nat /\ CtidOf[session[s].conn] = CtidOf[handler.conn] /\ session \in Seq(Session)
  BY Zenon DEF ConfirmSession, Structure, TypeOK, Refs, HandlerRefs, IsSession, SessionCtid, HandlerCtid
<1>2. session[s] \in Session
  BY <1>1
<1>3. new \in Session
  BY Zenon, <1>1, <1>2 DEF Session
<1>4. /\ session' = [session EXCEPT ![s] = new] /\ Handle("insert", handler, NoSession, s)
      /\ Touch(HandlerCtid, s) /\ new.conn = session[s].conn
      /\ UNCHANGED <<kernel, events, sessionTable, conntrackVars, dict, packet, cleaner>>
  BY Zenon DEF ConfirmSession
<1> HIDE DEF new, s
<1>5. /\ session' \in Seq(Session) /\ Len(session') = Len(session)
      /\ session'[s] = new
      /\ \A i \in 1..Len(session) : i # s => session'[i] = session[i]
  BY <1>1, <1>3, <1>4, ExceptSeq
<1>6. SessionsKept
  BY SMTT(30), <1>1, <1>4, <1>5 DEF SessionsKept
<1>7. handler' \in HandlerState /\ HandlerRefs'
  BY <1>1, <1>4, <1>5, <1>6, HandleType, HandleRefs DEF SessionsKept
<1>8. TypeOK'
  BY ZenonT(60), <1>4, <1>5, <1>7, TouchType DEF Structure, TypeOK
<1>9. TableRefs' /\ PacketRefs' /\ ConntrackRefs' /\ DictShowsCurrentSession'
  BY Zenon, <1>4, <1>6, TableFrame, PacketFrame, ConntrackFrame, DictFrame DEF Structure, Refs
<1> QED
  BY Zenon, <1>7, <1>8, <1>9 DEF Structure, Refs

LEMMA StructureInsertNewConntrack ==
    ASSUME Structure, InsertNewConntrack
    PROVE  Structure'
<1> USE DEF sessionVars, conntrackVars
<1> DEFINE new == [conn |-> handler.conn, session |-> handler.sess]
<1>1. /\ handler.conn \in Conns /\ HandlerCtid \in Ctids /\ HandlerCtid = CtidOf[handler.conn]
      /\ handler.sess # NoSession => IsSession(handler.sess)
  BY Zenon DEF InsertNewConntrack, Structure, TypeOK, Refs, HandlerRefs, HandlerCtid
<1>2. new \in Conntrack /\ new.conn = handler.conn /\ new.session = handler.sess
  BY Zenon, <1>1 DEF Conntrack, Structure, TypeOK
<1>3. /\ conntrackTable' = [conntrackTable EXCEPT ![HandlerCtid] = new]
      /\ conntrackIdle' = [conntrackIdle EXCEPT ![HandlerCtid] = 0]
      /\ handler' = IdleHandler
      /\ UNCHANGED <<kernel, events, sessionVars, dict, packet, cleaner>>
  BY DEF InsertNewConntrack, InsertConntrack
<1> HIDE DEF new
<1>4. SessionsKept
  BY Zenon, <1>3, SessionsUnchanged DEF Structure
<1>5. /\ conntrackTable \in [Ctids -> Conntrack] /\ conntrackTable' \in [Ctids -> Conntrack]
      /\ conntrackIdle' \in [Ctids -> Age]
  BY ZenonT(60), <1>2, <1>3, ResetAge DEF Structure, TypeOK
<1>6. TypeOK'
  BY Zenon, <1>3, <1>5 DEF Structure, TypeOK, IdleHandler
<1>7. ConntrackRefs'
  BY Zenon, <1>1, <1>2, <1>3, <1>5 DEF Structure, Refs, ConntrackRefs, IsSession
<1>8. TableRefs' /\ PacketRefs' /\ DictShowsCurrentSession'
  BY Zenon, <1>3, <1>4, TableFrame, PacketFrame, DictFrame DEF Structure, Refs
<1>9. HandlerRefs'
  BY Zenon, <1>3 DEF HandlerRefs, IdleHandler
<1> QED
  BY Zenon, <1>6, <1>7, <1>8, <1>9 DEF Structure, Refs

LEMMA StructureUpdateConntrack ==
    ASSUME Structure, UpdateConntrack
    PROVE  Structure'
<1> USE DEF sessionVars, conntrackVars
<1>1. /\ conntrackIdle' = [conntrackIdle EXCEPT ![HandlerCtid] = 0]
      /\ Touch(HandlerCtid, handler.stale) /\ handler' = IdleHandler
      /\ UNCHANGED <<kernel, events, session, sessionTable, conntrackTable, dict, packet, cleaner>>
  BY Zenon DEF UpdateConntrack
<1>2. SessionsKept
  BY Zenon, <1>1, SessionsUnchanged DEF Structure
<1>3. sessionIdle' \in [Ctids -> Age]
  BY <1>1, TouchType DEF Structure
<1>4. conntrackIdle' \in [Ctids -> Age]
  BY Zenon, <1>1, ResetAge DEF Structure, TypeOK
<1>5. TypeOK'
  BY Zenon, <1>1, <1>3, <1>4 DEF Structure, TypeOK, IdleHandler
<1>6. TableRefs' /\ PacketRefs' /\ ConntrackRefs' /\ DictShowsCurrentSession'
  BY Zenon, <1>1, <1>2, TableFrame, PacketFrame, ConntrackFrame, DictFrame DEF Structure, Refs
<1>7. HandlerRefs'
  BY <1>1 DEF HandlerRefs, IdleHandler
<1> QED
  BY Zenon, <1>5, <1>6, <1>7 DEF Structure, Refs

LEMMA ScanType ==
    ASSUME NEW todo \in SUBSET Ctids
    PROVE  Scan(todo) \in CleanerState
<1>1. CASE todo = {}
  BY <1>1 DEF Scan, Sleeping
<1>2. CASE todo # {}
  BY ZenonT(60), <1>2 DEF Scan, Clean, NoConntrack
<1> QED
  BY Zenon, <1>1, <1>2

LEMMA StructureCleaner ==
    Structure /\ CleanerStep => Structure'
<1> SUFFICES ASSUME Structure, CleanerStep PROVE Structure'
  OBVIOUS
<1> USE DEF sessionVars, conntrackVars
<1>1. UNCHANGED <<kernel, events, session, packet, handler>>
  BY Zenon DEF CleanerStep, CleanSessionTable, StartCleanConntrackTable, CleanConntrackEntry, CleanFlushDict,
         CleanRemove
<1>2. SessionsKept
  BY Zenon, <1>1, SessionsUnchanged DEF Structure
<1>3. SUFFICES /\ sessionTable' \in [Ctids -> Nat] /\ sessionIdle' \in [Ctids -> Age]
               /\ \A c \in Ctids : sessionTable'[c] \in {NoSession, sessionTable[c]}
               /\ conntrackTable' \in [Ctids -> Conntrack] /\ conntrackIdle' \in [Ctids -> Age]
               /\ \A c \in Ctids : conntrackTable'[c] \in {NoConntrack, conntrackTable[c]}
               /\ dict' \in [Ctids -> DictEntry]
               /\ \A c \in Ctids : dict'[c].session_id \in {NoSession, dict[c].session_id}
               /\ cleaner' \in CleanerState
  <2>1. TypeOK'
    BY Zenon, <1>1, <1>3 DEF Structure, TypeOK
  <2>2. Refs' /\ DictShowsCurrentSession'
    BY Zenon, <1>1, <1>2, <1>3, TableFrame, PacketFrame, ConntrackFrame, HandlerFrame, DictFrame
       DEF Structure, Refs
  <2> QED
    BY Zenon, <2>1, <2>2 DEF Structure
<1>4. /\ sessionTable \in [Ctids -> Nat] /\ sessionIdle \in [Ctids -> Age]
      /\ conntrackTable \in [Ctids -> Conntrack] /\ conntrackIdle \in [Ctids -> Age]
      /\ dict \in [Ctids -> DictEntry] /\ cleaner \in CleanerState /\ TypeOK
  BY Zenon DEF Structure, TypeOK
<1>5. CASE CleanSessionTable
  <2>1. NoEntry \in DictEntry /\ NoEntry.session_id = NoSession /\ 0 \in Age
    BY SMTT(30) DEF DictEntry, NoEntry
  <2>2. cleaner' \in CleanerState
    BY Zenon, <1>5 DEF CleanSessionTable, Clean, NoConntrack
  <2> QED
    BY Zenon, <1>4, <1>5, <2>1, <2>2 DEF CleanSessionTable
<1>6. CASE StartCleanConntrackTable
  BY ZenonT(60), <1>4, <1>6, ScanType DEF StartCleanConntrackTable
<1>7. ASSUME NEW c \in Ctids, CleanConntrackEntry(c)
      PROVE  cleaner' \in CleanerState /\ UNCHANGED <<sessionVars, conntrackVars, dict>>
  <2>1. cleaner.todo \ {c} \in SUBSET Ctids /\ conntrackTable[c] \in Conntrack
    BY Zenon, <1>4
  <2> QED
    BY ZenonT(60), <1>7, <2>1, ScanType DEF CleanConntrackEntry, Clean, Conntrack
<1>8. CASE CleanFlushDict
  <2>1. cleaner' \in CleanerState
    BY Zenon, <1>4, <1>8 DEF CleanFlushDict
  <2> QED
    BY Zenon, <1>4, <1>8, <2>1, FlushDictType DEF CleanFlushDict
<1>9. CASE CleanRemove
  <2>1. cleaner' \in CleanerState /\ UNCHANGED dict
    BY Zenon, <1>4, <1>9, ScanType DEF CleanRemove
  <2>2. /\ conntrackTable' \in [Ctids -> Conntrack] /\ conntrackIdle' \in [Ctids -> Age]
        /\ \A d \in Ctids : conntrackTable'[d] \in {NoConntrack, conntrackTable[d]}
    BY Zenon, <1>4, <1>9, DropConntrackType DEF CleanRemove
  <2>3. /\ sessionTable' \in [Ctids -> Nat] /\ sessionIdle' \in [Ctids -> Age]
        /\ \A d \in Ctids : sessionTable'[d] \in {NoSession, sessionTable[d]}
    BY Zenon, <1>4, <1>9, RemoveFromSessionTableType DEF CleanRemove
  <2> QED
    BY Zenon, <1>4, <2>1, <2>2, <2>3
<1> QED
  BY Zenon, <1>4, <1>5, <1>6, <1>7, <1>8, <1>9 DEF CleanerStep

LEMMA StructureStutter ==
    Structure /\ UNCHANGED vars => Structure'
<1> SUFFICES ASSUME Structure, UNCHANGED vars PROVE Structure'
  OBVIOUS
<1> USE DEF vars, sessionVars, conntrackVars
<1>1. TypeOK'
  BY ZenonT(60) DEF Structure, TypeOK
<1>2. TableRefs' /\ DictShowsCurrentSession'
  BY Zenon DEF Structure, Refs, TableRefs, DictShowsCurrentSession, IsSession, SessionCtid
<1>3. PacketRefs'
  BY Zenon DEF Structure, Refs, PacketRefs, IsSession, SessionCtid
<1>4. ConntrackRefs' /\ HandlerRefs'
  BY DEF Structure, Refs, ConntrackRefs, HandlerRefs, IsSession, SessionCtid, HandlerCtid
<1> QED
  BY Zenon, <1>1, <1>2, <1>3, <1>4 DEF Structure, Refs

LEMMA StructureNext ==
    Structure /\ [Next]_vars => Structure'
<1> SUFFICES ASSUME Structure, [Next]_vars PROVE Structure'
  OBVIOUS
<1>1. CASE HandlerStep
  BY Zenon, <1>1, StructureReadEvent, StructureRemoveStale, StructureFindSessionForNew, StructureMismatch,
     StructureConfirmSession, StructureInsertNewConntrack, StructureUpdateConntrack DEF HandlerStep
<1>2. CASE \E p \in Packets : PacketStep(p)
  BY <1>2, StructurePacket
<1> QED
  BY <1>1, <1>2, StructureKernel, StructureArrive, StructureCleaner, StructureStutter DEF Next

LEMMA StructureInvariant == Spec => []Structure
  BY StructureInit, StructureNext, PTL DEF Spec

\* Every variable of the dispatch service keeps its type.
THEOREM TypeCorrect == Spec => []TypeOK
<1>1. Structure => TypeOK
  BY DEF Structure
<1> QED
  BY <1>1, StructureInvariant, PTL

\* The dictionary never shows, for a ctid, a session_id other than that of the
\* session sessionTable holds for it: insertSessionTable writes both under one
\* lock, and every other step only deletes.  The order of events plays no part.
THEOREM DictCurrent == Spec => []DictShowsCurrentSession
<1>1. Structure => DictShowsCurrentSession
  BY DEF Structure
<1> QED
  BY <1>1, StructureInvariant, PTL

=============================================================================
