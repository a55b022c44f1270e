------------------------------ MODULE Dispatch ------------------------------
(***************************************************************************)
(* The dispatch service's two tables and the goroutines that share them:   *)
(* sessionTable (ctid -> Session, filled by the nfqueue handler) and       *)
(* conntrackTable (ctid -> Conntrack, filled by the conntrack handler),    *)
(* with the kernel dictionary "sessions" keyed by the same ctid.           *)
(*                                                                         *)
(* A ctid is unique among live connections but the kernel reuses it.  The  *)
(* actors are one goroutine per queued packet, the single conntrack        *)
(* thread, the cleaner task and the kernel; they interleave between any    *)
(* two acquisitions of sessionMutex or conntrackTableMutex.                *)
(***************************************************************************)
EXTENDS Integers, Sequences

CONSTANTS
    Ctids,        \* conntrack ids
    Conns,        \* connections the kernel tracks, one after the other on a ctid
    CtidOf,       \* [Conns -> Ctids]: the id the kernel gives a connection
    Tuples,       \* client side tuples
    TupleOf,      \* [Conns -> Tuples]
    Packets,      \* slots for packets being handled at the same time
    NoConn,       \* the null connection
    MaxSessions,  \* bound: no first packet is queued after this many sessions
    MaxEvents     \* capacity of the conntrack event socket

ASSUME KernelAssumption ==
    /\ CtidOf \in [Conns -> Ctids]
    /\ TupleOf \in [Conns -> Tuples]
    /\ NoConn \notin Conns

ASSUME BoundAssumption ==
    /\ MaxSessions \in Nat
    /\ MaxEvents \in Nat

VARIABLES
    kernel,         \* [Conns -> KernelState]
    events,         \* conntrack events not yet read, oldest first
    session,        \* every Session created so far; its index is its identity
    sessionTable,   \* [Ctids -> index into session, or NoSession]
    sessionIdle,    \* [Ctids -> idle time of the session in the table]
    conntrackTable, \* [Ctids -> Conntrack, or NoConntrack]
    conntrackIdle,  \* [Ctids -> idle time of the entry in the table]
    dict,           \* [Ctids -> what the "sessions" dictionary holds]
    packet,         \* [Packets -> state of the goroutine that handles it]
    handler,        \* state of the conntrack thread
    cleaner         \* state of the cleaner task

sessionVars == <<session, sessionTable, sessionIdle>>

conntrackVars == <<conntrackTable, conntrackIdle>>

vars == <<kernel, events, sessionVars, conntrackVars, dict, packet, handler, cleaner>>

-----------------------------------------------------------------------------
NoSession == 0

\* Idle time, measured at the two limits of the cleaner: 0 is at most 60 s,
\* 1 is between 60 s and 10000 s, 2 is more than 10000 s.
Age == 0..2

KernelState == {"free", "new", "confirmed", "dead"}

\* conn is the connection whose packet created the session: it fixes
\* conntrackID and clientSideTuple.  conntrack is the connection of
\* conntrackPointer, NoConn until a NEW event confirms the session.  Its
\* lastActivity is read only while it is in the table: see sessionIdle.
Session == [conn : Conns, conntrack : Conns \cup {NoConn}]

\* conn fixes ConntrackID and ClientSideTuple, session is conntrack.Session.
Conntrack == [conn : Conns \cup {NoConn}, session : Nat]

NoConntrack == [conn |-> NoConn, session |-> NoSession]

\* data: there are other entries, bypass_packetd or what the plugins store.
DictEntry == [session_id : Nat, data : BOOLEAN]

NoEntry == [session_id |-> NoSession, data |-> FALSE]

Event == [type : {"N", "U", "D"}, conn : Conns]

\* Where a packet's goroutine is, its connection and the session it works with.
PacketState ==
    [pc : {"idle", "bypass", "evict", "create", "rmct", "deliver"},
     conn : Conns \cup {NoConn}, sess : Nat]

IdlePacket == [pc |-> "idle", conn |-> NoConn, sess |-> NoSession]

\* Where the conntrack thread is, the event it handles, the session of the
\* conntrack entry it found and the session it looked up for a NEW event.
HandlerState ==
    [pc : {"idle", "rmct", "rmdict", "rmsess", "find", "flush", "evict", "confirm", "insert",
           "update"},
     type : {"N", "U", "D"}, conn : Conns \cup {NoConn}, stale : Nat, sess : Nat]

IdleHandler == [pc |-> "idle", type |-> "D", conn |-> NoConn,
                stale |-> NoSession, sess |-> NoSession]

\* Where the cleaner is, the entries it still has to visit and the stale one,
\* with its session, that it is about to remove.
CleanerState ==
    [pc : {"sleep", "conntracks", "scan", "flush", "rmsess"},
     todo : SUBSET Ctids, conn : Conns \cup {NoConn}, sess : Nat]

Sleeping == [pc |-> "sleep", todo |-> {}, conn |-> NoConn, sess |-> NoSession]

TypeOK ==
    /\ kernel \in [Conns -> KernelState]
    /\ events \in Seq(Event)
    /\ session \in Seq(Session)
    /\ sessionTable \in [Ctids -> Nat]
    /\ sessionIdle \in [Ctids -> Age]
    /\ conntrackTable \in [Ctids -> Conntrack]
    /\ conntrackIdle \in [Ctids -> Age]
    /\ dict \in [Ctids -> DictEntry]
    /\ packet \in [Packets -> PacketState]
    /\ handler \in HandlerState
    /\ cleaner \in CleanerState

Init ==
    /\ kernel = [k \in Conns |-> "free"]
    /\ events = <<>>
    /\ session = <<>>
    /\ sessionTable = [c \in Ctids |-> NoSession]
    /\ sessionIdle = [c \in Ctids |-> 0]
    /\ conntrackTable = [c \in Ctids |-> NoConntrack]
    /\ conntrackIdle = [c \in Ctids |-> 0]
    /\ dict = [c \in Ctids |-> NoEntry]
    /\ packet = [p \in Packets |-> IdlePacket]
    /\ handler = IdleHandler
    /\ cleaner = Sleeping

-----------------------------------------------------------------------------
(***************************************************************************)
(* Helpers shared by the handlers.                                         *)
(***************************************************************************)

Live(k) == kernel[k] \in {"new", "confirmed"}

SameTuple(k, l) == TupleOf[k] = TupleOf[l]

SessionCtid(s) == CtidOf[session[s].conn]

\* A queued packet keeps its connection's id from being reused.
InFlight(c) == \E p \in Packets : packet[p].pc # "idle" /\ CtidOf[packet[p].conn] = c

Owns(s, c) == s # NoSession /\ sessionTable[c] = s

\* Mutant of RemoveFromSessionTable: whatever the table holds is removed.
RemoveAnyFromSessionTable(c, s) ==
    /\ sessionTable' = [sessionTable EXCEPT ![c] = NoSession]
    /\ sessionIdle' = [sessionIdle EXCEPT ![c] = 0]

\* delete(sessionTable, ctid), but only if s is what the table holds.
RemoveFromSessionTable(c, s) ==
    IF Owns(s, c)
    THEN /\ sessionTable' = [sessionTable EXCEPT ![c] = NoSession]
         /\ sessionIdle' = [sessionIdle EXCEPT ![c] = 0]
    ELSE UNCHANGED <<sessionTable, sessionIdle>>

\* dict.DeleteSession, but only if the table holds s.
FlushDict(c, s) ==
    dict' = IF Owns(s, c) THEN [dict EXCEPT ![c] = NoEntry] ELSE dict

AddSessionEntry(c) ==
    [dict EXCEPT ![c] = [session_id |-> dict[c].session_id, data |-> TRUE]]

\* SetLastActivity(now).
Touch(c, s) == sessionIdle' = IF Owns(s, c) THEN [sessionIdle EXCEPT ![c] = 0] ELSE sessionIdle

\* conntrackTableMutex is held by the cleaner from its first entry to its last.
ConntrackTableFree == cleaner.pc \in {"sleep", "conntracks"}

RemoveConntrack(c) ==
    /\ ConntrackTableFree
    /\ conntrackTable' = [conntrackTable EXCEPT ![c] = NoConntrack]
    /\ conntrackIdle' = [conntrackIdle EXCEPT ![c] = 0]

InsertConntrack(c, entry) ==
    /\ ConntrackTableFree
    /\ conntrackTable' = [conntrackTable EXCEPT ![c] = entry]
    /\ conntrackIdle' = [conntrackIdle EXCEPT ![c] = 0]

-----------------------------------------------------------------------------
(***************************************************************************)
(* The kernel: connection tracking, the packet queue and the event socket. *)
(* An event that does not fit into the socket buffer is lost; one that     *)
(* fits may be lost too.                                                   *)
(***************************************************************************)

Emit(type, k) ==
    \/ /\ Len(events) < MaxEvents
       /\ events' = Append(events, [type |-> type, conn |-> k])
    \/ UNCHANGED events

\* A connection takes over the id of dead ones, once no packet refers to it.
IdFree(k) ==
    /\ kernel[k] = "free"
    /\ \A l \in Conns : CtidOf[l] = CtidOf[k] => ~Live(l)
    /\ ~InFlight(CtidOf[k])

\* A connection whose first packet is not queued: one of our own, or one that
\* started while the queue was full.
StartUnqueued(k) ==
    /\ IdFree(k)
    /\ kernel' = [kernel EXCEPT ![k] = "confirmed"]
    /\ Emit("N", k)
    /\ UNCHANGED <<sessionVars, conntrackVars, dict, packet, handler, cleaner>>

\* After the verdict the first packet reaches the end of netfilter ...
Confirm(k) ==
    /\ kernel[k] = "new"
    /\ ~InFlight(CtidOf[k])
    /\ kernel' = [kernel EXCEPT ![k] = "confirmed"]
    /\ Emit("N", k)
    /\ UNCHANGED <<sessionVars, conntrackVars, dict, packet, handler, cleaner>>

\* ... or is dropped or merged on its way there, and no event is sent.
Abandon(k) ==
    /\ kernel[k] = "new"
    /\ ~InFlight(CtidOf[k])
    /\ kernel' = [kernel EXCEPT ![k] = "dead"]
    /\ UNCHANGED <<events, sessionVars, conntrackVars, dict, packet, handler, cleaner>>

\* The answer to the periodic dump request of kernel.conntrackTask.
Dump(k) ==
    /\ kernel[k] = "confirmed"
    /\ Emit("U", k)
    /\ UNCHANGED <<kernel, sessionVars, conntrackVars, dict, packet, handler, cleaner>>

Destroy(k) ==
    /\ kernel[k] = "confirmed"
    /\ kernel' = [kernel EXCEPT ![k] = "dead"]
    /\ Emit("D", k)
    /\ UNCHANGED <<sessionVars, conntrackVars, dict, packet, handler, cleaner>>

\* Time passes.  Nobody reads the idle time of a session out of the table.
Older(age) == IF age = 2 THEN 2 ELSE age + 1

Tick ==
    /\ sessionIdle' = [c \in Ctids |-> IF sessionTable[c] = NoSession THEN 0 ELSE Older(sessionIdle[c])]
    /\ conntrackIdle' = [c \in Ctids |->
                           IF conntrackTable[c] = NoConntrack THEN 0 ELSE Older(conntrackIdle[c])]
    /\ UNCHANGED <<kernel, events, session, sessionTable, conntrackTable, dict, packet, handler, cleaner>>

-----------------------------------------------------------------------------
(***************************************************************************)
(* nfqueueCallback: one goroutine per packet.  isNew is the new-connection *)
(* bit of the packet mark.  Packets that are neither IPv4 nor IPv6, and    *)
(* loopback packets, are accepted at once and change nothing.              *)
(***************************************************************************)

Goto(p, pc, s) ==
    packet' = [packet EXCEPT ![p] = [pc |-> pc, conn |-> packet[p].conn, sess |-> s]]

\* findSession and the choice the handler makes on what it found.
FindSession(p, k, isNew) ==
    LET s == sessionTable[CtidOf[k]]
        next == IF s = NoSession
                THEN IF isNew THEN "create" ELSE "bypass"
                ELSE IF isNew /\ ~SameTuple(k, session[s].conn) THEN "evict" ELSE "deliver"
    IN  /\ packet[p].pc = "idle"
        /\ packet' = [packet EXCEPT ![p] = [pc |-> next, conn |-> k, sess |-> s]]

\* The first packet of a connection.
FirstPacket(p, k) ==
    /\ IdFree(k)
    /\ Len(session) < MaxSessions
    /\ kernel' = [kernel EXCEPT ![k] = "new"]
    /\ FindSession(p, k, TRUE)
    /\ UNCHANGED <<events, sessionVars, conntrackVars, dict, handler, cleaner>>

\* A later packet.  Until the first reply netfilter may still call it new.
LaterPacket(p, k, isNew) ==
    /\ kernel[k] = "confirmed"
    /\ isNew => Len(session) < MaxSessions
    /\ FindSession(p, k, isNew)
    /\ UNCHANGED <<kernel, events, sessionVars, conntrackVars, dict, handler, cleaner>>

\* A mid-session packet without a session marks the connection as bypassed.
BypassPacket(p) ==
    /\ packet[p].pc = "bypass"
    /\ dict' = AddSessionEntry(CtidOf[packet[p].conn])
    /\ packet' = [packet EXCEPT ![p] = IdlePacket]
    /\ UNCHANGED <<kernel, events, sessionVars, conntrackVars, handler, cleaner>>

\* The packet conflicts with the session found: take that one out.
EvictConflicting(p) ==
    /\ packet[p].pc = "evict"
    /\ RemoveFromSessionTable(SessionCtid(packet[p].sess), packet[p].sess)
    /\ Goto(p, "create", NoSession)
    /\ UNCHANGED <<kernel, events, session, conntrackVars, dict, handler, cleaner>>

\* Mutant of InsertSessionTable: an id that the dictionary has is not replaced.
InsertSessionTableOnce(c, s) ==
    /\ sessionTable' = [sessionTable EXCEPT ![c] = s]
    /\ sessionIdle' = [sessionIdle EXCEPT ![c] = 0]
    /\ dict' = IF dict[c].session_id # NoSession THEN dict
               ELSE [dict EXCEPT ![c] = [session_id |-> s, data |-> dict[c].data]]

\* insertSessionTable: the mapping and its dictionary entry under one lock.  The
\* kernel takes the entry: what AddSessionEntry returns is not looked at.
InsertSessionTable(c, s) ==
    /\ sessionTable' = [sessionTable EXCEPT ![c] = s]
    /\ sessionIdle' = [sessionIdle EXCEPT ![c] = 0]
    /\ dict' = [dict EXCEPT ![c] = [session_id |-> s, data |-> dict[c].data]]

CreateSession(p) ==
    LET s == Len(session) + 1
        k == packet[p].conn
    IN  /\ packet[p].pc = "create"
        /\ session' = Append(session, [conn |-> k, conntrack |-> NoConn])
        /\ InsertSessionTable(CtidOf[k], s)
        /\ Goto(p, "rmct", s)
        /\ UNCHANGED <<kernel, events, conntrackVars, handler, cleaner>>

\* A new session cannot have a conntrack entry yet: drop the old one.
RemovePreviousConntrack(p) ==
    /\ packet[p].pc = "rmct"
    /\ RemoveConntrack(CtidOf[packet[p].conn])
    /\ Goto(p, "deliver", packet[p].sess)
    /\ UNCHANGED <<kernel, events, sessionVars, dict, handler, cleaner>>

\* Accounting, callSubscribers (module Subscribers) and the verdict.  The
\* plugins may store dictionary entries and may release the session, which
\* stores bypass_packetd.
Deliver(p) ==
    LET s == packet[p].sess IN
    /\ packet[p].pc = "deliver"
    /\ Touch(SessionCtid(s), s)
    /\ dict' \in {dict, AddSessionEntry(SessionCtid(s))}
    /\ packet' = [packet EXCEPT ![p] = IdlePacket]
    /\ UNCHANGED <<kernel, events, session, sessionTable, conntrackVars, handler, cleaner>>

-----------------------------------------------------------------------------
(***************************************************************************)
(* conntrackCallback: a single thread reads the events in order.           *)
(***************************************************************************)

HandlerCtid == CtidOf[handler.conn]

Handle(pc, e, stale, sess) ==
    handler' = IF pc = "idle" THEN IdleHandler
               ELSE [pc |-> pc, type |-> e.type, conn |-> e.conn, stale |-> stale, sess |-> sess]

\* What an event leads to when there is no conntrack entry, or none any more.
WithoutEntry(type) == IF type = "D" THEN "idle" ELSE IF type = "N" THEN "find" ELSE "insert"

\* Read the next event and look for its conntrack entry.
ReadEvent ==
    LET e == Head(events)
        entry == conntrackTable[CtidOf[e.conn]]
        next == IF entry = NoConntrack THEN WithoutEntry(e.type)
                ELSE IF e.type = "U" /\ SameTuple(e.conn, entry.conn) THEN "update" ELSE "rmct"
    IN  /\ handler.pc = "idle"
        /\ events # <<>>
        /\ ConntrackTableFree
        /\ events' = Tail(events)
        /\ Handle(next, e, entry.session, NoSession)
        /\ UNCHANGED <<kernel, sessionVars, conntrackVars, dict, packet, cleaner>>

\* removeConntrackStale, in three steps: the conntrack entry, ...
RemoveStaleConntrack ==
    /\ handler.pc = "rmct"
    /\ RemoveConntrack(HandlerCtid)
    /\ Handle("rmdict", handler, handler.stale, NoSession)
    /\ UNCHANGED <<kernel, events, sessionVars, dict, packet, cleaner>>

\* ... the dictionary entries of the ctid, whoever owns it by now, ...
RemoveStaleDict ==
    /\ handler.pc = "rmdict"
    /\ dict' = [dict EXCEPT ![HandlerCtid] = NoEntry]
    /\ Handle("rmsess", handler, handler.stale, NoSession)
    /\ UNCHANGED <<kernel, events, sessionVars, conntrackVars, packet, cleaner>>

\* ... and the session the removed entry points to.
RemoveStaleSession ==
    /\ handler.pc = "rmsess"
    /\ RemoveFromSessionTable(HandlerCtid, handler.stale)
    /\ Handle(WithoutEntry(handler.type), handler, NoSession, NoSession)
    /\ UNCHANGED <<kernel, events, session, conntrackVars, dict, packet, cleaner>>

\* Mutant of FindSessionForNew: the tuples are not compared.
FindAnySessionForNew ==
    LET s == sessionTable[HandlerCtid] IN
    /\ handler.pc = "find"
    /\ Handle(IF s = NoSession THEN "insert" ELSE "confirm", handler, NoSession, s)
    /\ UNCHANGED <<kernel, events, sessionVars, conntrackVars, dict, packet, cleaner>>

\* NEW: createConntrack, and the session the packet handler made, if any.
FindSessionForNew ==
    LET s == sessionTable[HandlerCtid]
        next == IF s = NoSession THEN "insert"
                ELSE IF SameTuple(handler.conn, session[s].conn) THEN "confirm" ELSE "flush"
    IN
    /\ handler.pc = "find"
    /\ Handle(next, handler, NoSession, s)
    /\ UNCHANGED <<kernel, events, sessionVars, conntrackVars, dict, packet, cleaner>>

\* NEW, tuples differ: the session found is taken to be no longer valid.
FlushMismatch ==
    /\ handler.pc = "flush"
    /\ FlushDict(HandlerCtid, handler.sess)
    /\ Handle("evict", handler, NoSession, handler.sess)
    /\ UNCHANGED <<kernel, events, sessionVars, conntrackVars, packet, cleaner>>

EvictMismatch ==
    /\ handler.pc = "evict"
    /\ RemoveFromSessionTable(HandlerCtid, handler.sess)
    /\ Handle("insert", handler, NoSession, NoSession)
    /\ UNCHANGED <<kernel, events, session, conntrackVars, dict, packet, cleaner>>

\* NEW, tuples agree: session and conntrack point to each other.
ConfirmSession ==
    /\ handler.pc = "confirm"
    /\ session' = [session EXCEPT ![handler.sess] =
                     [conn |-> session[handler.sess].conn, conntrack |-> handler.conn]]
    /\ Touch(HandlerCtid, handler.sess)
    /\ Handle("insert", handler, NoSession, handler.sess)
    /\ UNCHANGED <<kernel, events, sessionTable, conntrackVars, dict, packet, cleaner>>

\* NEW, and UPDATE of an unknown connection.  The subscribers that follow
\* (module Subscribers) touch neither table.
InsertNewConntrack ==
    /\ handler.pc = "insert"
    /\ InsertConntrack(HandlerCtid,
                       [conn |-> handler.conn, session |-> handler.sess])
    /\ handler' = IdleHandler
    /\ UNCHANGED <<kernel, events, sessionVars, dict, packet, cleaner>>

\* UPDATE of a known connection, under the entry's Guardian lock, which the
\* cleaner holds while it removes the entry.  The entry may have left the
\* table since it was found; it is then updated where nobody sees it.
UpdateConntrack ==
    LET c == HandlerCtid
    IN  /\ handler.pc = "update"
        /\ ~(cleaner.pc \in {"flush", "rmsess"} /\ CtidOf[cleaner.conn] = c)
        /\ conntrackIdle' = [conntrackIdle EXCEPT ![c] = 0]
        /\ Touch(c, handler.stale)
        /\ handler' = IdleHandler
        /\ UNCHANGED <<kernel, events, session, sessionTable, conntrackTable, dict, packet, cleaner>>

-----------------------------------------------------------------------------
(***************************************************************************)
(* cleanerTask: every 60 s cleanSessionTable, then cleanConntrackTable.    *)
(***************************************************************************)

Confirmed(s) == session[s].conntrack # NoConn

\* Mutant of Expired: sessions that were never confirmed are kept.
ConfirmedExpired(c) == Confirmed(sessionTable[c]) /\ sessionIdle[c] > 1

\* The session in the table at c has been idle for too long.
Expired(c) == sessionIdle[c] > (IF Confirmed(sessionTable[c]) THEN 1 ELSE 0)

Clean(pc, todo, entry) ==
    [pc |-> pc, todo |-> todo, conn |-> entry.conn, sess |-> entry.session]

\* The whole scan holds sessionMutex.
CleanSessionTable ==
    LET stale == {c \in Ctids : sessionTable[c] # NoSession /\ Expired(c)}
    IN  /\ cleaner.pc = "sleep"
        /\ sessionTable' = [c \in Ctids |-> IF c \in stale THEN NoSession ELSE sessionTable[c]]
        /\ sessionIdle' = [c \in Ctids |-> IF c \in stale THEN 0 ELSE sessionIdle[c]]
        /\ dict' = [c \in Ctids |-> IF c \in stale THEN NoEntry ELSE dict[c]]
        /\ cleaner' = Clean("conntracks", {}, NoConntrack)
        /\ UNCHANGED <<kernel, events, session, conntrackVars, packet, handler>>

\* The entries still to visit; after the last one the mutex is released.
Scan(todo) == IF todo = {} THEN Sleeping ELSE Clean("scan", todo, NoConntrack)

\* Take conntrackTableMutex and range over the table.
StartCleanConntrackTable ==
    /\ cleaner.pc = "conntracks"
    /\ cleaner' = Scan({c \in Ctids : conntrackTable[c] # NoConntrack})
    /\ UNCHANGED <<kernel, events, sessionVars, conntrackVars, dict, packet, handler>>

\* Visit one entry; a stale one is kept under its Guardian lock until removed.
CleanConntrackEntry(c) ==
    LET todo == cleaner.todo \ {c}
    IN  /\ cleaner.pc = "scan"
        /\ c \in cleaner.todo
        /\ cleaner' = IF conntrackIdle[c] = 2
                      THEN Clean("flush", todo, conntrackTable[c])
                      ELSE Scan(todo)
        /\ UNCHANGED <<kernel, events, sessionVars, conntrackVars, dict, packet, handler>>

CleanFlushDict ==
    /\ cleaner.pc = "flush"
    /\ FlushDict(CtidOf[cleaner.conn], cleaner.sess)
    /\ cleaner' = [pc |-> "rmsess", todo |-> cleaner.todo, conn |-> cleaner.conn,
                   sess |-> cleaner.sess]
    /\ UNCHANGED <<kernel, events, sessionVars, conntrackVars, packet, handler>>

CleanRemove ==
    LET c == CtidOf[cleaner.conn] IN
    /\ cleaner.pc = "rmsess"
    /\ RemoveFromSessionTable(c, cleaner.sess)
    /\ conntrackTable' = [conntrackTable EXCEPT ![c] = NoConntrack]
    /\ conntrackIdle' = [conntrackIdle EXCEPT ![c] = 0]
    /\ cleaner' = Scan(cleaner.todo)
    /\ UNCHANGED <<kernel, events, session, dict, packet, handler>>

-----------------------------------------------------------------------------
KernelStep ==
    \/ \E k \in Conns : \/ StartUnqueued(k)
                        \/ Confirm(k)
                        \/ Abandon(k)
                        \/ Dump(k)
                        \/ Destroy(k)
    \/ Tick

PacketArrives ==
    \E p \in Packets, k \in Conns : \/ FirstPacket(p, k)
                                   \/ \E isNew \in BOOLEAN : LaterPacket(p, k, isNew)

PacketStep(p) ==
    \/ BypassPacket(p)
    \/ EvictConflicting(p)
    \/ CreateSession(p)
    \/ RemovePreviousConntrack(p)
    \/ Deliver(p)

HandlerStep ==
    \/ ReadEvent
    \/ RemoveStaleConntrack
    \/ RemoveStaleDict
    \/ RemoveStaleSession
    \/ FindSessionForNew
    \/ FlushMismatch
    \/ EvictMismatch
    \/ ConfirmSession
    \/ InsertNewConntrack
    \/ UpdateConntrack

CleanerStep ==
    \/ CleanSessionTable
    \/ StartCleanConntrackTable
    \/ \E c \in Ctids : CleanConntrackEntry(c)
    \/ CleanFlushDict
    \/ CleanRemove

Next ==
    \/ KernelStep
    \/ PacketArrives
    \/ \E p \in Packets : PacketStep(p)
    \/ HandlerStep
    \/ CleanerStep

Spec == Init /\ [][Next]_vars

\* Time passes, the cleaner's timer keeps firing, and a goroutine that waits
\* for a mutex gets it in the end (Go's mutexes do not starve a waiter).  The
\* kernel owes nothing: connections may live for ever and events be lost.
FairSpec ==
    /\ Spec
    /\ WF_vars(Tick)
    /\ WF_vars(CleanerStep)
    /\ SF_vars(HandlerStep)
    /\ \A p \in Packets : SF_vars(PacketStep(p))

-----------------------------------------------------------------------------
(***************************************************************************)
(* Properties.                                                             *)
(***************************************************************************)

\* No connection has the tuple of another one on the same ctid.
TuplesDistinct ==
    \A k, l \in Conns : CtidOf[k] = CtidOf[l] /\ SameTuple(k, l) => k = l

Dead(s) == kernel[session[s].conn] = "dead"

\* What becomes of the table entry of c in one step is justified if the
\* entry's connection is dead, if another packet of the same connection put
\* its own session there, if the cleaner found the session or its conntrack
\* idle for too long, or if the conntrack thread is in the branch of a NEW
\* event whose tuple differs: conntrack.go concludes that the session is "not
\* valid anymore", but the event may be a late one of an earlier connection.
JustifiedEviction(c) ==
    LET s == sessionTable[c]
        t == sessionTable'[c]
    IN  \/ Dead(s)
        \/ t # NoSession /\ session'[t].conn = session[s].conn
        \/ cleaner.pc = "sleep" /\ Expired(c)
        \/ cleaner.pc = "rmsess" /\ cleaner.sess = s
        \/ handler.pc = "evict" /\ handler.sess = s

\* A late DELETE or UPDATE event, or a late packet, of one connection never
\* takes the session of a live connection that reuses the ctid out of
\* sessionTable: removeFromSessionTable's identity check suffices for it.
EvictionsJustified ==
    [][\A c \in Ctids :
         sessionTable[c] # NoSession /\ sessionTable'[c] # sessionTable[c]
           => JustifiedEviction(c)]_vars

\* A session is confirmed by the NEW event of its own connection only, and a
\* conntrack entry points only to a session of its own connection, although
\* both are looked up by a ctid that may have changed hands.
LinkedToOwnConnection ==
    /\ \A s \in 1..Len(session) : Confirmed(s) => session[s].conntrack = session[s].conn
    /\ \A c \in Ctids : LET e == conntrackTable[c] IN
         e.session # NoSession => session[e.session].conn = e.conn

\* The session_id that the dictionary shows for a ctid is never that of
\* another session than the one sessionTable holds for it.
DictShowsCurrentSession ==
    \A c \in Ctids : sessionTable[c] # NoSession
                       => dict[c].session_id \in {NoSession, sessionTable[c]}

Unused(c) == \A k \in Conns : CtidOf[k] = c => ~Live(k)

Forgotten(c) == sessionTable[c] = NoSession /\ conntrackTable[c] = NoConntrack

\* A ctid that no connection uses any more leaves both tables for good, also
\* when its DELETE event, or every event, was lost: the cleaner makes up for it.
NoLeak == \A c \in Ctids : <>[]Unused(c) => <>[]Forgotten(c)

=============================================================================
