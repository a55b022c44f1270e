----------------------------- MODULE HolderCache -----------------------------
(***************************************************************************)
(* The caches of certfetch (certificates) and revdns (names): a packet     *)
(* that finds nothing for its key inserts a holder and fetches what        *)
(* belongs into it; packets that find the holder wait for the fetch on the *)
(* holder's WaitGroup.  A mutex of the handler makes the lookup and the    *)
(* insertion one step for the other packets; a cleaner removes what is     *)
(* old from the table, under the mutex of the table.                       *)
(*                                                                         *)
(* A packet makes at most one holder, which has the packet's name here.    *)
(***************************************************************************)

CONSTANTS
    Packets,   \* first packets of sessions, each in a goroutine of its own
    Addrs,      \* addresses, for certfetch with a port
    KeyOf,     \* [Packets -> Addrs]
    Mutexes,   \* localMutex of certfetch; clientMutex and serverMutex of revdns
    MutexOf,   \* [Packets -> Mutexes]
    NoPacket   \* no packet

ASSUME CacheAssumption ==
    /\ KeyOf \in [Packets -> Addrs]
    /\ MutexOf \in [Packets -> Mutexes]
    /\ NoPacket \notin Packets

VARIABLES
    table,   \* [Addrs -> holder, or NoPacket]
    mutex,   \* [Mutexes -> the packet that holds it, or NoPacket]
    holder,  \* [Packets -> the holder that this packet made]
    packet   \* [Packets -> state of its goroutine]

cacheVars == <<table, mutex, holder, packet>>

\* waiting: fetches not finished, the count of the WaitGroup is 1.  old: the
\* time stamp is older than the cleaner's limit; a new holder's is zero, which
\* is older than any limit.
Holder == [waiting : BOOLEAN, available : BOOLEAN, old : BOOLEAN]

\* uses is the holder the packet works with, attached what it read from it.
PacketState ==
    [pc : {"idle", "insert", "fetch", "wait", "done"},
     uses : Packets \cup {NoPacket}, attached : BOOLEAN]

CacheTypeOK ==
    /\ table \in [Addrs -> Packets \cup {NoPacket}]
    /\ mutex \in [Mutexes -> Packets \cup {NoPacket}]
    /\ holder \in [Packets -> Holder]
    /\ packet \in [Packets -> PacketState]

NewHolder == [waiting |-> TRUE, available |-> FALSE, old |-> TRUE]

CacheInit ==
    /\ table = [k \in Addrs |-> NoPacket]
    /\ mutex = [m \in Mutexes |-> NoPacket]
    /\ holder = [p \in Packets |-> NewHolder]
    /\ packet = [p \in Packets |-> [pc |-> "idle", uses |-> NoPacket, attached |-> FALSE]]

-----------------------------------------------------------------------------
Continue(p, pc, h, attached) ==
    packet' = [packet EXCEPT ![p] = [pc |-> pc, uses |-> h, attached |-> attached]]

\* Mutant of Find: the handler's mutex is not locked.
FindUnlocked(p) ==
    LET h == table[KeyOf[p]] IN
    /\ packet[p].pc = "idle"
    /\ IF h # NoPacket THEN Continue(p, "wait", h, FALSE) ELSE Continue(p, "insert", p, FALSE)
    /\ UNCHANGED <<table, mutex, holder>>

\* Lock the handler's mutex and look up the key.  If a holder is found the
\* mutex is released at once.
Find(p) ==
    LET h == table[KeyOf[p]] IN
    /\ packet[p].pc = "idle"
    /\ mutex[MutexOf[p]] = NoPacket
    /\ IF h # NoPacket
       THEN Continue(p, "wait", h, FALSE) /\ UNCHANGED mutex
       ELSE Continue(p, "insert", p, FALSE) /\ mutex' = [mutex EXCEPT ![MutexOf[p]] = p]
    /\ UNCHANGED <<table, holder>>

\* insertReverse or InsertCertificate, which replace what is there; unlock.
Insert(p) ==
    /\ packet[p].pc = "insert"
    /\ table' = [table EXCEPT ![KeyOf[p]] = p]
    /\ mutex' = [mutex EXCEPT ![MutexOf[p]] = NoPacket]
    /\ Continue(p, "fetch", p, FALSE)
    /\ UNCHANGED holder

\* Mutant of Fetch: a fetch that fails forgets WaitGroup.Done.
FetchOrForget(p) ==
    /\ packet[p].pc = "fetch"
    /\ \E found \in BOOLEAN :
         holder' = [holder EXCEPT ![p] = [waiting |-> ~found, available |-> found, old |-> FALSE]]
    /\ Continue(p, "wait", p, FALSE)
    /\ UNCHANGED <<table, mutex>>

\* The lookup or the TLS connection ends, with or without a result.
Fetch(p) ==
    /\ packet[p].pc = "fetch"
    /\ \E found \in BOOLEAN :
         holder' = [holder EXCEPT ![p] = [waiting |-> FALSE, available |-> found, old |-> FALSE]]
    /\ Continue(p, "wait", p, FALSE)
    /\ UNCHANGED <<table, mutex>>

\* Mutant of Attach: the holder is used as soon as it is found.
AttachAtOnce(p) ==
    /\ packet[p].pc = "wait"
    /\ Continue(p, "done", packet[p].uses, holder[packet[p].uses].available)
    /\ UNCHANGED <<table, mutex, holder>>

\* WaitGroup.Wait, then attach what there is to the session.
Attach(p) ==
    /\ packet[p].pc = "wait"
    /\ ~holder[packet[p].uses].waiting
    /\ Continue(p, "done", packet[p].uses, holder[packet[p].uses].available)
    /\ UNCHANGED <<table, mutex, holder>>

\* Time passes beyond the cleaner's limit for a holder.
GrowOld(p) ==
    /\ ~holder[p].waiting
    /\ holder' = [holder EXCEPT ![p] = [waiting |-> FALSE, available |-> holder[p].available,
                                        old |-> TRUE]]
    /\ UNCHANGED <<table, mutex, packet>>

\* cleanReverseTable, cleanCertificateTable: all of it under the table's mutex.
Clean ==
    /\ table' = [k \in Addrs |-> IF table[k] # NoPacket /\ holder[table[k]].old THEN NoPacket ELSE table[k]]
    /\ UNCHANGED <<mutex, holder, packet>>

Step(p) == Find(p) \/ Insert(p) \/ Fetch(p) \/ Attach(p)

CacheNext == (\E p \in Packets : Step(p) \/ GrowOld(p)) \/ Clean

CacheSpec == CacheInit /\ [][CacheNext]_cacheVars

\* Goroutines run, a mutex is handed to who waits for it, and a fetch ends:
\* the dialer has a timeout and so has the resolver.
CacheFairSpec == CacheSpec /\ \A p \in Packets : SF_cacheVars(Step(p))

-----------------------------------------------------------------------------
\* The handler's mutex makes lookup and insertion one step: a packet never
\* replaces a holder of another packet, whose waiters would be left with a
\* holder that nobody else finds.  Only the cleaner takes holders away.
NeverReplaced == [][\A k \in Addrs : table[k] # NoPacket => table'[k] \in {table[k], NoPacket}]_cacheVars

\* A packet attaches exactly what the fetch for its own key brought, although
\* it may have found the holder before the fetch was done and the cleaner may
\* have removed it since.
AttachesFetched ==
    \A p \in Packets : packet[p].pc = "done" =>
        LET h == packet[p].uses IN
        /\ KeyOf[h] = KeyOf[p]
        /\ ~holder[h].waiting
        /\ packet[p].attached = holder[h].available

\* No packet waits for ever, whoever fetches and whatever the cleaner removes.
AllServed == \A p \in Packets : <>(packet[p].pc = "done")

=============================================================================
