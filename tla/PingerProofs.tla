----------------------------- MODULE PingerProofs ----------------------------
(***************************************************************************)
(* Proofs about the pinger of stats (module Pinger): its types, that every *)
(* ping has one fate, that a reply is matched with its own ping, and that  *)
(* only signals make pingerTask block on itself, for any number of         *)
(* interfaces, targets and pings.                                          *)
(***************************************************************************)
EXTENDS Pinger, FiniteSetTheorems, TLAPS

\* How many numbers have been used since number n was.
Behind(n) == IF n <= sequenceCounter THEN sequenceCounter - n ELSE sequenceCounter - n + Seqs - 1

\* The pings that failed are among those sent, and the pings of a batch are
\* within the bound on all.
WithinBounds ==
    /\ failed \subseteq 1..sent
    /\ pinger = "ping" => sent + Cardinality(todo) <= MaxPings

PingerTypeInv == PingerTypeOK /\ WithinBounds

\* Number zero is that of the failed pings, and of no other.
ZeroFailed == \A n \in 0..(Seqs - 1) : pingMap[n] # None => (pingMap[n].ping \in failed <=> n = 0)

\* No ping is outstanding twice.
EntriesDistinct ==
    \A m, n \in 0..(Seqs - 1) :
        m # n /\ pingMap[m] # None /\ pingMap[n] # None => pingMap[m].ping # pingMap[n].ping

\* At most one number is used per ping, and the rest of the batch does not come
\* round to a number that is in use.
EntriesSpaced ==
    \A n \in 1..(Seqs - 1) : pingMap[n] # None =>
        /\ pingMap[n].ping <= sent
        /\ Behind(n) <= sent - pingMap[n].ping
        /\ pinger = "ping" => sent - pingMap[n].ping + Cardinality(todo) < Seqs - 1

\* Replies on their way or just read.
InFlight == {r \in Reply \ {None, Reading} : r \in replies \/ \E s \in Socks : watcher[s] = r}

RepliesConsistent ==
    \A r \in InFlight :
        /\ r.ping <= sent
        /\ Behind(r.seq) <= sent - r.ping
        /\ pingMap[r.seq] = None \/ pingMap[r.seq].ping = r.ping

\* The message to the own task is sent to a channel that was found empty.
ChannelEmpty ==
    /\ hup # "idle" => hups > 0
    /\ pinger \in {"load", "refresh", "send"} /\ pingerChannel # <<>> =>
          hups > 0 \/ stop \in {"selectPinger", "returned"}

PingInv == ZeroFailed /\ EntriesDistinct /\ EntriesSpaced /\ RepliesConsistent /\ OneFate

\* The steps that leave the pings alone; a watcher may begin to read, or end.
PingsAlone ==
    /\ UNCHANGED <<pingVars, todo>>
    /\ pinger' = "ping" => pinger = "ping"
    /\ \A s \in Socks : watcher'[s] \in {watcher[s], None, Reading}

-----------------------------------------------------------------------------
(***************************************************************************)
(* Numbers, and how far they are behind.                                   *)
(***************************************************************************)
LEMMA BatchSize ==
    /\ \A S \in SUBSET (Faces \X Targets) :
          IsFiniteSet(S) /\ Cardinality(S) \in Nat /\ Cardinality(S) < Seqs
    /\ \A S \in SUBSET Faces : Cardinality(S) \in Nat
<1>1. /\ IsFiniteSet(Faces \X Targets)
      /\ Cardinality(Faces \X Targets) = Cardinality(Faces) * Cardinality(Targets)
  BY FS_Product, PingerAssumption
<1>2. \A S \in SUBSET (Faces \X Targets) :
          IsFiniteSet(S) /\ Cardinality(S) <= Cardinality(Faces \X Targets)
  BY <1>1, FS_Subset
<1>3. Cardinality(Faces) \in Nat /\ Cardinality(Targets) \in Nat /\ Cardinality(Faces \X Targets) \in Nat
  BY <1>1, FS_CardinalityType, PingerAssumption
<1>4. \A S \in SUBSET (Faces \X Targets) : Cardinality(S) \in Nat
  BY Zenon, <1>2, FS_CardinalityType
<1>5. Cardinality(Faces \X Targets) < Seqs
  BY <1>1, PingerAssumption
<1>6. \A S \in SUBSET Faces : Cardinality(S) \in Nat
  BY FS_Subset, FS_CardinalityType, PingerAssumption
<1> QED
  BY <1>2, <1>3, <1>4, <1>5, <1>6, PingerAssumption

\* Without the ping that is sent there is one less to send.
LEMMA OneLess ==
    ASSUME NEW S \in SUBSET (Faces \X Targets), NEW e \in S
    PROVE  /\ Cardinality(S \ {e}) = Cardinality(S) - 1
           /\ Cardinality(S) > 0
<1>1. IsFiniteSet(S) /\ Cardinality(S) \in Nat
  BY BatchSize
<1>2. Cardinality(S \ {e}) = Cardinality(S) - 1 /\ IsFiniteSet(S \ {e})
  BY <1>1, FS_RemoveElement
<1>3. Cardinality(S \ {e}) \in Nat
  BY <1>2, FS_CardinalityType
<1> QED
  BY <1>1, <1>2, <1>3

LEMMA NextNumber ==
    \A n \in 0..(Seqs - 1) :
        /\ nextSequenceNumber(n) \in 1..(Seqs - 1)
        /\ nextSequenceNumber(n) = IF n = Seqs - 1 THEN 1 ELSE n + 1
<1> SUFFICES ASSUME NEW n \in 0..(Seqs - 1)
             PROVE  nextSequenceNumber(n) = IF n = Seqs - 1 THEN 1 ELSE n + 1
  BY PingerAssumption
<1>1. CASE n = Seqs - 1
  <2>1. (n + 1) % Seqs = 0
    BY <1>1, PingerAssumption
  <2> QED
    BY <1>1, <2>1 DEF nextSequenceNumber
<1>2. CASE n # Seqs - 1
  <2>1. (n + 1) % Seqs = n + 1
    BY <1>2, PingerAssumption
  <2> QED
    BY <1>2, <2>1 DEF nextSequenceNumber
<1> QED
  BY <1>1, <1>2

\* When a number is used, the others are one more behind, and the number was the
\* farthest behind.
LEMMA Advance ==
    ASSUME PingerTypeInv, sequenceCounter' = nextSequenceNumber(sequenceCounter)
    PROVE  /\ sequenceCounter' \in 1..(Seqs - 1)
           /\ \A n \in 1..(Seqs - 1) :
                 /\ Behind(n)' <= Behind(n) + 1
                 /\ n = sequenceCounter' => Behind(n) = Seqs - 2 /\ Behind(n)' = 0
<1>1. /\ sequenceCounter' \in 1..(Seqs - 1)
      /\ sequenceCounter' = IF sequenceCounter = Seqs - 1 THEN 1 ELSE sequenceCounter + 1
      /\ sequenceCounter \in 0..(Seqs - 1)
  BY NextNumber DEF PingerTypeInv, PingerTypeOK
<1> QED
  BY <1>1, PingerAssumption DEF Behind

LEMMA BehindType ==
    ASSUME PingerTypeInv, NEW n \in 1..(Seqs - 1)
    PROVE  Behind(n) \in 0..Seqs
  BY PingerAssumption DEF Behind, PingerTypeInv, PingerTypeOK

LEMMA BehindTypeNext ==
    ASSUME PingerTypeInv', NEW n \in 1..(Seqs - 1)
    PROVE  Behind(n)' \in 0..Seqs
<1>1. sequenceCounter' \in 0..(Seqs - 1) /\ Seqs \in Nat
  BY Zenon, PingerAssumption DEF PingerTypeInv, PingerTypeOK
<1> DEFINE c == sequenceCounter'
           b == Behind(n)'
<1>2. b = IF n <= c THEN c - n ELSE c - n + Seqs - 1
  BY DEF Behind
<1> HIDE DEF b, c
<1>3. c \in 0..(Seqs - 1)
  BY <1>1 DEF c
<1>4. b \in 0..Seqs
  BY <1>1, <1>2, <1>3
<1> QED
  BY <1>4 DEF b

-----------------------------------------------------------------------------
(***************************************************************************)
(* The fates of the pings.                                                 *)
(***************************************************************************)
\* What OneFate says of each pair of fates.
LEMMA FatesApart ==
    ASSUME NEW A, NEW B, NEW C, NEW D
    PROVE  LET fates == <<A, B, C, D>>
           IN  /\ UNION {fates[i] : i \in 1..4} = A \cup B \cup C \cup D
               /\ (\A i, j \in 1..4 : i # j => fates[i] \cap fates[j] = {})
                  <=> /\ A \cap B = {} /\ A \cap C = {} /\ A \cap D = {}
                      /\ B \cap C = {} /\ B \cap D = {} /\ C \cap D = {}
<1> DEFINE fates == <<A, B, C, D>>
<1>1. 1..4 = {1, 2, 3, 4}
  OBVIOUS
<1>2. fates[1] = A /\ fates[2] = B /\ fates[3] = C /\ fates[4] = D
  OBVIOUS
<1> HIDE DEF fates
<1>3. UNION {fates[i] : i \in 1..4} = A \cup B \cup C \cup D
  BY Zenon, <1>1, <1>2
<1>4. (\A i, j \in 1..4 : i # j => fates[i] \cap fates[j] = {})
      <=> /\ A \cap B = {} /\ A \cap C = {} /\ A \cap D = {}
          /\ B \cap C = {} /\ B \cap D = {} /\ C \cap D = {}
  <2>1. (\A i, j \in 1..4 : i # j => fates[i] \cap fates[j] = {})
        <=> \A i, j \in {1, 2, 3, 4} : i # j => fates[i] \cap fates[j] = {}
    BY <1>1
  <2>2. 1 # 2 /\ 1 # 3 /\ 1 # 4 /\ 2 # 3 /\ 2 # 4 /\ 3 # 4
    OBVIOUS
  <2> QED
    BY <1>2, <2>1, <2>2
<1> QED
  BY <1>3, <1>4 DEF fates

\* OneFate as a conjunction, before and after a step.
Apart ==
    /\ Outstanding \cap answered = {} /\ Outstanding \cap timedOut = {}
    /\ Outstanding \cap forgotten = {} /\ answered \cap timedOut = {}
    /\ answered \cap forgotten = {} /\ timedOut \cap forgotten = {}
    /\ Outstanding \cup answered \cup timedOut \cup forgotten \subseteq 1..sent
    /\ (1..sent) \ failed \subseteq Outstanding \cup answered \cup timedOut \cup forgotten
    /\ failed \cap answered = {}

LEMMA ApartNow == OneFate <=> Apart
<1> DEFINE fates == <<Outstanding, answered, timedOut, forgotten>>
           counted == UNION {fates[i] : i \in 1..4}
           pairs == \A i, j \in 1..4 : i # j => fates[i] \cap fates[j] = {}
<1>1. /\ counted = Outstanding \cup answered \cup timedOut \cup forgotten
      /\ pairs <=> /\ Outstanding \cap answered = {} /\ Outstanding \cap timedOut = {}
                   /\ Outstanding \cap forgotten = {} /\ answered \cap timedOut = {}
                   /\ answered \cap forgotten = {} /\ timedOut \cap forgotten = {}
  BY FatesApart
<1>2. OneFate <=> /\ pairs /\ counted \subseteq 1..sent
                    /\ (1..sent) \ failed \subseteq counted /\ failed \cap answered = {}
  BY Zenon DEF OneFate
<1> HIDE DEF fates, counted, pairs
<1> QED
  BY Zenon, <1>1, <1>2 DEF Apart

LEMMA ApartNext == OneFate' <=> Apart'
<1> DEFINE fates == <<Outstanding', answered', timedOut', forgotten'>>
           counted == UNION {fates[i] : i \in 1..4}
           pairs == \A i, j \in 1..4 : i # j => fates[i] \cap fates[j] = {}
<1>1. /\ counted = Outstanding' \cup answered' \cup timedOut' \cup forgotten'
      /\ pairs <=> /\ Outstanding' \cap answered' = {} /\ Outstanding' \cap timedOut' = {}
                   /\ Outstanding' \cap forgotten' = {} /\ answered' \cap timedOut' = {}
                   /\ answered' \cap forgotten' = {} /\ timedOut' \cap forgotten' = {}
  BY FatesApart
<1>2. OneFate' <=> /\ pairs /\ counted \subseteq 1..sent'
                    /\ (1..sent') \ failed' \subseteq counted /\ failed' \cap answered' = {}
  BY Zenon DEF OneFate
<1> HIDE DEF fates, counted, pairs
<1> QED
  BY Zenon, <1>1, <1>2 DEF Apart

LEMMA OutstandingMember ==
    \A p : p \in Outstanding <=>
             \E n \in 0..(Seqs - 1) : pingMap[n] # None /\ pingMap[n].ping = p
  BY DEF Outstanding

-----------------------------------------------------------------------------
(***************************************************************************)
(* What each step does to the numbers, replies and fates.                  *)
(***************************************************************************)
\* A ping that is sent uses a number that nothing else uses.
LEMMA PingStep ==
    ASSUME PingerTypeInv, PingInv, NEW f \in Faces, NEW x \in Targets, Ping(f, x), PingerTypeInv'
    PROVE  PingInv'
<1> USE DEF PingInv
<1> DEFINE n == sequenceCounter'
           p == sent + 1
           entry == [face |-> f, ping |-> p]
           reply == [face |-> f, seq |-> n, ping |-> p]
<1>1. /\ pinger = "ping"
      /\ UNCHANGED <<pinger, watcher, answered, timedOut, forgotten, failed>>
      /\ sequenceCounter' = nextSequenceNumber(sequenceCounter)
      /\ pingMap' = [pingMap EXCEPT ![n] = entry]
      /\ replies' = {r \in replies : Recent(r.ping)} \cup {reply}
      /\ sent' = p
  BY DEF Ping
<1>2. \A s \in Socks : watcher[s] \notin {None, Reading} => Recent(watcher[s].ping)
  BY Zenon DEF Ping
<1>3. /\ n \in 1..(Seqs - 1) /\ n \in 0..(Seqs - 1)
      /\ \A m \in 1..(Seqs - 1) : Behind(m)' <= Behind(m) + 1
      /\ \A m \in 1..(Seqs - 1) : m = n => Behind(m) = Seqs - 2 /\ Behind(m)' = 0
  BY <1>1, Advance, PingerAssumption
<1>4. \A m \in 1..(Seqs - 1) : Behind(m) \in 0..Seqs /\ Behind(m)' \in 0..Seqs
  <2>1. \A m \in 1..(Seqs - 1) : Behind(m) \in 0..Seqs
    BY BehindType
  <2>2. \A m \in 1..(Seqs - 1) : Behind(m)' \in 0..Seqs
    BY BehindTypeNext
  <2> QED
    BY <2>1, <2>2
<1>5. /\ Cardinality(todo') = Cardinality(todo) - 1
      /\ Cardinality(todo) \in Nat /\ Cardinality(todo) > 0 /\ Cardinality(todo) < Seqs
  BY ZenonT(60), OneLess, BatchSize DEF Ping, PingerTypeInv, PingerTypeOK
<1>6. sent \in Nat /\ p \in Pings
  <2>1. sent' \in 0..MaxPings
    BY Zenon DEF PingerTypeInv, PingerTypeOK
  <2> QED
    BY SMTT(60), <1>1, <2>1, PingerAssumption DEF PingerTypeInv, PingerTypeOK, Pings
<1>7. entry # None /\ entry.ping = p /\ reply.seq = n /\ reply.ping = p
  <2>1. entry \in Entry
    BY <1>6 DEF Entry
  <2> QED
    BY Zenon, <2>1, EntryAssumption
<1>8. pingMap'[n] = entry /\ \A m \in 0..(Seqs - 1) : m # n => pingMap'[m] = pingMap[m]
  BY Zenon, <1>1, <1>3 DEF PingerTypeInv, PingerTypeOK
<1>9. \A m \in 1..(Seqs - 1) : pingMap[m] # None =>
         /\ pingMap[m].ping \in Nat
         /\ pingMap[m].ping <= sent
         /\ Behind(m) <= sent - pingMap[m].ping
         /\ sent - pingMap[m].ping + Cardinality(todo) < Seqs - 1
  <2>1. \A m \in 1..(Seqs - 1) : pingMap[m] # None => pingMap[m].ping \in Nat
    BY SMTT(60), PingerAssumption DEF PingerTypeInv, PingerTypeOK, Entry, Pings
  <2> QED
    BY Zenon, <1>1, <2>1 DEF EntriesSpaced
<1>10. pingMap[n] = None
  BY <1>3, <1>4, <1>5, <1>6, <1>9, PingerAssumption
<1>11. p > sent /\ p \in Nat /\ p \notin failed /\ n # 0
  BY SMTT(60), <1>3, <1>6 DEF PingerTypeInv, WithinBounds
<1> HIDE DEF entry, reply, n, p
<1>12. EntriesDistinct'
  <2>1. \A m \in 0..(Seqs - 1) : pingMap[m] # None => pingMap[m].ping # p
    <3> SUFFICES ASSUME NEW m \in 0..(Seqs - 1), pingMap[m] # None PROVE pingMap[m].ping # p
      BY Zenon
    <3>1. CASE m = 0
      BY Zenon, <1>11, <3>1 DEF ZeroFailed
    <3>2. CASE m # 0
      BY SMTT(60), <1>6, <1>9, <1>11, <3>2
    <3> QED
      BY Zenon, <3>1, <3>2
  <2> QED
    BY <1>7, <1>8, <2>1 DEF EntriesDistinct
<1>13. EntriesSpaced'
  <2> SUFFICES ASSUME NEW m \in 1..(Seqs - 1), pingMap'[m] # None
               PROVE  /\ pingMap'[m].ping <= p
                      /\ Behind(m)' <= p - pingMap'[m].ping
                      /\ p - pingMap'[m].ping + Cardinality(todo') < Seqs - 1
    BY Zenon, <1>1 DEF EntriesSpaced
  <2>1. CASE m = n
    BY SMTT(60), <1>3, <1>5, <1>7, <1>8, <1>11, <2>1, PingerAssumption
  <2>2. CASE m # n
    <3>1. pingMap'[m] = pingMap[m] /\ pingMap[m] # None
      BY <1>8, <2>2, PingerAssumption
    <3>2. p = sent + 1
      BY DEF p
    <3> QED
      BY SMTT(60), <1>3, <1>4, <1>5, <1>6, <1>9, <3>1, <3>2, PingerAssumption
  <2> QED
    BY Zenon, <2>1, <2>2
<1>14. RepliesConsistent'
  <2> SUFFICES ASSUME NEW r \in InFlight'
               PROVE  /\ r.ping <= p
                      /\ Behind(r.seq)' <= p - r.ping
                      /\ pingMap'[r.seq] = None \/ pingMap'[r.seq].ping = r.ping
    BY Zenon, <1>1 DEF RepliesConsistent
  <2>1. CASE r = reply
    BY SMTT(60), <1>3, <1>7, <1>8, <1>11, <2>1
  <2>2. CASE r # reply
    <3>1. r \in InFlight /\ Recent(r.ping)
      BY ZenonT(60), <1>1, <1>2, <2>2 DEF InFlight
    <3>2. r.seq \in 1..(Seqs - 1) /\ r.ping \in Nat
      BY SMTT(60), <3>1 DEF InFlight, Reply, Pings
    <3>3. /\ r.ping <= sent
          /\ Behind(r.seq) <= sent - r.ping
          /\ pingMap[r.seq] = None \/ pingMap[r.seq].ping = r.ping
      BY Zenon, <3>1 DEF RepliesConsistent
    <3>4. sent - r.ping < Seqs - 2 /\ p = sent + 1
      BY SMTT(60), <1>6, <3>1, <3>2, PingerAssumption DEF Recent, p
    <3>5. r.seq # n
      BY SMTT(60), <1>3, <1>4, <1>6, <3>2, <3>3, <3>4, PingerAssumption
    <3>6. pingMap'[r.seq] = pingMap[r.seq]
      BY SMTT(60), <1>8, <3>2, <3>5, PingerAssumption
    <3>7. r.ping <= p /\ Behind(r.seq)' <= p - r.ping
      BY SMTT(60), <1>3, <1>4, <1>6, <3>2, <3>3, <3>4, PingerAssumption
    <3> QED
      BY Zenon, <3>3, <3>6, <3>7
  <2> QED
    BY Zenon, <2>1, <2>2
<1>15. OneFate'
  <2>1. Apart
    BY Zenon, ApartNow
  <2>2. Outstanding' = Outstanding \cup {p}
    BY <1>3, <1>6, <1>7, <1>8, <1>10 DEF Outstanding
  <2> DEFINE all == 1..sent
  <2>3. 1..sent' = all \cup {p} /\ p \notin all
    BY SMTT(60), <1>1, <1>6 DEF p
  <2>4. /\ Outstanding \cup answered \cup timedOut \cup forgotten \subseteq all
        /\ all \ failed \subseteq Outstanding \cup answered \cup timedOut \cup forgotten
    BY Zenon, <2>1 DEF Apart
  <2> HIDE DEF all
  <2>5. Apart'
    BY <1>1, <2>1, <2>2, <2>3, <2>4 DEF Apart
  <2> QED
    BY Zenon, <2>5, ApartNext
<1>16. ZeroFailed'
  <2> SUFFICES ASSUME NEW m \in 0..(Seqs - 1), pingMap'[m] # None
               PROVE  pingMap'[m].ping \in failed' <=> m = 0
    BY Zenon DEF ZeroFailed
  <2>1. failed' = failed
    BY Zenon, <1>1
  <2>2. CASE m = n
    BY Zenon, <1>7, <1>8, <1>11, <2>1, <2>2
  <2>3. CASE m # n
    BY Zenon, <1>8, <2>1, <2>3 DEF ZeroFailed
  <2> QED
    BY Zenon, <2>2, <2>3
<1> QED
  BY Zenon, <1>12, <1>13, <1>14, <1>15, <1>16

\* A failed ping takes the place of the one that failed before it, under zero, and
\* may use up a number.
LEMMA FailStep ==
    ASSUME PingerTypeInv, PingInv, NEW f \in Faces, NEW x \in Targets, PingFails(f, x), PingerTypeInv'
    PROVE  PingInv'
<1> USE DEF PingInv
<1>1. /\ pinger = "ping"
      /\ UNCHANGED <<pinger, replies, watcher, answered, timedOut, forgotten>>
      /\ pingMap' = [pingMap EXCEPT ![0] = [face |-> f, ping |-> sent + 1]]
      /\ sent' = sent + 1
      /\ failed' = failed \cup {sent + 1}
  BY Zenon DEF PingFails
<1>2. 0 \in 0..(Seqs - 1) /\ sent \in Nat
  BY SMTT(60), PingerAssumption DEF PingerTypeInv, PingerTypeOK
<1>3. pingMap'[0].ping = sent + 1 /\ \A n \in 0..(Seqs - 1) : n # 0 => pingMap'[n] = pingMap[n]
  <2>1. pingMap'[0] = [face |-> f, ping |-> sent + 1]
    BY Zenon, <1>1, <1>2 DEF PingerTypeInv, PingerTypeOK
  <2>2. \A n \in 0..(Seqs - 1) : n # 0 => pingMap'[n] = pingMap[n]
    BY Zenon, <1>1 DEF PingerTypeInv, PingerTypeOK
  <2> QED
    BY <2>1, <2>2
<1>4. Cardinality(todo') = Cardinality(todo) - 1 /\ Cardinality(todo) \in Nat
  BY Zenon, OneLess, BatchSize DEF PingFails, PingerTypeInv, PingerTypeOK
<1>5. \A n \in 1..(Seqs - 1) : Behind(n)' <= Behind(n) + 1 /\ Behind(n) \in 0..Seqs /\ Behind(n)' \in 0..Seqs
  <2>1. \A n \in 1..(Seqs - 1) : Behind(n) \in 0..Seqs
    BY BehindType
  <2>2. \A n \in 1..(Seqs - 1) : Behind(n)' \in 0..Seqs
    BY BehindTypeNext
  <2>3. CASE sequenceCounter' = sequenceCounter
    BY <2>1, <2>2, <2>3 DEF Behind
  <2>4. CASE sequenceCounter' = nextSequenceNumber(sequenceCounter)
    BY Zenon, <2>1, <2>2, <2>4, Advance
  <2> QED
    BY Zenon, <2>3, <2>4 DEF PingFails
<1>6. EntriesDistinct' /\ ZeroFailed'
  <2>1. \A n \in 0..(Seqs - 1) : n # 0 /\ pingMap[n] # None => pingMap[n].ping # sent + 1
    <3>1. \A n \in 0..(Seqs - 1) : n # 0 => n \in 1..(Seqs - 1)
      OBVIOUS
    <3>2. \A n \in 1..(Seqs - 1) : pingMap[n] # None => pingMap[n].ping <= sent
      BY Zenon DEF EntriesSpaced
    <3>3. ~(sent + 1 <= sent)
      BY <1>2
    <3> QED
      BY Zenon, <3>1, <3>2, <3>3
  <2>2. ZeroFailed'
    <3>1. failed' = failed \cup {sent + 1}
      BY Zenon, <1>1
    <3> QED
      BY Zenon, <1>3, <2>1, <3>1 DEF ZeroFailed
  <2> QED
    BY Zenon, <1>3, <2>1, <2>2 DEF EntriesDistinct
<1>7. EntriesSpaced'
  <2> SUFFICES ASSUME NEW n \in 1..(Seqs - 1), pingMap'[n] # None
               PROVE  /\ pingMap'[n].ping <= sent'
                      /\ Behind(n)' <= sent' - pingMap'[n].ping
                      /\ sent' - pingMap'[n].ping + Cardinality(todo') < Seqs - 1
    BY Zenon DEF EntriesSpaced
  <2>1. pingMap'[n] = pingMap[n] /\ pingMap[n] # None
    BY SMTT(60), <1>3, PingerAssumption
  <2>2. pingMap[n].ping \in Nat
    BY SMTT(60), <2>1, PingerAssumption DEF PingerTypeInv, PingerTypeOK, Entry, Pings
  <2>3. /\ pingMap[n].ping <= sent
        /\ Behind(n) <= sent - pingMap[n].ping
        /\ sent - pingMap[n].ping + Cardinality(todo) < Seqs - 1
    BY Zenon, <1>1, <2>1 DEF EntriesSpaced
  <2> QED
    BY SMTT(60), <1>1, <1>2, <1>4, <1>5, <2>1, <2>2, <2>3, PingerAssumption
<1>8. RepliesConsistent'
  <2> SUFFICES ASSUME NEW r \in InFlight
               PROVE  /\ r.ping <= sent'
                      /\ Behind(r.seq)' <= sent' - r.ping
                      /\ pingMap'[r.seq] = None \/ pingMap'[r.seq].ping = r.ping
    <3>1. InFlight' = InFlight
      BY ZenonT(60), <1>1 DEF InFlight
    <3> QED
      BY <3>1 DEF RepliesConsistent
  <2>1. r.seq \in 1..(Seqs - 1) /\ r.ping \in Nat
    BY DEF InFlight, Reply, Pings
  <2>2. /\ r.ping <= sent
        /\ Behind(r.seq) <= sent - r.ping
        /\ pingMap[r.seq] = None \/ pingMap[r.seq].ping = r.ping
    BY Zenon DEF RepliesConsistent
  <2>3. pingMap'[r.seq] = pingMap[r.seq]
    BY <1>3, <2>1, PingerAssumption
  <2>4. r.ping <= sent' /\ Behind(r.seq)' <= sent' - r.ping
    BY <1>1, <1>2, <1>5, <2>1, <2>2, PingerAssumption
  <2> QED
    BY Zenon, <2>2, <2>3, <2>4
<1>9. OneFate'
  <2>1. Apart
    BY Zenon, ApartNow
  <2> DEFINE p == sent + 1
             all == 1..sent
  <2>2. Outstanding' \subseteq Outstanding \cup {p} /\ Outstanding \ failed \subseteq Outstanding'
    <3>1. pingMap[0] # None => pingMap[0].ping \in failed
      BY Zenon, <1>2 DEF ZeroFailed
    <3> QED
      BY Zenon, <1>2, <1>3, <3>1 DEF Outstanding
  <2>3. 1..sent' = all \cup {p} /\ p \notin all
    BY <1>1, <1>2
  <2>4. failed' = failed \cup {p}
    BY Zenon, <1>1
  <2>5. /\ Outstanding \cup answered \cup timedOut \cup forgotten \subseteq all
        /\ all \ failed \subseteq Outstanding \cup answered \cup timedOut \cup forgotten
    BY Zenon, <2>1 DEF Apart
  <2> HIDE DEF p, all
  <2>6. Apart'
    BY SMTT(60), <1>1, <2>1, <2>2, <2>3, <2>4, <2>5 DEF Apart
  <2> QED
    BY Zenon, <2>6, ApartNext
<1> QED
  BY Zenon, <1>6, <1>7, <1>8, <1>9

\* The ping that a reply is matched with leaves the map and is answered.
LEMMA MatchStep ==
    ASSUME PingerTypeInv, PingInv, NEW s \in Socks, Match(s), PingerTypeInv'
    PROVE  PingInv'
<1> USE DEF PingInv
<1> DEFINE n == watcher[s].seq
<1>1. n \in 1..(Seqs - 1) /\ n \in 0..(Seqs - 1)
  BY SMTT(60) DEF Match, PingerTypeInv, PingerTypeOK, Reply
<1>2. /\ UNCHANGED <<sequenceCounter, sent, replies, timedOut, forgotten, failed, pinger, todo>>
      /\ pingMap' = [pingMap EXCEPT ![n] = None]
      /\ answered' = IF pingMap[n] = None THEN answered ELSE answered \cup {pingMap[n].ping}
      /\ watcher' = [watcher EXCEPT ![s] = Reading]
  BY Zenon DEF Match, pinVars
<1> HIDE DEF n
<1>3. pingMap'[n] = None /\ \A m \in 0..(Seqs - 1) : m # n => pingMap'[m] = pingMap[m]
  BY Zenon, <1>1, <1>2 DEF PingerTypeInv, PingerTypeOK
<1>4. EntriesDistinct' /\ ZeroFailed'
  <2>1. failed' = failed
    BY Zenon, <1>2
  <2> QED
    BY Zenon, <1>3, <2>1 DEF EntriesDistinct, ZeroFailed
<1>5. EntriesSpaced'
  BY SMTT(60), <1>2, <1>3 DEF EntriesSpaced, Behind
<1>6. RepliesConsistent'
  <2>1. \A t \in Socks : watcher'[t] \in {watcher[t], Reading}
    BY Zenon, <1>2 DEF PingerTypeInv, PingerTypeOK
  <2>2. InFlight' \subseteq InFlight
    BY Zenon, <1>2, <2>1 DEF InFlight
  <2>3. \A r \in InFlight : r.seq \in 0..(Seqs - 1)
    BY DEF InFlight, Reply
  <2> QED
    BY ZenonT(60), <1>2, <1>3, <2>2, <2>3 DEF RepliesConsistent, Behind
<1>7. OneFate'
  <2>1. Apart
    BY Zenon, ApartNow
  <2>2. CASE pingMap[n] = None
    <3>1. \A m \in 0..(Seqs - 1) : pingMap'[m] = pingMap[m]
      BY Zenon, <1>3, <2>2
    <3>2. Outstanding' = Outstanding
      BY <3>1 DEF Outstanding
    <3> QED
      BY Zenon, <1>2, <2>2, <3>2 DEF OneFate
  <2>3. CASE pingMap[n] # None
    <3> DEFINE q == pingMap[n].ping
    <3>1. q \notin failed
      <4>1. n # 0
        BY <1>1
      <4> QED
        BY Zenon, <1>1, <2>3, <4>1 DEF ZeroFailed
    <3>2. \A m \in 0..(Seqs - 1) : m # n /\ pingMap[m] # None => pingMap[m].ping # q
      BY Zenon, <1>1, <2>3 DEF EntriesDistinct
    <3> HIDE DEF q
    <3>3. q \in Outstanding
      BY Zenon, <1>1, <2>3, OutstandingMember DEF q
    <3>4. Outstanding' = Outstanding \ {q}
      BY Zenon, <1>1, <1>3, <3>2 DEF Outstanding, q
    <3>5. answered' = answered \cup {q}
      BY Zenon, <1>2, <2>3 DEF q
    <3>6. Apart'
      BY <1>2, <2>1, <3>1, <3>3, <3>4, <3>5 DEF Apart
    <3> QED
      BY Zenon, <3>6, ApartNext
  <2> QED
    BY Zenon, <2>2, <2>3
<1> QED
  BY ZenonT(60), <1>4, <1>5, <1>6, <1>7

\* The map is made anew; its pings have timed out or are forgotten.
LEMMA EmptyStep ==
    ASSUME PingerTypeInv, PingInv, Receive \/ WorkerCounts, PingerTypeInv'
    PROVE  PingInv'
<1> USE DEF PingInv
<1>1. /\ UNCHANGED <<sequenceCounter, sent, replies, answered, failed, watcher>>
      /\ pingMap' = NoPings
      /\ \/ timedOut' = timedOut \cup Outstanding /\ forgotten' = forgotten
         \/ forgotten' = forgotten \cup Outstanding /\ timedOut' = timedOut
  BY Zenon DEF Receive, WorkerCounts
<1>2. \A n \in 0..(Seqs - 1) : pingMap'[n] = None
  BY Zenon, <1>1 DEF NoPings
<1>3. EntriesDistinct' /\ ZeroFailed'
  BY Zenon, <1>2 DEF EntriesDistinct, ZeroFailed
<1>4. EntriesSpaced'
  BY <1>2 DEF EntriesSpaced
<1>5. RepliesConsistent'
  <2>1. InFlight' = InFlight
    BY Zenon, <1>1 DEF InFlight
  <2>2. \A r \in InFlight : r.seq \in 0..(Seqs - 1)
    BY DEF InFlight, Reply
  <2> QED
    BY Zenon, <1>1, <1>2, <2>1, <2>2 DEF RepliesConsistent, Behind
<1>6. OneFate'
  <2>1. Outstanding' = {}
    BY Zenon, <1>2 DEF Outstanding
  <2>2. Apart
    BY Zenon, ApartNow
  <2>3. Apart'
    BY Zenon, <1>1, <2>1, <2>2 DEF Apart
  <2> QED
    BY Zenon, <2>3, ApartNext
<1> QED
  BY Zenon, <1>3, <1>4, <1>5, <1>6

LEMMA ReadStep ==
    ASSUME PingerTypeInv, PingInv, NEW s \in Socks, Read(s)
    PROVE  PingInv'
<1> USE DEF PingInv
<1>1. UNCHANGED <<pingMap, sequenceCounter, sent, replies, answered, timedOut, forgotten, failed, todo, pinger>>
  BY DEF Read, pingVars, pinVars
<1>2. PICK r \in replies : watcher' = [watcher EXCEPT ![s] = r]
  BY Zenon DEF Read
<1>3. ZeroFailed' /\ EntriesDistinct' /\ EntriesSpaced' /\ OneFate'
  <2>1. Outstanding' = Outstanding
    BY <1>1 DEF Outstanding
  <2>2. ZeroFailed' /\ EntriesDistinct' /\ EntriesSpaced'
    BY Zenon, <1>1 DEF ZeroFailed, EntriesDistinct, EntriesSpaced, Behind
  <2> QED
    BY Zenon, <1>1, <2>1, <2>2 DEF OneFate
<1>4. \A t \in Socks : watcher'[t] \in {watcher[t], r}
  BY Zenon, <1>2 DEF PingerTypeInv, PingerTypeOK
<1>5. InFlight' \subseteq InFlight
  BY Zenon, <1>1, <1>4 DEF InFlight
<1>6. RepliesConsistent'
  BY Zenon, <1>1, <1>5 DEF RepliesConsistent, Behind
<1> QED
  BY ZenonT(60), <1>3, <1>6

LEMMA AloneStep ==
    ASSUME PingerTypeInv, PingInv, PingsAlone, PingerTypeInv'
    PROVE  PingInv'
<1> USE DEF PingInv
<1>1. UNCHANGED <<pingMap, sequenceCounter, sent, replies, answered, timedOut, forgotten, failed, todo>>
  BY DEF PingsAlone, pingVars
<1>2. EntriesDistinct' /\ ZeroFailed'
  BY Zenon, <1>1 DEF EntriesDistinct, ZeroFailed
<1>3. EntriesSpaced'
  BY Zenon, <1>1 DEF EntriesSpaced, Behind, PingsAlone
<1>4. RepliesConsistent'
  <2>1. InFlight' \subseteq InFlight
    BY Zenon, <1>1 DEF PingsAlone, InFlight
  <2> QED
    BY Zenon, <1>1, <2>1 DEF RepliesConsistent, Behind
<1>5. OneFate'
  <2>1. Outstanding' = Outstanding
    BY Zenon, <1>1 DEF Outstanding
  <2> QED
    BY Zenon, <1>1, <2>1 DEF OneFate
<1> QED
  BY Zenon, <1>2, <1>3, <1>4, <1>5

-----------------------------------------------------------------------------
(***************************************************************************)
(* Types.                                                                  *)
(***************************************************************************)
LEMMA PingerInitType == PingerInit => PingerTypeInv
<1> SUFFICES ASSUME PingerInit PROVE PingerTypeInv
  BY Zenon
<1>1. 0 \in Addresses /\ 0 \in 0..MaxTroubles
  BY PingerAssumption DEF Addresses
<1>2. sent \in 0..MaxPings /\ answered = 1..sent
  BY Zenon DEF PingerInit
<1>3. answered \subseteq Pings
  BY <1>2, PingerAssumption DEF Pings
<1>4. PingerTypeOK
  BY Zenon, <1>1, <1>3 DEF PingerInit, PingerTypeOK
<1>5. WithinBounds
  BY DEF PingerInit, WithinBounds
<1> QED
  BY Zenon, <1>4, <1>5 DEF PingerTypeInv

\* What the actions compute is well typed.
LEMMA PingerValues ==
    ASSUME PingerTypeOK, WithinBounds
    PROVE  /\ Outstanding \subseteq Pings
           /\ NoPings \in [0..(Seqs - 1) -> Entry \cup {None}]
           /\ Room(1) => changes + 1 \in Addresses /\ hups + 1 \in 0..MaxTroubles
           /\ nextSequenceNumber(sequenceCounter) \in 0..(Seqs - 1)
           /\ pinger = "ping" /\ todo # {} => sent + 1 \in 0..MaxPings /\ sent + 1 \in Pings
<1>1. Outstanding \subseteq Pings
  BY DEF PingerTypeOK, Outstanding, Entry
<1>2. NoPings \in [0..(Seqs - 1) -> Entry \cup {None}]
  BY Zenon DEF NoPings
<1>3. Room(1) => changes + 1 \in Addresses /\ hups + 1 \in 0..MaxTroubles
  <2>1. changes \in 0..MaxTroubles /\ hups \in 0..MaxTroubles /\ failures \in 0..MaxTroubles
    BY Zenon DEF PingerTypeOK
  <2> QED
    BY <2>1, PingerAssumption DEF Room, Addresses
<1>4. nextSequenceNumber(sequenceCounter) \in 0..(Seqs - 1)
  BY NextNumber, PingerAssumption DEF PingerTypeOK
<1>5. ASSUME pinger = "ping", todo # {}
      PROVE  sent + 1 \in 0..MaxPings /\ sent + 1 \in Pings
  <2>1. todo \in SUBSET (Faces \X Targets)
    BY DEF PingerTypeOK
  <2>2. Cardinality(todo) \in Nat /\ Cardinality(todo) > 0
    BY Zenon, <2>1, <1>5, BatchSize, OneLess
  <2>3. sent \in 0..MaxPings /\ sent + Cardinality(todo) <= MaxPings
    BY Zenon, <1>5 DEF PingerTypeOK, WithinBounds
  <2> QED
    BY <2>2, <2>3, PingerAssumption DEF Pings
<1> QED
  BY ZenonT(60), <1>1, <1>2, <1>3, <1>4, <1>5

LEMMA FailTypes ==
    ASSUME PingerTypeOK, NEW n \in Nat, Fail(n)
    PROVE  failures' \in 0..MaxTroubles
<1>1. changes \in 0..MaxTroubles /\ hups \in 0..MaxTroubles /\ failures \in 0..MaxTroubles
  BY Zenon DEF PingerTypeOK
<1> QED
  BY <1>1, PingerAssumption DEF Fail, Room

LEMMA CheckTypes ==
    ASSUME PingerTypeOK, checkForNoChanges
    PROVE  hash' \in [Faces -> BOOLEAN] /\ failures' \in 0..MaxTroubles
<1>1. 1 \in Nat
  OBVIOUS
<1> QED
  BY Zenon, <1>1, FailTypes DEF checkForNoChanges, PingerTypeOK

LEMMA RefreshTypes ==
    ASSUME PingerTypeOK, refreshActivePingInfo
    PROVE  detail' \in [Faces -> Addresses \cup {None}] /\ failures' \in 0..MaxTroubles
<1>1. CASE Fail(1) /\ UNCHANGED detail
  <2>1. 1 \in Nat
    OBVIOUS
  <2> QED
    BY Zenon, <1>1, <2>1, FailTypes DEF PingerTypeOK
<1>2. ASSUME NEW unlisted \in SUBSET Faces, NEW unread \in SUBSET Faces,
             Fail(Cardinality(unread)),
             detail' = [f \in Faces |-> IF f \in unlisted THEN detail[f]
                                        ELSE IF f \in unread THEN None ELSE addr[f]]
      PROVE  detail' \in [Faces -> Addresses \cup {None}] /\ failures' \in 0..MaxTroubles
  <2>1. Cardinality(unread) \in Nat
    BY Zenon, BatchSize
  <2>2. failures' \in 0..MaxTroubles
    BY Zenon, <1>2, <2>1, FailTypes
  <2> QED
    BY Zenon, <1>2, <2>2 DEF PingerTypeOK
<1> QED
  BY Zenon, <1>1, <1>2 DEF refreshActivePingInfo

LEMMA OpenTypes ==
    ASSUME PingerTypeOK, openNetworkSockets
    PROVE  PingerTypeOK' /\ \A s \in Socks : watcher'[s] \in {watcher[s], Reading}
<1> DEFINE wanted == {f \in Faces : detail[f] # None /\ detail[f] = addr[f]}
           unopened(opened) == Cardinality(wanted \ opened)
           assignments(opened) == {h \in [opened -> {s \in Socks : watcher[s] = None}] :
                                      \A f, g \in opened : f # g => h[f] # h[g]}
<1>1. PICK opened \in SUBSET wanted :
        LET sock == CHOOSE h \in assignments(opened) : TRUE
            new == {sock[f] : f \in opened}
        IN  /\ assignments(opened) # {}
            /\ Fail(unopened(opened))
            /\ socketList' = [f \in Faces |-> IF f \in opened THEN sock[f] ELSE None]
            /\ boundTo' = [s \in Socks |-> IF s \in new THEN detail[CHOOSE f \in opened : sock[f] = s]
                                           ELSE boundTo[s]]
            /\ closed' = closed \ new
            /\ watcher' = [s \in Socks |-> IF s \in new THEN Reading ELSE watcher[s]]
  BY Zenon DEF openNetworkSockets
<1> DEFINE sock == CHOOSE h \in assignments(opened) : TRUE
<1>2. sock \in assignments(opened)
  BY Zenon, <1>1
<1>3. sock \in [opened -> Socks] /\ opened \subseteq Faces
  BY Zenon, <1>2
<1>4. Fail(unopened(opened))
  BY Zenon, <1>1
<1>5. unopened(opened) \in Nat
  BY Zenon, BatchSize
<1> HIDE DEF unopened
<1>6. failures' \in 0..MaxTroubles
  BY Zenon, <1>4, <1>5, FailTypes
<1> HIDE DEF sock
<1> DEFINE new == {sock[f] : f \in opened}
<1>7. /\ socketList' = [f \in Faces |-> IF f \in opened THEN sock[f] ELSE None]
      /\ boundTo' = [s \in Socks |-> IF s \in new THEN detail[CHOOSE f \in opened : sock[f] = s]
                                     ELSE boundTo[s]]
      /\ closed' = closed \ new
      /\ watcher' = [s \in Socks |-> IF s \in new THEN Reading ELSE watcher[s]]
  BY <1>1 DEF sock
<1>8. socketList' \in [Faces -> Socks \cup {None}]
  BY Zenon, <1>3, <1>7
<1>9. boundTo' \in [Socks -> Addresses \cup {None}]
  <2>1. ASSUME NEW s \in new PROVE detail[CHOOSE f \in opened : sock[f] = s] \in Addresses \cup {None}
    <3>1. (CHOOSE f \in opened : sock[f] = s) \in opened
      BY Zenon
    <3> QED
      BY Zenon, <3>1, <1>3 DEF PingerTypeOK
  <2> HIDE DEF new
  <2> QED
    BY Zenon, <2>1, <1>7 DEF PingerTypeOK
<1>10. closed' \subseteq Socks
  BY Zenon, <1>7 DEF PingerTypeOK
<1>11. /\ watcher' \in [Socks -> {None, Reading} \cup Reply]
       /\ \A s \in Socks : watcher'[s] \in {watcher[s], Reading}
  BY ZenonT(60), <1>7 DEF PingerTypeOK
<1>12. pinger' = "select" /\ UNCHANGED <<networkVars, pingVars, todo, hash, detail, controlVars>>
  BY Zenon DEF openNetworkSockets
<1> QED
  BY Zenon, <1>6, <1>8, <1>9, <1>10, <1>11, <1>12
     DEF PingerTypeOK, networkVars, pingVars, controlVars

\* The parts of the state: the pings themselves, and the rest.
LEMMA PingTypes ==
    ASSUME PingerTypeInv, NEW f \in Faces, NEW x \in Targets, Ping(f, x) \/ PingFails(f, x)
    PROVE  PingerTypeInv'
<1> USE DEF PingerTypeInv
<1>1. /\ pinger = "ping" /\ <<f, x>> \in todo /\ todo' = todo \ {<<f, x>>} /\ sent' = sent + 1
      /\ UNCHANGED <<networkVars, sockVars, pinger, hash, detail, controlVars, watcher, answered, timedOut, forgotten>>
  BY Zenon DEF Ping, PingFails
<1>2. sent + 1 \in 0..MaxPings /\ sent + 1 \in Pings
  BY Zenon, <1>1, PingerValues
<1>3. [face |-> f, ping |-> sent + 1] \in Entry
  BY <1>2 DEF Entry
<1>4. /\ nextSequenceNumber(sequenceCounter) \in 1..(Seqs - 1)
      /\ nextSequenceNumber(sequenceCounter) \in 0..(Seqs - 1)
      /\ 0 \in 0..(Seqs - 1)
  BY NextNumber, PingerAssumption DEF PingerTypeOK
<1>5. [face |-> f, seq |-> nextSequenceNumber(sequenceCounter), ping |-> sent + 1] \in Reply
  BY Zenon, <1>2, <1>4 DEF Reply
<1>6. /\ pingMap' \in [0..(Seqs - 1) -> Entry \cup {None}]
      /\ sequenceCounter' \in 0..(Seqs - 1)
      /\ replies' \subseteq Reply
      /\ failed' \subseteq Pings
  <2>1. CASE Ping(f, x)
    BY Zenon, <2>1, <1>2, <1>3, <1>4, <1>5 DEF Ping, PingerTypeOK
  <2>2. CASE PingFails(f, x)
    BY Zenon, <2>2, <1>2, <1>3, <1>4, <1>5 DEF PingFails, PingerTypeOK
  <2> QED
    BY Zenon, <2>1, <2>2
<1>7. PingerTypeOK'
  BY ZenonT(60), <1>1, <1>2, <1>6 DEF PingerTypeOK, networkVars, sockets, sockVars, controlVars
<1>8. WithinBounds'
  <2>1. Cardinality(todo') = Cardinality(todo) - 1 /\ Cardinality(todo) \in Nat
    BY Zenon, <1>1, OneLess, BatchSize DEF PingerTypeOK
  <2>2. failed' \subseteq failed \cup {sent + 1}
    BY Zenon DEF Ping, PingFails
  <2>3. sent \in Nat /\ failed \subseteq 1..sent
    BY PingerAssumption DEF PingerTypeOK, WithinBounds
  <2>4. failed' \subseteq 1..sent'
    BY <1>1, <2>2, <2>3
  <2> QED
    BY <1>1, <2>1, <2>3, <2>4, PingerAssumption DEF WithinBounds
<1> QED
  BY Zenon, <1>7, <1>8

LEMMA PingerNextType == PingerTypeInv /\ [PingerNext]_pingerVars => PingerTypeInv'
<1> SUFFICES ASSUME PingerTypeOK, WithinBounds, [PingerNext]_pingerVars
             PROVE  PingerTypeInv'
  BY DEF PingerTypeInv
<1>1. CASE openNetworkSockets
  BY Zenon, <1>1, OpenTypes
     DEF openNetworkSockets, PingerTypeInv, WithinBounds, pingVars
<1>2. CASE \E f \in Faces, x \in Targets : Ping(f, x) \/ PingFails(f, x)
  BY Zenon, <1>2, PingTypes DEF PingerTypeInv
<1>3. CASE WorkerCounts
  <2>1. Sockets \X Targets \subseteq Faces \X Targets
    BY DEF Sockets
  <2>2. PingerTypeOK'
    BY Zenon, <1>3, <2>1, PingerValues, CheckTypes
       DEF WorkerCounts, PingerTypeOK, networkVars, sockets, controlVars
  <2>3. WithinBounds'
    BY Zenon, <1>3 DEF WorkerCounts, WithinBounds
  <2> QED
    BY Zenon, <2>2, <2>3 DEF PingerTypeInv
<1>4. CASE Receive
  <2>1. {socketList[f] : f \in Sockets} \subseteq Socks
    BY DEF Sockets, PingerTypeOK
  <2>2. PingerTypeOK'
    BY Zenon, <1>4, <2>1, PingerValues
       DEF Receive, PingerTypeOK, networkVars
  <2>3. pinger' # "ping"
    BY Zenon, <1>4 DEF Receive
  <2>4. WithinBounds'
    BY Zenon, <1>4, <2>3 DEF Receive, WithinBounds
  <2> QED
    BY <2>2, <2>4 DEF PingerTypeInv
<1>5. CASE \E f \in Faces : LinkChange(f) \/ AddressChange(f)
  <2>1. PICK f \in Faces : LinkChange(f) \/ AddressChange(f)
    BY Zenon, <1>5
  <2>2. UNCHANGED <<sockVars, pingVars, pinVars, controlVars, watcher>>
    BY <2>1 DEF LinkChange, AddressChange, NewAddress
  <2>3. Room(1) /\ changes' = changes + 1 /\ quiet' = (link' = hash)
    BY Zenon, <2>1 DEF LinkChange, AddressChange, NewAddress
  <2>4. changes' \in Addresses
    BY Zenon, <2>3, PingerValues
  <2>5. link' \in [Faces -> BOOLEAN] /\ quiet' \in BOOLEAN
    BY Zenon, <2>1, <2>3 DEF LinkChange, AddressChange, PingerTypeOK
  <2>6. addr' \in [Faces -> Addresses \cup {None}]
    <3>1. PICK a \in {addr[f], None, changes'} : addr' = [addr EXCEPT ![f] = a]
      BY Zenon, <2>1 DEF LinkChange, AddressChange, NewAddress
    <3>2. addr \in [Faces -> Addresses \cup {None}]
      BY Zenon DEF PingerTypeOK
    <3>3. a \in Addresses \cup {None}
      BY Zenon, <2>4, <3>1, <3>2
    <3> QED
      BY Zenon, <3>1, <3>2, <3>3
  <2>7. PingerTypeOK'
    BY ZenonT(60), <2>2, <2>4, <2>5, <2>6
       DEF PingerTypeOK, Addresses, sockets, sockVars, pingVars, pinVars, controlVars
  <2>8. WithinBounds'
    BY Zenon, <2>2 DEF WithinBounds, pinVars, pingVars
  <2> QED
    BY <2>7, <2>8 DEF PingerTypeInv
<1>6. CASE \E s \in Socks : Read(s) \/ WatcherStep(s) \/ WatcherFails(s)
  <2>1. PICK s \in Socks : Read(s) \/ Match(s) \/ WatcherReturns(s) \/ WatcherFails(s)
    BY <1>6 DEF WatcherStep
  <2>2. UNCHANGED <<networkVars, pinVars, controlVars, sent, failed>>
    BY Zenon, <2>1 DEF Read, Match, WatcherReturns, WatcherFails, pingVars
  <2>3. WithinBounds'
    BY Zenon, <2>2 DEF WithinBounds, pinVars
  <2>4. CASE Read(s)
    <3>1. PingerTypeOK'
      BY ZenonT(60), <2>4
         DEF Read, PingerTypeOK, networkVars, sockets, sockVars, pingVars, pinVars, controlVars
    <3> QED
      BY Zenon, <2>3, <3>1 DEF PingerTypeInv
  <2>5. CASE Match(s)
    <3>1. watcher[s] \in Reply /\ watcher[s].seq \in 1..(Seqs - 1)
      BY <2>5 DEF Match, PingerTypeOK, Reply
    <3>2. pingMap[watcher[s].seq] # None => pingMap[watcher[s].seq].ping \in Pings
      BY <3>1, PingerAssumption DEF PingerTypeOK, Entry
    <3>3. answered' \subseteq Pings
      BY Zenon, <2>5, <3>2 DEF Match, PingerTypeOK
    <3>4. PingerTypeOK'
      BY ZenonT(60), <2>5, <3>1, <3>3
         DEF Match, PingerTypeOK, networkVars, sockets, sockVars, pinVars, controlVars
    <3> QED
      BY <2>3, <3>4 DEF PingerTypeInv
  <2>6. CASE WatcherReturns(s)
    <3>1. PingerTypeOK'
      BY ZenonT(60), <2>6 DEF WatcherReturns, PingerTypeOK, networkVars, pingVars, pinVars, controlVars
    <3> QED
      BY <2>3, <3>1 DEF PingerTypeInv
  <2>7. CASE WatcherFails(s)
    <3>1. 1 \in Nat
      OBVIOUS
    <3>2. failures' \in 0..MaxTroubles
      BY Zenon, <2>7, <3>1, FailTypes DEF WatcherFails
    <3>3. PingerTypeOK'
      BY ZenonT(60), <2>7, <3>2
         DEF WatcherFails, PingerTypeOK, networkVars, sockets, pingVars, pinVars, controlVars
    <3> QED
      BY Zenon, <2>3, <3>3 DEF PingerTypeInv
  <2> QED
    BY Zenon, <2>1, <2>4, <2>5, <2>6, <2>7
<1>7. CASE Finish \/ WorkerRecycles \/ WorkerLoads \/ WorkerRefreshes \/ WorkerSends \/ BatchSent
  <2>1. PingerTypeOK'
    <3>1. CASE WorkerRecycles
      <4>1. hash' \in [Faces -> BOOLEAN] /\ failures' \in 0..MaxTroubles
        BY Zenon, <3>1, CheckTypes DEF WorkerRecycles, PingerTypeOK
      <4> QED
        BY ZenonT(60), <3>1, <4>1
           DEF WorkerRecycles, PingerTypeOK, networkVars, sockets, pingVars, controlVars
    <3>2. CASE WorkerRefreshes
      BY ZenonT(60), <3>2, RefreshTypes
         DEF WorkerRefreshes, PingerTypeOK, networkVars, sockets, pingVars, controlVars
    <3>3. CASE Finish \/ WorkerLoads \/ WorkerSends \/ BatchSent
      BY ZenonT(60), <3>3
         DEF Finish, WorkerLoads, WorkerSends, BatchSent, Send, loadInterfaceDetailMap,
             PingerTypeOK, networkVars, sockets, sockVars, pingVars, controlVars
    <3> QED
      BY Zenon, <1>7, <3>1, <3>2, <3>3
  <2>2. UNCHANGED pingVars /\ pinger' # "ping"
    BY Zenon, <1>7 DEF Finish, WorkerRecycles, WorkerLoads, WorkerRefreshes, WorkerSends, BatchSent
  <2> QED
    BY Zenon, <2>1, <2>2 DEF PingerTypeInv, WithinBounds, pingVars
<1>8. CASE SIGHUP \/ HupStep \/ PluginShutdown \/ StopStep
  <2>1. PingerTypeOK'
    <3>1. CASE SIGHUP
      BY ZenonT(60), <3>1, PingerValues
         DEF SIGHUP, PingerTypeOK, controlOnly, networkVars, sockets, sockVars, pingVars
    <3>2. CASE HupStep
      <4>1. CASE HupRefreshes
        BY ZenonT(60), <4>1, RefreshTypes
           DEF HupRefreshes, PingerTypeOK, networkVars, sockets, pingVars
      <4>2. CASE HupLoads \/ HupSends
        BY ZenonT(60), <4>2
           DEF HupLoads, HupSends, Send, loadInterfaceDetailMap,
               PingerTypeOK, controlOnly, networkVars, sockets, sockVars, pingVars
      <4> QED
        BY Zenon, <3>2, <4>1, <4>2 DEF HupStep
    <3>3. CASE PluginShutdown \/ StopStep
      BY ZenonT(60), <3>3
         DEF PluginShutdown, StopStep, StopSends, StopSelectsPinger, Send,
             PingerTypeOK, controlOnly, networkVars, sockets, sockVars, pingVars
    <3> QED
      BY <1>8, <3>1, <3>2, <3>3
  <2>2. UNCHANGED <<pingVars, pinger, todo>>
    BY Zenon, <1>8
       DEF SIGHUP, HupStep, HupLoads, HupRefreshes, HupSends, PluginShutdown, StopStep, StopSends,
           StopSelectsPinger, controlOnly
  <2> QED
    BY Zenon, <2>1, <2>2 DEF PingerTypeInv, WithinBounds, pingVars
<1>9. CASE UNCHANGED pingerVars
  <2>1. UNCHANGED <<networkVars, sockVars, pingVars, pinVars, controlVars, watcher>>
    BY Zenon, <1>9 DEF pingerVars
  <2>2. PingerTypeOK'
    BY ZenonT(60), <2>1 DEF PingerTypeOK, networkVars, sockets, sockVars, pingVars, pinVars, controlVars
  <2>3. WithinBounds'
    BY Zenon, <2>1 DEF WithinBounds, pingVars, pinVars
  <2> QED
    BY <2>2, <2>3 DEF PingerTypeInv
<1> QED
  BY Zenon, <1>1, <1>2, <1>3, <1>4, <1>5, <1>6, <1>7, <1>8, <1>9 DEF PingerNext, PingerStep

\* The state of the pinger has its types, the pings stay within their number.
THEOREM PingerTypeCorrect == PingerSpec => []PingerTypeOK
<1>1. PingerTypeInv => PingerTypeOK
  BY DEF PingerTypeInv
<1> QED
  BY <1>1, PingerInitType, PingerNextType, PTL DEF PingerSpec

-----------------------------------------------------------------------------
(***************************************************************************)
(* The fates of the pings and the replies, in all reachable states.        *)
(***************************************************************************)
LEMMA PingerCases ==
    ASSUME PingerTypeInv, [PingerNext]_pingerVars
    PROVE  \/ PingsAlone
           \/ Receive
           \/ WorkerCounts
           \/ \E f \in Faces, x \in Targets : Ping(f, x) \/ PingFails(f, x)
           \/ \E s \in Socks : Read(s) \/ Match(s)
<1>1. CASE openNetworkSockets
  <2>1. UNCHANGED <<pingVars, todo>> /\ pinger' = "select"
    BY Zenon, <1>1 DEF openNetworkSockets
  <2>2. \A s \in Socks : watcher'[s] \in {watcher[s], Reading}
    BY Zenon, <1>1, OpenTypes DEF PingerTypeInv
  <2>3. PingsAlone
    BY Zenon, <2>1, <2>2 DEF PingsAlone
  <2> QED
    BY Zenon, <2>3
<1>2. ASSUME UNCHANGED <<pingVars, todo, watcher>>, pinger' = "ping" => pinger = "ping"
      PROVE  PingsAlone
  BY Zenon, <1>2 DEF PingsAlone
<1>3. CASE Finish \/ WorkerRecycles \/ WorkerLoads \/ WorkerRefreshes \/ WorkerSends \/ BatchSent
  <2>1. UNCHANGED <<pingVars, todo, watcher>> /\ pinger' # "ping"
    BY Zenon, <1>3 DEF Finish, WorkerRecycles, WorkerLoads, WorkerRefreshes, WorkerSends, BatchSent
  <2> QED
    BY Zenon, <1>2, <2>1
<1>4. CASE SIGHUP \/ HupStep \/ PluginShutdown \/ StopStep
  <2>1. UNCHANGED <<pingVars, pinger, todo, watcher>>
    BY Zenon, <1>4
       DEF SIGHUP, HupStep, HupLoads, HupRefreshes, HupSends, PluginShutdown, StopStep, StopSends,
           StopSelectsPinger, controlOnly
  <2> QED
    BY Zenon, <1>2, <2>1
<1>5. CASE \E f \in Faces : LinkChange(f) \/ AddressChange(f)
  BY Zenon, <1>2, <1>5 DEF LinkChange, AddressChange, NewAddress, pinVars
<1>6. ASSUME NEW s \in Socks, WatcherReturns(s) \/ WatcherFails(s) PROVE PingsAlone
  <2>1. UNCHANGED <<pingVars, pinVars>> /\ watcher' = [watcher EXCEPT ![s] = None]
    BY Zenon, <1>6 DEF WatcherReturns, WatcherFails
  <2>2. \A t \in Socks : watcher'[t] \in {watcher[t], None}
    BY <2>1 DEF PingerTypeInv, PingerTypeOK
  <2> QED
    BY Zenon, <2>1, <2>2 DEF PingsAlone, pinVars
<1>7. CASE UNCHANGED pingerVars
  BY Zenon, <1>2, <1>7 DEF pingerVars, pinVars
<1> QED
  BY Zenon, <1>1, <1>3, <1>4, <1>5, <1>6, <1>7 DEF PingerNext, PingerStep, WatcherStep

LEMMA PingInvStep == PingerTypeInv /\ PingInv /\ [PingerNext]_pingerVars => PingInv'
<1> SUFFICES ASSUME PingerTypeInv, PingInv, [PingerNext]_pingerVars
             PROVE  PingInv'
  OBVIOUS
<1>1. PingerTypeInv'
  BY Zenon, PingerNextType
<1> QED
  BY Zenon, <1>1, PingerCases, AloneStep, EmptyStep, ReadStep, MatchStep, FailStep, PingStep

LEMMA PingInvInit == PingerInit => PingInv
<1> SUFFICES ASSUME PingerInit PROVE PingInv
  OBVIOUS
<1>1. PingerTypeOK
  BY Zenon, PingerInitType DEF PingerTypeInv
<1>2. \A n \in 0..(Seqs - 1) : pingMap[n] = None
  BY ZenonT(60) DEF PingerInit
<1>3. EntriesDistinct /\ EntriesSpaced /\ ZeroFailed
  BY <1>2, PingerAssumption DEF EntriesDistinct, EntriesSpaced, ZeroFailed
<1>4. InFlight = {}
  BY Zenon DEF PingerInit, InFlight
<1>5. Outstanding = {}
  BY Zenon, <1>2 DEF Outstanding
<1>6. Apart
  BY Zenon, <1>5 DEF PingerInit, Apart
<1> QED
  BY Zenon, <1>1, <1>3, <1>4, <1>6, ApartNow DEF PingInv, RepliesConsistent

\* Every ping that did not fail is outstanding, answered, timed out or forgotten,
\* and only one of these, and a ping that failed is never answered, for any number
\* of interfaces, targets, pings and sequence numbers, if a batch has fewer pings
\* than there are numbers.
THEOREM EveryPingOneFate == PingerSpec => []OneFate
<1>1. PingInv => OneFate
  BY DEF PingInv
<1> QED
  BY <1>1, PingInvInit, PingInvStep, PingerInitType, PingerNextType, PTL DEF PingerSpec

\* The entry that a reply finds is that of its own ping: the number in the reply
\* has not been used again while the reply was under way.
THEOREM OwnPingFound == PingerSpec => []ReplyFindsOwnPing
<1>1. PingerTypeInv /\ PingInv => ReplyFindsOwnPing
  BY DEF PingInv, PingerTypeInv, PingerTypeOK, RepliesConsistent, InFlight, ReplyFindsOwnPing
<1> QED
  BY <1>1, PingInvInit, PingInvStep, PingerInitType, PingerNextType, PTL DEF PingerSpec

-----------------------------------------------------------------------------
(***************************************************************************)
(* The control channel.                                                    *)
(***************************************************************************)
LEMMA ChannelStep == PingerTypeInv /\ ChannelEmpty /\ [PingerNext]_pingerVars => ChannelEmpty'
<1> SUFFICES ASSUME PingerTypeInv, ChannelEmpty, [PingerNext]_pingerVars
             PROVE  ChannelEmpty'
  OBVIOUS
<1>1. CASE UNCHANGED <<pinger, controlVars>>
  BY Zenon, <1>1 DEF ChannelEmpty, controlVars
<1>2. CASE PingerStep
  <2>1. hup' = hup /\ hups' = hups /\ stop' = stop
    BY Zenon, <1>2
       DEF PingerStep, openNetworkSockets, Receive, Finish, WorkerRecycles, WorkerLoads,
           WorkerRefreshes, WorkerSends, WorkerCounts, Ping, PingFails, BatchSent, controlVars
  <2>2. CASE WorkerRecycles \/ WorkerLoads \/ WorkerRefreshes
    BY Zenon, <2>1, <2>2
       DEF WorkerRecycles, WorkerLoads, WorkerRefreshes, ChannelEmpty, controlVars
  <2>3. CASE ~(WorkerRecycles \/ WorkerLoads \/ WorkerRefreshes)
    <3>1. pinger' \notin {"load", "refresh", "send"}
      BY Zenon, <1>2, <2>3
         DEF PingerStep, openNetworkSockets, Receive, Finish, WorkerSends, WorkerCounts, Ping,
             PingFails, BatchSent
    <3> QED
      BY Zenon, <2>1, <3>1 DEF ChannelEmpty
  <2> QED
    BY Zenon, <2>2, <2>3
<1>3. CASE SIGHUP
  BY <1>3 DEF SIGHUP, ChannelEmpty, PingerTypeInv, PingerTypeOK
<1>4. CASE HupStep
  BY Zenon, <1>4 DEF HupStep, HupLoads, HupRefreshes, HupSends, ChannelEmpty, controlOnly
<1>5. CASE PluginShutdown
  BY Zenon, <1>5 DEF PluginShutdown, ChannelEmpty, controlOnly
<1>6. CASE StopStep
  BY Zenon, <1>6 DEF StopStep, StopSends, StopSelectsPinger, ChannelEmpty, controlOnly
<1>7. CASE \E f \in Faces : LinkChange(f) \/ AddressChange(f)
  BY Zenon, <1>1, <1>7 DEF LinkChange, AddressChange, NewAddress, pinVars
<1>8. CASE \E s \in Socks : Read(s) \/ WatcherStep(s) \/ WatcherFails(s)
  BY Zenon, <1>1, <1>8 DEF Read, WatcherStep, WatcherFails, Match, WatcherReturns, pinVars
<1>9. CASE UNCHANGED pingerVars
  BY Zenon, <1>1, <1>9 DEF pingerVars, pinVars
<1> QED
  BY Zenon, <1>2, <1>3, <1>4, <1>5, <1>6, <1>7, <1>8, <1>9 DEF PingerNext

\* pingerWorker never blocks on the send to its own task unless a SIGHUP was
\* handled or PluginShutdown has sent its message.
THEOREM OnlySignalsBlock == PingerSpec => []StuckNeedsSignal
<1>1. PingerInit => ChannelEmpty
  BY DEF PingerInit, ChannelEmpty
<1>2. ChannelEmpty => StuckNeedsSignal
  BY DEF ChannelEmpty, StuckNeedsSignal, Stuck
<1> QED
  BY <1>1, <1>2, PingerInitType, PingerNextType, ChannelStep, PTL DEF PingerSpec

=============================================================================
