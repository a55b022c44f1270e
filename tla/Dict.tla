-------------------------------- MODULE Dict --------------------------------
(***************************************************************************)
(* The dict service: entries written to and read from the kernel's         *)
(* dictionary under /proc/net/dict, the lock that keeps readers apart, and *)
(* the task that removes the sessions nobody else removes.  Time is        *)
(* counted in cycles of that task.                                         *)
(***************************************************************************)
EXTENDS Integers, FiniteSets

CONSTANTS
    Keys,           \* where a value can be: [table, type and id of the key, field]
    Values,         \* [Keys -> the values written there: [type, val]]
    Mentions,       \* [strings among them -> the tokens that occur in the text]
    Readers,        \* goroutines that read the dictionary
    Wants,          \* [Readers -> the keys that its request is for]
    MaxAge,         \* cleanMaxSeconds in cycles of cleanCycleSeconds
    MaxFailures,    \* bound: failing calls of the operating system
    MaxWrites,      \* bound: values written
    Int32,          \* int32 holds -Int32 .. Int32 - 1
    Int64,          \* and int64 holds -Int64 .. Int64 - 1
    None            \* no value, no holder, no entry: nil or an error in the code

ASSUME DictAssumption ==
    /\ {MaxAge, MaxFailures, MaxWrites, Int32, Int64} \subseteq Nat
    /\ Int64 >= 2 * Int32       \* a uint32 fits into an int64
    /\ Wants \in [Readers -> SUBSET Keys]
    /\ None \notin Readers \cup Nat

VARIABLES
    dict,       \* the kernel's: [Keys -> stored value or None]
    request,    \* the kernel's: the keys a read of /proc/net/dict/read returns
    written,    \* history: [Keys -> the value last written, None after a deletion]
    reader,     \* [Readers -> where GetTable, GetDictionary or GetAllEntries is]
    readMutex,  \* the reader that holds it, or None
    leaked,     \* history: a reader returned without unlocking
    cleanupTable, \* [Ctids -> age of the entry, or None]
    cleaner,    \* cleanupTask: [pc, list]
    since,      \* history: [Ctids -> cycles since the start or since it removed that one]
    service,    \* the daemon, and its Shutdown of the service
    disabled,   \* Disable was called
    writes,     \* bound on the values written so far
    failures    \* bound on the failures so far

vars == <<dict, request, written, reader, readMutex, leaked,
          cleanupTable, cleaner, since, service, disabled, writes, failures>>

kernelVars == <<dict, written>>
readVars == <<request, reader, readMutex, leaked>>
cleanVars == <<cleanupTable, cleaner, since, service, disabled>>

\* The dictionary that k is a field of, the sessions, and the fields of one.
Dictionary(k) == {x \in Keys : x.table = k.table /\ x.type = k.type /\ x.id = k.id}

SessionKeys == {k \in Keys : k.table = "sessions"}

Ctids == {k.id : k \in SessionKeys}

Session(c) == {k \in SessionKeys : k.id = c}

-----------------------------------------------------------------------------
\* The types of keys and values that are written.  An ip6 is a net.IP that is no
\* IPv4 address, and the small integers are those within an int32.
KeyTypes == {"string", "uint32", "mac", "ip", "ip6"}

SmallInts == {"int8", "uint8", "int16", "uint16", "int32"}

ValueTypes == SmallInts \cup {"uint32", "int64", "string", "mac", "ip", "ip6", "bool"}

\* The numbers of a type.
Numbers(type) ==
    IF type \in SmallInts THEN -Int32..(Int32 - 1)
    ELSE IF type = "uint32" THEN 0..(2 * Int32 - 1)
    ELSE -Int64..(Int64 - 1)

\* The token that a value is written with: generateInt, generateInt64 and so on.
Token(type) ==
    IF type \in SmallInts THEN "int"
    ELSE IF type = "uint32" THEN "int64"
    ELSE type

Half(token) == IF token = "int" THEN Int32 ELSE Int64

IsNumber(token) == token \in {"int", "int64"}

\* What Sscanf makes of a number for a variable of the type: 0 if it does not fit.
Scan(num, half) == IF num \in -half..(half - 1) THEN num ELSE 0

Wrap(num, half) == ((num + half) % (2 * half)) - half

Stored(token, val) == [token |-> token, val |-> IF IsNumber(token) THEN Wrap(val, Half(token)) ELSE val]

\* Mutant of generateValue: an unsigned number is written as an int as well.
generateValueInt(v) == Stored(IF v.type = "uint32" THEN "int" ELSE Token(v.type), v.val)

\* The token and the value written for it.
generateValue(v) == Stored(Token(v.type), v.val)

\* A token is read into a variable of a type of its own.
parseValue(stored) ==
    [type |-> IF stored.token = "int" THEN "int32" ELSE IF stored.token = "ip6" THEN "ip" ELSE stored.token,
     val |-> IF IsNumber(stored.token) THEN Scan(stored.val, Half(stored.token)) ELSE stored.val]

\* generateKeyInt, generateKeyIP and so on.
KeyToken(type) ==
    CASE type = "string" -> "key_string"
      [] type = "uint32" -> "key_int"
      [] type = "mac" -> "key_mac"
      [] type = "ip" -> "key_ip"
      [] type = "ip6" -> "key_ip6"

generateKey(k) == [token |-> KeyToken(k.type), val |-> k.id]

\* strings.Contains(arg, token).  An arg is a token and what follows it, which is
\* a single word except for a string, which may have tokens in its text.
Contains(arg, token) == arg.token = token \/ (arg.token = "string" /\ token \in Mentions[arg.val])

Nil == [type |-> "nil", val |-> None]

\* The first token found decides.  Sscanf finds it at the start of the arg only,
\* and otherwise leaves the zero value of the type.
parseKey(arg) ==
    LET key(token, type, zero) == [type |-> type, val |-> IF arg.token = token THEN arg.val ELSE zero]
    IN  IF Contains(arg, "key_string") THEN key("key_string", "string", "")
        ELSE IF Contains(arg, "key_int") THEN key("key_int", "uint32", 0)
        ELSE IF Contains(arg, "key_mac") THEN key("key_mac", "mac", None)
        ELSE IF Contains(arg, "key_ip") THEN key("key_ip", "ip", None)
        ELSE IF Contains(arg, "key_ip6") THEN key("key_ip6", "ip", None)
        ELSE Nil

\* Keys and values have a type that generateKey and generateValue know, a field
\* has a name, and the sessions table has only the keys of AddSessionEntry.
ASSUME TypesAssumption ==
    /\ DOMAIN Values = Keys
    /\ \A k \in Keys :
         /\ k = [table |-> k.table, type |-> k.type, id |-> k.id, field |-> k.field]
         /\ k.type \in KeyTypes
         /\ k.field # ""
         /\ k.table = "sessions" => k.type = "uint32"
    /\ \A k \in Keys : \A v \in Values[k] :
         /\ v.type \in ValueTypes
         /\ IsNumber(Token(v.type)) => v.val \in Numbers(v.type)
         /\ None \notin {v, generateValue(v)}

\* A line of the kernel's files, and the Entry that is made of it.
Line(k) == [table |-> k.table, key |-> generateKey(k), field |-> k.field, value |-> dict[k]]

Entry(table, key, field, value) == [table |-> table, key |-> key, field |-> field, value |-> value]

\* The words of the line by twos, each pair sorted by the tokens it contains.
\* The fourth pair has all the rest of the line: a text with a token in it
\* replaces the table, the field or the key, and the value stays nil.
parseEntry(line) ==
    LET arg == line.value
        key == parseKey(line.key)
    IN  IF Contains(arg, "table") THEN Entry("", key, line.field, Nil)
        ELSE IF Contains(arg, "field") THEN Entry(line.table, key, "", Nil)
        ELSE IF Contains(arg, "key_") THEN Entry(line.table, parseKey(arg), line.field, Nil)
        ELSE Entry(line.table, key, line.field, parseValue(arg))

\* GetString, GetInt, GetInt64, GetMac, GetIP and GetBool.
GetAs(entry, type) == IF entry.value.type = type THEN entry.value.val ELSE None

\* The first of a dictionary's entries with the field.
GetEntry(entries, field) ==
    IF \E e \in entries : e.field = field THEN CHOOSE e \in entries : e.field = field ELSE None

\* The values by ctid and field, unless a key is no number.
GetSessions(entries) ==
    LET m == {<<e.key.val, e.field>> : e \in entries}
    IN  IF \E e \in entries : e.key.type # "uint32" THEN None
        ELSE [p \in m |-> (CHOOSE e \in entries : <<e.key.val, e.field>> = p).value]

ReaderSteps == {"idle", "opened", "locked", "asked", "all", "done", "failed"}

TypeOK ==
    /\ request \subseteq Keys
    /\ DOMAIN dict = Keys
    /\ DOMAIN written = Keys /\ \A k \in Keys : written[k] \in Values[k] \cup {None}
    /\ reader \in [Readers -> ReaderSteps]
    /\ readMutex \in Readers \cup {None}
    /\ leaked \in BOOLEAN /\ disabled \in BOOLEAN
    /\ cleanupTable \in [Ctids -> 0..(MaxAge + 1) \cup {None}]
    /\ cleaner \in [pc : {"none", "listing", "walking", "waiting", "acking", "stopped"}, list : SUBSET Ctids]
    /\ since \in [Ctids -> 0..(MaxAge + 1)]
    /\ service \in {"off", "running", "sending", "sent", "stopped"}
    /\ writes \in 0..MaxWrites
    /\ failures \in 0..MaxFailures

Init ==
    /\ dict = [k \in Keys |-> None]
    /\ request = {}
    /\ written = [k \in Keys |-> None]
    /\ reader = [r \in Readers |-> "idle"]
    /\ readMutex = None
    /\ leaked = FALSE
    /\ cleanupTable = [c \in Ctids |-> None]
    /\ cleaner = [pc |-> "none", list |-> {}]
    /\ since = [c \in Ctids |-> 0]
    /\ service = "off"
    /\ disabled \in BOOLEAN
    /\ writes = 0
    /\ failures = 0

-----------------------------------------------------------------------------
CanFail == failures < MaxFailures

Fails == CanFail /\ failures' = failures + 1

\* Open and WriteString on /proc/net/dict/write.
writeEntry(k, v) ==
    \/ /\ dict' = [dict EXCEPT ![k] = generateValue(v)]
       /\ written' = [written EXCEPT ![k] = v]
       /\ UNCHANGED failures
    \/ Fails /\ UNCHANGED kernelVars

\* The same on /proc/net/dict/delete: all fields of the dictionary go.
deleteEntry(keys) ==
    \/ /\ dict' = [x \in Keys |-> IF x \in keys THEN None ELSE dict[x]]
       /\ written' = [x \in Keys |-> IF x \in keys THEN None ELSE written[x]]
       /\ UNCHANGED failures
    \/ Fails /\ UNCHANGED kernelVars

\* AddEntry and its wrappers, by dispatch, a plugin or nft itself.  An empty
\* string is not written.
AddEntry(k) ==
    /\ writes < MaxWrites
    /\ \E v \in Values[k] : writeEntry(k, v)
    /\ writes' = writes + 1
    /\ UNCHANGED <<readVars, cleanVars>>

\* DeleteDictionary and its wrappers, as DeleteSession when dispatch removes one.
DeleteDictionary(k) ==
    /\ dict[k] # None
    /\ deleteEntry(Dictionary(k))
    /\ UNCHANGED <<readVars, cleanVars, writes>>

-----------------------------------------------------------------------------
Goto(r, pc) == reader' = [reader EXCEPT ![r] = pc]

\* OpenFile of the file that is read, by GetTable and GetDictionary or by
\* GetAllEntries.  An error ends the call before the lock.
Open(r) ==
    /\ reader[r] = "idle"
    /\ \/ Goto(r, "opened") /\ UNCHANGED failures
       \/ Goto(r, "failed") /\ Fails
    /\ UNCHANGED <<kernelVars, request, readMutex, leaked, cleanVars, writes>>

OpenAll(r) ==
    /\ reader[r] = "idle"
    /\ \/ Goto(r, "all") /\ UNCHANGED failures
       \/ Goto(r, "failed") /\ Fails
    /\ UNCHANGED <<kernelVars, request, readMutex, leaked, cleanVars, writes>>

Lock(r) ==
    /\ reader[r] = "opened" /\ readMutex = None
    /\ readMutex' = r
    /\ Goto(r, "locked")
    /\ UNCHANGED <<kernelVars, request, leaked, cleanVars, writes, failures>>

\* WriteString of the request.  On an error the call returns with the lock held.
Ask(r) ==
    /\ reader[r] = "locked"
    /\ \/ /\ request' = Wants[r]
          /\ Goto(r, "asked")
          /\ UNCHANGED <<leaked, failures>>
       \/ /\ Fails
          /\ Goto(r, "failed")
          /\ leaked' = TRUE
          /\ UNCHANGED request
    /\ UNCHANGED <<kernelVars, readMutex, cleanVars, writes>>

\* The lines of a file, through parseEntry.
Entries(keys) == {parseEntry(Line(k)) : k \in {x \in keys : dict[x] # None}}

Scanned(r, pc) ==
    /\ reader[r] = pc
    /\ Goto(r, "done")
    /\ UNCHANGED <<kernelVars, request, leaked, cleanVars, writes, failures>>

\* Mutant of ScanEntries: the lock is kept.
ScanEntriesLocked(r) == Scanned(r, "asked") /\ UNCHANGED readMutex

\* The scanner loop over Entries(request), and Unlock.
ScanEntries(r) == Scanned(r, "asked") /\ readMutex' = None

\* The loop of GetAllEntries over Entries(Keys), which has no lock.
ScanAll(r) == Scanned(r, "all") /\ UNCHANGED readMutex

-----------------------------------------------------------------------------
Cleaner(pc, list) == cleaner' = [pc |-> pc, list |-> list]

\* Startup.
Startup ==
    /\ service = "off"
    /\ service' = "running"
    /\ IF disabled THEN UNCHANGED cleaner ELSE Cleaner("listing", {})
    /\ UNCHANGED <<kernelVars, readVars, cleanupTable, since, disabled, writes, failures>>

ListOf(list) ==
    /\ cleaner.pc = "listing"
    /\ \/ Cleaner("walking", list) /\ UNCHANGED failures
       \/ Cleaner("waiting", {}) /\ Fails
    /\ UNCHANGED <<kernelVars, readVars, cleanupTable, since, service, disabled, writes>>

\* Mutant of List: an error ends the task.
ListExits ==
    /\ cleaner.pc = "listing"
    /\ \/ Cleaner("walking", {c \in Ctids : \E k \in Session(c) : dict[k] # None}) /\ UNCHANGED failures
       \/ Cleaner("stopped", {}) /\ Fails
    /\ UNCHANGED <<kernelVars, readVars, cleanupTable, since, service, disabled, writes>>

\* cleanDictionary: the list of sessions, or an error of the command.  What is
\* no number is left out.
List == ListOf({c \in Ctids : \E k \in Session(c) : dict[k] # None})

RemoveAt(c, age) ==
    /\ cleanupTable[c] # None /\ cleanupTable[c] > age
    /\ cleanupTable' = [cleanupTable EXCEPT ![c] = None]
    /\ deleteEntry(Session(c))
    /\ since' = [since EXCEPT ![c] = 0]

\* Mutant of RemoveOld: off by one (currtime >= lasttime + cleanMaxSeconds).
RemoveOldEarly(c) == RemoveAt(c, MaxAge - 1)

\* A session in the cleanup table that is too old is removed from both; its
\* DeleteSession may fail.
RemoveOld(c) == RemoveAt(c, MaxAge)

Keep(c) ==
    /\ cleanupTable[c] # None /\ cleanupTable[c] <= MaxAge
    /\ UNCHANGED <<cleanupTable, since, kernelVars, failures>>

Note(c) ==
    /\ cleanupTable[c] = None
    /\ cleanupTable' = [cleanupTable EXCEPT ![c] = 0]
    /\ UNCHANGED <<since, kernelVars, failures>>

\* Mutant of Visit: a session that is not too old yet is noted again.
VisitAgain(c) ==
    /\ cleaner.pc = "walking" /\ c \in cleaner.list
    /\ IF cleanupTable[c] # None THEN RemoveOld(c) \/ (cleanupTable[c] <= MaxAge
                                                       /\ cleanupTable' = [cleanupTable EXCEPT ![c] = 0]
                                                       /\ UNCHANGED <<since, kernelVars, failures>>)
       ELSE Note(c)
    /\ Cleaner("walking", cleaner.list \ {c})
    /\ UNCHANGED <<readVars, service, disabled, writes>>

\* The first loop.
Visit(c) ==
    /\ cleaner.pc = "walking" /\ c \in cleaner.list
    /\ RemoveOld(c) \/ Keep(c) \/ Note(c)
    /\ Cleaner("walking", cleaner.list \ {c})
    /\ UNCHANGED <<readVars, service, disabled, writes>>

\* The second loop: what is too old in the cleanup table.
Purge ==
    /\ cleaner.pc = "walking" /\ cleaner.list = {}
    /\ cleanupTable' = [c \in Ctids |-> IF cleanupTable[c] = MaxAge + 1 THEN None ELSE cleanupTable[c]]
    /\ Cleaner("waiting", {})
    /\ UNCHANGED <<kernelVars, readVars, since, service, disabled, writes, failures>>

Older(age) == IF age = None THEN None ELSE IF age > MaxAge THEN age ELSE age + 1

\* time.After: a cycle later.
Cycle ==
    /\ cleaner.pc = "waiting"
    /\ cleanupTable' = [c \in Ctids |-> Older(cleanupTable[c])]
    /\ since' = [c \in Ctids |-> Older(since[c])]
    /\ Cleaner("listing", {})
    /\ UNCHANGED <<kernelVars, readVars, service, disabled, writes, failures>>

\* Shutdown: both channel operations rendezvous with cleanupTask.
Shutdown ==
    /\ service = "running"
    /\ service' = "sending"
    /\ UNCHANGED <<kernelVars, readVars, cleanupTable, cleaner, since, disabled, writes, failures>>

TakeShutdown ==
    /\ service = "sending" /\ cleaner.pc = "waiting"
    /\ service' = "sent"
    /\ Cleaner("acking", {})
    /\ UNCHANGED <<kernelVars, readVars, cleanupTable, since, disabled, writes, failures>>

Acknowledge ==
    /\ service = "sent" /\ cleaner.pc = "acking"
    /\ service' = "stopped"
    /\ Cleaner("stopped", {})
    /\ UNCHANGED <<kernelVars, readVars, cleanupTable, since, disabled, writes, failures>>

\* The 10 seconds of Shutdown.
TimeOut ==
    /\ service = "sent"
    /\ service' = "stopped"
    /\ UNCHANGED <<kernelVars, readVars, cleanupTable, cleaner, since, disabled, writes, failures>>

ReaderStep(r) == Open(r) \/ OpenAll(r) \/ Lock(r) \/ Ask(r) \/ ScanEntries(r) \/ ScanAll(r)

CleanerStep == List \/ (\E c \in Ctids : Visit(c)) \/ Purge \/ Cycle

ShutdownStep == TakeShutdown \/ Acknowledge \/ TimeOut

Next ==
    \/ \E k \in Keys : AddEntry(k) \/ DeleteDictionary(k)
    \/ \E r \in Readers : ReaderStep(r)
    \/ Startup \/ CleanerStep \/ Shutdown \/ ShutdownStep

Spec == Init /\ [][Next]_vars

\* Goroutines run, calls of the kernel return, time passes.  The select of
\* cleanupTask may prefer its timer, but not for ever.
FairSpec ==
    /\ Spec
    /\ WF_vars(CleanerStep) /\ SF_vars(TakeShutdown) /\ WF_vars(ShutdownStep)
    /\ \A r \in Readers : SF_vars(Lock(r)) /\ WF_vars(Open(r) \/ OpenAll(r) \/ Ask(r) \/ ScanEntries(r) \/ ScanAll(r))

-----------------------------------------------------------------------------
\* The type of variable that a value of each type should come back in.
GetterFor(type) ==
    IF type \in {"int8", "uint8", "int16", "uint16", "int32"} THEN "int32"
    ELSE IF type \in {"uint32", "int64"} THEN "int64"
    ELSE IF type = "ip6" THEN "ip" ELSE type

\* The Entry that a reader should get for a key.
Expected(k) ==
    [table |-> k.table, key |-> [type |-> IF k.type = "ip6" THEN "ip" ELSE k.type, val |-> k.id],
     field |-> k.field, value |-> [type |-> GetterFor(written[k].type), val |-> written[k].val]]

\* A value in which no token occurs that the lines of the dictionary begin with.
Intact(v) == \A token \in {"table", "field", "key_"} : ~Contains(generateValue(v), token)

\* The entries that have a value are those of the keys that were written, and
\* of no others, each with its own.
AsWritten(entries, keys) ==
    {e \in entries : e.value # Nil} = {Expected(k) : k \in {x \in keys : written[x] # None /\ Intact(written[x])}}

\* What a reader is about to scan is, for the keys it asked for and no others,
\* what AddEntry was last called with: readMutex keeps the requests of two
\* readers apart, and every type of key and of value survives its way through
\* the kernel, numbers at the ends of their ranges included.  GetEntry of a
\* dictionary and the getter of the type then find the value, and GetSessions
\* has the values of the whole table.  The exception is a text in which a token
\* of the file's format occurs: parseEntry takes it for another part of the
\* entry, whose value is then missing, but is never another.  A text with key_
\* in it can be an invalid key to GetSessions, which then returns no session.
ReadsWhatWasWritten ==
    \A r \in Readers :
        /\ reader[r] = "all" => AsWritten(Entries(Keys), Keys)
        /\ reader[r] = "asked" =>
            /\ AsWritten(Entries(request), Wants[r])
            /\ \A k \in Wants[r] : Wants[r] = Dictionary(k) =>
                  LET entry == GetEntry(Entries(request), k.field)
                  IN  IF written[k] = None THEN entry = None
                      ELSE IF Intact(written[k]) THEN GetAs(entry, GetterFor(written[k].type)) = written[k].val
                      ELSE entry = None \/ entry.value = Nil
            /\ (Wants[r] = SessionKeys
                  /\ \A k \in SessionKeys : written[k] # None => ~Contains(generateValue(written[k]), "key_")) =>
                  LET m == GetSessions(Entries(request))
                  IN  \A k \in SessionKeys : written[k] # None /\ Intact(written[k]) =>
                          m[<<k.id, k.field>>] = Expected(k).value

\* The cleaner removes a session only after it had the same ctid in its table
\* for more than cleanMaxSeconds: nothing within that time of the start, nor of
\* its last removal of that ctid.  It may remove a young session, one that got
\* the ctid of another the table still had, but not two of them in a row.
RemovalsApart ==
    [][\A c \in Ctids :
          (cleaner' # cleaner /\ \E k \in Session(c) : dict[k] # None /\ dict'[k] = None) => since[c] > MaxAge]_vars

\* Every session in the dictionary is removed some time, even if dispatch never
\* does, as long as the cleaner runs.
OrphansRemoved ==
    \A k \in SessionKeys : (dict[k] # None) ~> (dict[k] = None \/ service # "running" \/ disabled)

\* A reader returns, unless an earlier one failed and left the lock behind.
ReadersReturn ==
    \A r \in Readers : (reader[r] = "opened") ~> (reader[r] \in {"done", "failed"} \/ leaked)

\* Shutdown of the service returns, unless the service was disabled: then no
\* one receives on its channel.
ShutdownReturns == (service = "sending") ~> (service = "stopped" \/ disabled)

=============================================================================
