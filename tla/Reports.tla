------------------------------- MODULE Reports -------------------------------
(***************************************************************************)
(* The reports service: events that plugins log go through a bounded queue *)
(* to one goroutine that writes them to the database; REST requests create *)
(* queries, read their rows page by page and close them; a timer closes    *)
(* each query that nobody closed; a cleaner trims the database.            *)
(*                                                                         *)
(* What the code does under dbLock or queriesLock is one step.             *)
(***************************************************************************)
EXTENDS Integers, Sequences

CONSTANTS
    Sessions,   \* each is logged as an insert and, later, an update
    Requests,   \* goroutines of the REST server
    QueueSize,  \* capacity of eventQueue: 10000
    PageLimit,  \* rows that GetData returns at most: 1000
    RowCount,   \* rows that a query selects
    MaxQueries  \* bound: queries created

ASSUME ReportsAssumption ==
    /\ QueueSize \in Nat \ {0}
    /\ PageLimit \in Nat \ {0}
    /\ RowCount \in Nat
    /\ MaxQueries \in Nat

VARIABLES
    tables,      \* have the tables been created?
    open,        \* is the database open?
    db,          \* [Sessions -> state of the session's row]
    plugin,      \* [Sessions -> how many of its events were logged]
    eventQueue,
    logger,      \* the event that eventLogger works on, or NoEvent
    executed,    \* events whose statement succeeded
    queryID,     \* id of the last query
    queries,     \* ids in the table of queries
    rows,        \* [1..MaxQueries -> the sql.Rows of the query]
    timer,       \* ids of queries whose clean-up goroutine sleeps
    request      \* [Requests -> state of the request]

eventVars == <<tables, db, plugin, eventQueue, logger, executed>>

queryVars == <<queryID, queries, rows, timer, request>>

vars == <<eventVars, queryVars, open>>

-----------------------------------------------------------------------------
Ids == 1..MaxQueries

Event == [op : {"insert", "update"}, session : Sessions]

NoEvent == [op |-> "none"]

\* pos is the row that Next reached.  nil: cleanupQuery has reset Query.Rows.
Rows == [st : {"none", "open", "closed"}, pos : 0..RowCount, nil : BOOLEAN]

\* page is what was read so far, val the values of the last successful Scan.
\* Readers may race for the buffer of the row that is read; a number stands for
\* the value of one column, which is that of one row or another.
RequestState ==
    [pc : {"idle", "created", "get", "next", "scan", "close"}, q : 0..MaxQueries,
     page : Seq(0..RowCount), val : 0..RowCount]

TypeOK ==
    /\ tables \in BOOLEAN
    /\ open \in BOOLEAN
    /\ db \in [Sessions -> {"none", "inserted", "updated", "trimmed"}]
    /\ plugin \in [Sessions -> 0..2]
    /\ eventQueue \in Seq(Event)
    /\ Len(eventQueue) <= QueueSize
    /\ logger \in Event \cup {NoEvent}
    /\ executed \subseteq Event
    /\ queryID \in 0..MaxQueries
    /\ queries \subseteq Ids
    /\ rows \in [Ids -> Rows]
    /\ timer \subseteq Ids
    /\ request \in [Requests -> RequestState]

Idle == [pc |-> "idle", q |-> 0, page |-> <<>>, val |-> 0]

\* Startup: the database is opened; the tables are created in the background.
Init ==
    /\ tables = FALSE
    /\ open = TRUE
    /\ db = [s \in Sessions |-> "none"]
    /\ plugin = [s \in Sessions |-> 0]
    /\ eventQueue = <<>>
    /\ logger = NoEvent
    /\ executed = {}
    /\ queryID = 0
    /\ queries = {}
    /\ rows = [q \in Ids |-> [st |-> "none", pos |-> 0, nil |-> FALSE]]
    /\ timer = {}
    /\ request = [r \in Requests |-> Idle]

-----------------------------------------------------------------------------
(***************************************************************************)
(* Events.                                                                 *)
(***************************************************************************)

\* eventLogger and dbCleaner start afterwards.
CreateTables ==
    /\ ~tables
    /\ tables' = TRUE
    /\ UNCHANGED <<db, plugin, eventQueue, logger, executed, queryVars, open>>

\* LogEvent of a session's first and second event: dropped if the queue is full.
LogEvent(s) ==
    /\ plugin[s] < 2
    /\ plugin' = [plugin EXCEPT ![s] = plugin[s] + 1]
    /\ eventQueue' = IF Len(eventQueue) < QueueSize
                     THEN Append(eventQueue, [op |-> IF plugin[s] = 0 THEN "insert" ELSE "update",
                                              session |-> s])
                     ELSE eventQueue
    /\ UNCHANGED <<tables, db, logger, executed, queryVars, open>>

\* Mutant of LoggerTakes: the newest event first.
LoggerTakesNewest ==
    /\ tables
    /\ logger = NoEvent
    /\ eventQueue # <<>>
    /\ logger' = eventQueue[Len(eventQueue)]
    /\ eventQueue' = SubSeq(eventQueue, 1, Len(eventQueue) - 1)
    /\ UNCHANGED <<tables, db, plugin, executed, queryVars, open>>

LoggerTakes ==
    /\ tables
    /\ logger = NoEvent
    /\ eventQueue # <<>>
    /\ logger' = Head(eventQueue)
    /\ eventQueue' = Tail(eventQueue)
    /\ UNCHANGED <<tables, db, plugin, executed, queryVars, open>>

\* An insert adds the row; an update changes the row if there is one.
RowAfter(e, row) ==
    IF e.op = "insert" THEN "inserted" ELSE IF row = "inserted" THEN "updated" ELSE row

\* logInsertEvent, logUpdateEvent, under dbLock.  The statement fails if the
\* database is closed, and may fail if it is busy or full: the event is lost.
LoggerExecs ==
    /\ logger # NoEvent
    /\ \/ /\ open
          /\ db' = [db EXCEPT ![logger.session] = RowAfter(logger, db[logger.session])]
          /\ executed' = executed \cup {logger}
       \/ UNCHANGED <<db, executed>>
    /\ logger' = NoEvent
    /\ UNCHANGED <<tables, plugin, eventQueue, queryVars, open>>

\* dbCleaner: trims the oldest rows, never the newest one, under dbLock.
Trim ==
    /\ tables
    /\ open
    /\ \E s \in Sessions :
         /\ db[s] \in {"inserted", "updated"}
         /\ \E t \in Sessions \ {s} : db[t] \in {"inserted", "updated"}
         /\ db' = [db EXCEPT ![s] = "trimmed"]
    /\ UNCHANGED <<tables, plugin, eventQueue, logger, executed, queryVars, open>>

\* db.Close: no new statements; rows that are open can still be read.
Shutdown ==
    /\ open
    /\ open' = FALSE
    /\ UNCHANGED <<eventVars, queryVars>>

-----------------------------------------------------------------------------
(***************************************************************************)
(* Queries.                                                                *)
(***************************************************************************)

Goto(r, pc, q, page, val) ==
    request' = [request EXCEPT ![r] = [pc |-> pc, q |-> q, page |-> page, val |-> val]]

\* CreateQuery up to the new id.  A request that cannot be parsed, or whose
\* statement fails, has no effect.
RunQuery(r) ==
    /\ request[r].pc = "idle"
    /\ open
    /\ queryID < MaxQueries
    /\ queryID' = queryID + 1
    /\ rows' = [rows EXCEPT ![queryID + 1] = [st |-> "open", pos |-> 0, nil |-> FALSE]]
    /\ Goto(r, "created", queryID + 1, <<>>, 0)
    /\ UNCHANGED <<eventVars, queries, timer, open>>

\* The rest of CreateQuery: the table, and the clean-up goroutine.
InsertQuery(r) ==
    /\ request[r].pc = "created"
    /\ queries' = queries \cup {request[r].q}
    /\ timer' = timer \cup {request[r].q}
    /\ Goto(r, "idle", 0, <<>>, 0)
    /\ UNCHANGED <<eventVars, queryID, rows, open>>

\* GetData and CloseQuery look up the id.  An unknown id has no effect.
FindQuery(r, q) ==
    /\ request[r].pc = "idle"
    /\ q \in queries
    /\ \E pc \in {"get", "close"} : Goto(r, pc, q, <<>>, 0)
    /\ UNCHANGED <<eventVars, queryID, queries, rows, timer, open>>

\* getRows: nil or closed rows are an error.
StartPage(r) ==
    /\ request[r].pc = "get"
    /\ IF rows[request[r].q].nil \/ rows[request[r].q].st = "closed"
       THEN Goto(r, "idle", 0, <<>>, 0)
       ELSE Goto(r, "next", request[r].q, <<>>, 0)
    /\ UNCHANGED <<eventVars, queryID, queries, rows, timer, open>>

\* Rows.Next moves to the next row, or closes the rows after the last one.
Advance(R) ==
    IF R.st = "closed" THEN R
    ELSE IF R.pos < RowCount THEN [st |-> "open", pos |-> R.pos + 1, nil |-> R.nil]
    ELSE [st |-> "closed", pos |-> R.pos, nil |-> R.nil]

\* Mutant of NextRow: the rows are not moved.
NextRowStays(r) ==
    LET q == request[r].q IN
    /\ request[r].pc = "next"
    /\ IF Advance(rows[q]).st = "open" /\ Len(request[r].page) < PageLimit
       THEN Goto(r, "scan", q, request[r].page, request[r].val)
       ELSE Goto(r, "idle", 0, <<>>, 0)
    /\ UNCHANGED <<eventVars, queryID, queries, rows, timer, open>>

\* rows.Next() && i < limit, in this order.
NextRow(r) ==
    LET q == request[r].q IN
    /\ request[r].pc = "next"
    /\ rows' = [rows EXCEPT ![q] = Advance(rows[q])]
    /\ IF Advance(rows[q]).st = "open" /\ Len(request[r].page) < PageLimit
       THEN Goto(r, "scan", q, request[r].page, request[r].val)
       ELSE Goto(r, "idle", 0, <<>>, 0)
    /\ UNCHANGED <<eventVars, queryID, queries, timer, open>>

\* rows.Scan, whose error is ignored: if the rows were closed since Next the
\* page gets the values of the row before once more.
ScanRow(r) ==
    LET R == rows[request[r].q]
        val == IF R.st = "open" THEN R.pos ELSE request[r].val
    IN  /\ request[r].pc = "scan"
        /\ Goto(r, "next", request[r].q, Append(request[r].page, val), val)
        /\ UNCHANGED <<eventVars, queryID, queries, rows, timer, open>>

CleanupQuery(q) ==
    /\ queries' = queries \ {q}
    /\ rows' = [rows EXCEPT ![q] = [st |-> "closed", pos |-> rows[q].pos, nil |-> TRUE]]

CloseQuery(r) ==
    /\ request[r].pc = "close"
    /\ CleanupQuery(request[r].q)
    /\ Goto(r, "idle", 0, <<>>, 0)
    /\ UNCHANGED <<eventVars, queryID, timer, open>>

\* Mutant of TimerFires: a query that was read to the end is left alone.
TimerFiresIfOpen(q) ==
    /\ q \in timer
    /\ timer' = timer \ {q}
    /\ IF rows[q].st = "open" THEN CleanupQuery(q) ELSE UNCHANGED <<queries, rows>>
    /\ UNCHANGED <<eventVars, queryID, request, open>>

\* Mutant of TimerFires: it waits while a request has the query.
TimerFiresUnlessUsed(q) ==
    /\ q \in timer
    /\ \A r \in Requests : request[r].q # q
    /\ timer' = timer \ {q}
    /\ CleanupQuery(q)
    /\ UNCHANGED <<eventVars, queryID, request, open>>

\* 30 s after CreateQuery, whether or not the query was closed.
TimerFires(q) ==
    /\ q \in timer
    /\ timer' = timer \ {q}
    /\ CleanupQuery(q)
    /\ UNCHANGED <<eventVars, queryID, request, open>>

-----------------------------------------------------------------------------
LoggerStep == CreateTables \/ LoggerTakes \/ LoggerExecs

RequestStep(r) ==
    \/ InsertQuery(r)
    \/ StartPage(r)
    \/ NextRow(r)
    \/ ScanRow(r)
    \/ CloseQuery(r)

Next ==
    \/ \E s \in Sessions : LogEvent(s)
    \/ LoggerStep
    \/ Trim
    \/ Shutdown
    \/ \E r \in Requests : RunQuery(r) \/ RequestStep(r) \/ \E q \in Ids : FindQuery(r, q)
    \/ \E q \in Ids : TimerFires(q)

Spec == Init /\ [][Next]_vars

\* Goroutines run and timers fire.  Nobody has to read or close a query.
FairSpec ==
    /\ Spec
    /\ WF_vars(LoggerStep)
    /\ \A r \in Requests : WF_vars(RequestStep(r))
    /\ \A q \in Ids : WF_vars(TimerFires(q))

-----------------------------------------------------------------------------
\* The queue, one logger and the order in which plugins log keep the order of a
\* session's events: an update that was executed after its insert was executed
\* is visible in the row, as long as the row is not trimmed.
UpdateVisible ==
    \A s \in Sessions :
        {[op |-> "insert", session |-> s], [op |-> "update", session |-> s]} \subseteq executed =>
            db[s] \in {"updated", "trimmed"}

\* A page never goes back in the result, and repeats a row only if the query was
\* closed under the reader, although other readers of the same query move on
\* the shared rows and Scan's error is ignored.
PageInOrder ==
    \A r \in Requests :
        LET page == request[r].page IN
        request[r].pc \in {"next", "scan"} =>
            \A i, j \in 1..Len(page) : i < j =>
                /\ page[i] <= page[j]
                /\ rows[request[r].q].st = "open" => page[i] < page[j]

\* No rows leak: rows that are open, and entries in the table, have a clean-up
\* goroutine, or a request that is about to start it.
OpenHasTimer ==
    \A q \in Ids : rows[q].st = "open" \/ q \in queries =>
        q \in timer \/ \E r \in Requests : request[r].pc = "created" /\ request[r].q = q

\* Every query is closed and forgotten in the end, even if no client asks.
QueriesCleaned == \A q \in Ids : rows[q].st # "none" ~> (rows[q].st = "closed" /\ q \notin queries)

=============================================================================
