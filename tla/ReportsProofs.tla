---------------------------- MODULE ReportsProofs ----------------------------
(***************************************************************************)
(* Proofs about Reports: its types, that no rows leak, that pages are in   *)
(* order and that updates of a session are visible, for any number of      *)
(* sessions, requests, rows and queries and any size of queue and page.    *)
(***************************************************************************)
EXTENDS Reports, SequenceTheorems, TLAPS

\* The types of the two halves of the state.
EventType ==
    /\ tables \in BOOLEAN
    /\ db \in [Sessions -> {"none", "inserted", "updated", "trimmed"}]
    /\ plugin \in [Sessions -> 0..2]
    /\ eventQueue \in Seq(Event)
    /\ Len(eventQueue) <= QueueSize
    /\ logger \in Event \cup {NoEvent}
    /\ executed \subseteq Event

QueryType ==
    /\ queryID \in 0..MaxQueries
    /\ queries \subseteq Ids
    /\ rows \in [Ids -> Rows]
    /\ timer \subseteq Ids
    /\ request \in [Requests -> RequestState]
    /\ \A r \in Requests : request[r].pc # "idle" => request[r].q \in Ids

LEMMA SplitType == (EventType /\ QueryType /\ open \in BOOLEAN) => TypeOK
  BY DEF EventType, QueryType, TypeOK

-----------------------------------------------------------------------------
LEMMA EventRecords ==
    \A s \in Sessions : [op |-> "insert", session |-> s] \in Event /\ [op |-> "update", session |-> s] \in Event
  BY DEF Event

LEMMA EventFields == \A e \in Event : e.op \in {"insert", "update"} /\ e.session \in Sessions
  BY DEF Event

LEMMA RowAfterType ==
    ASSUME NEW e \in Event, NEW row \in {"none", "inserted", "updated", "trimmed"}
    PROVE  RowAfter(e, row) \in {"none", "inserted", "updated", "trimmed"}
  BY DEF RowAfter

\* The event that LogEvent makes.
LEMMA LoggedEvent ==
    ASSUME NEW s \in Sessions
    PROVE  [op |-> IF plugin[s] = 0 THEN "insert" ELSE "update", session |-> s] \in Event
  BY DEF Event

\* The steps of plugins and the logger leave the queries alone.
LEMMA EventStepsFrame ==
    ASSUME (\E s \in Sessions : LogEvent(s)) \/ LoggerStep \/ Trim \/ Shutdown
    PROVE  UNCHANGED queryVars
  BY Zenon DEF LogEvent, LoggerStep, CreateTables, LoggerTakes, LoggerExecs, Trim, Shutdown

LEMMA NextEventType == EventType /\ [Next]_vars => EventType'
<1> SUFFICES ASSUME EventType, [Next]_vars PROVE EventType'
  OBVIOUS
<1>1. CASE UNCHANGED eventVars
  BY <1>1 DEF eventVars, EventType
<1>2. ASSUME NEW s \in Sessions, LogEvent(s) PROVE EventType'
  <2> DEFINE e == [op |-> IF plugin[s] = 0 THEN "insert" ELSE "update", session |-> s]
  <2>1. e \in Event
    BY LoggedEvent
  <2> HIDE DEF e
  <2>2. eventQueue' = IF Len(eventQueue) < QueueSize THEN Append(eventQueue, e) ELSE eventQueue
    BY <1>2 DEF LogEvent, e
  <2>3. eventQueue' \in Seq(Event) /\ Len(eventQueue') <= QueueSize
    BY <2>1, <2>2, AppendProperties, ReportsAssumption DEF EventType
  <2>4. plugin' \in [Sessions -> 0..2]
    BY <1>2 DEF LogEvent, EventType
  <2> QED
    BY <1>2, <2>3, <2>4 DEF LogEvent, EventType
<1>3. CASE CreateTables
  BY <1>3 DEF CreateTables, EventType
<1>4. CASE LoggerTakes
  <2>1. eventQueue' \in Seq(Event) /\ Len(eventQueue') <= QueueSize /\ logger' \in Event
    BY <1>4, HeadTailProperties, ReportsAssumption DEF LoggerTakes, EventType
  <2> QED
    BY <1>4, <2>1 DEF LoggerTakes, EventType
<1>5. CASE LoggerExecs
  <2>1. logger \in Event /\ logger.session \in Sessions
    BY <1>5, EventFields DEF LoggerExecs, EventType
  <2>2. RowAfter(logger, db[logger.session]) \in {"none", "inserted", "updated", "trimmed"}
    BY <2>1, RowAfterType DEF EventType
  <2>3. db' \in [Sessions -> {"none", "inserted", "updated", "trimmed"}] /\ executed' \subseteq Event
    BY <1>5, <2>1, <2>2 DEF LoggerExecs, EventType
  <2> QED
    BY <1>5, <2>3 DEF LoggerExecs, EventType
<1>6. CASE Trim
  BY <1>6 DEF Trim, EventType
<1>7. CASE Shutdown
  BY Zenon, <1>7, <1>1 DEF Shutdown
<1>8. CASE \E r \in Requests : RunQuery(r) \/ RequestStep(r) \/ \E q \in Ids : FindQuery(r, q)
  BY <1>8, <1>1 DEF RunQuery, RequestStep, InsertQuery, StartPage, NextRow, ScanRow, CloseQuery, FindQuery
<1>9. CASE \E q \in Ids : TimerFires(q)
  BY <1>9, <1>1 DEF TimerFires
<1>10. CASE UNCHANGED vars
  BY <1>10, <1>1 DEF vars
<1> QED
  BY <1>2, <1>3, <1>4, <1>5, <1>6, <1>7, <1>8, <1>9, <1>10 DEF Next, LoggerStep

LEMMA InitEventType == Init => EventType
<1> SUFFICES ASSUME Init PROVE EventType
  OBVIOUS
<1>1. eventQueue \in Seq(Event) /\ Len(eventQueue) <= QueueSize
  BY ReportsAssumption, EmptySeq DEF Init
<1>2. logger \in Event \cup {NoEvent} /\ executed \subseteq Event
  BY DEF Init
<1>3. db \in [Sessions -> {"none", "inserted", "updated", "trimmed"}] /\ plugin \in [Sessions -> 0..2]
  BY DEF Init
<1> QED
  BY Zenon, <1>1, <1>2, <1>3 DEF Init, EventType

-----------------------------------------------------------------------------
Pc == {"idle", "created", "get", "next", "scan", "close"}

\* What Goto does to the requests.
LEMMA GotoType ==
    ASSUME QueryType, NEW r \in Requests, NEW pc \in Pc, NEW q \in 0..MaxQueries,
           NEW page \in Seq(0..RowCount), NEW val \in 0..RowCount, Goto(r, pc, q, page, val),
           pc # "idle" => q \in Ids
    PROVE  /\ request' \in [Requests -> RequestState]
           /\ \A x \in Requests : request'[x].pc # "idle" => request'[x].q \in Ids
           /\ \A x \in Requests \ {r} : request'[x] = request[x]
           /\ request'[r].pc = pc /\ request'[r].q = q
           /\ request'[r].page = page /\ request'[r].val = val
<1> DEFINE new == [pc |-> pc, q |-> q, page |-> page, val |-> val]
<1>1. new \in RequestState /\ new.pc = pc /\ new.q = q /\ new.page = page /\ new.val = val
  BY DEF RequestState, Pc
<1> HIDE DEF new
<1>2. request' = [request EXCEPT ![r] = new]
  BY DEF Goto, new
<1> QED
  BY <1>1, <1>2 DEF QueryType

\* Ending a request.
LEMMA GotoIdle ==
    ASSUME QueryType, NEW r \in Requests, Goto(r, "idle", 0, <<>>, 0)
    PROVE  /\ request' \in [Requests -> RequestState]
           /\ \A x \in Requests : request'[x].pc # "idle" => request'[x].q \in Ids
           /\ \A x \in Requests \ {r} : request'[x] = request[x]
           /\ request'[r].pc = "idle" /\ request'[r].q = 0 /\ request'[r].page = <<>>
<1>1. 0 \in 0..MaxQueries /\ 0 \in 0..RowCount /\ <<>> \in Seq(0..RowCount) /\ "idle" \in Pc
  BY ReportsAssumption DEF Pc
<1> QED
  BY ZenonT(60), <1>1, GotoType

LEMMA RequestFields ==
    ASSUME QueryType, NEW r \in Requests
    PROVE  /\ request[r].pc \in Pc
           /\ request[r].q \in 0..MaxQueries
           /\ request[r].page \in Seq(0..RowCount)
           /\ request[r].val \in 0..RowCount
  BY DEF QueryType, RequestState, Pc

LEMMA RowsFields ==
    ASSUME QueryType, NEW q \in Ids
    PROVE  /\ rows[q].st \in {"none", "open", "closed"}
           /\ rows[q].pos \in 0..RowCount
           /\ rows[q].nil \in BOOLEAN
  BY DEF QueryType, Rows

\* Next moves on by one row, or closes.
LEMMA AdvanceType ==
    ASSUME NEW R \in Rows
    PROVE  /\ Advance(R) \in Rows
           /\ Advance(R).st \in {"open", "closed"}
           /\ Advance(R).st = "open" => R.st # "closed" /\ Advance(R).pos = R.pos + 1
<1>1. R.pos \in 0..RowCount /\ R.nil \in BOOLEAN /\ R.st \in {"none", "open", "closed"}
  BY DEF Rows
<1>2. CASE R.st = "closed"
  BY <1>2 DEF Advance
<1>3. CASE R.st # "closed" /\ R.pos < RowCount
  <2>1. Advance(R) = [st |-> "open", pos |-> R.pos + 1, nil |-> R.nil]
    BY <1>3 DEF Advance
  <2>2. R.pos + 1 \in 0..RowCount
    BY <1>1, <1>3, ReportsAssumption
  <2> QED
    BY <1>1, <1>3, <2>1, <2>2 DEF Rows
<1>4. CASE R.st # "closed" /\ ~(R.pos < RowCount)
  <2>1. Advance(R) = [st |-> "closed", pos |-> R.pos, nil |-> R.nil]
    BY <1>4 DEF Advance
  <2> QED
    BY <1>1, <2>1 DEF Rows
<1> QED
  BY <1>2, <1>3, <1>4

\* cleanupQuery closes the rows of its query and of no other.
LEMMA CleanupType ==
    ASSUME QueryType, NEW q \in Ids, CleanupQuery(q)
    PROVE  /\ rows' \in [Ids -> Rows]
           /\ \A x \in Ids \ {q} : rows'[x] = rows[x]
           /\ rows'[q].st = "closed" /\ rows'[q].pos = rows[q].pos
           /\ queries' = queries \ {q}
<1> DEFINE new == [st |-> "closed", pos |-> rows[q].pos, nil |-> TRUE]
<1>1. new \in Rows /\ new.st = "closed" /\ new.pos = rows[q].pos
  BY RowsFields DEF Rows
<1> HIDE DEF new
<1>2. rows' = [rows EXCEPT ![q] = new] /\ queries' = queries \ {q}
  BY DEF CleanupQuery, new
<1> QED
  BY <1>1, <1>2 DEF QueryType

-----------------------------------------------------------------------------
\* Rows exist only for ids that were handed out, and a request or an entry of
\* the table always refers to rows that exist.
Allocated ==
    /\ \A q \in Ids : rows[q].st # "none" => q <= queryID
    /\ \A q \in queries \cup timer : rows[q].st # "none"
    /\ \A r \in Requests : request[r].pc # "idle" => rows[request[r].q].st # "none"

\* The page of r is in order and ends with val; Next is ahead of val.
PageOK(r) ==
    LET page == request[r].page
        R == rows[request[r].q]
    IN  request[r].pc \in {"next", "scan"} =>
          /\ \A i \in 1..Len(page) : page[i] <= request[r].val
          /\ request[r].val <= R.pos
          /\ request[r].pc = "scan" /\ R.st = "open" => request[r].val < R.pos
          /\ \A i, j \in 1..Len(page) : i < j =>
               /\ page[i] <= page[j]
               /\ R.st = "open" => page[i] < page[j]

QueryInv ==
    /\ QueryType
    /\ Allocated
    /\ OpenHasTimer
    /\ \A r \in Requests : PageOK(r)

\* How the rows of a query develop: forward only, and closed for good.
RowsGrow ==
    \A q \in Ids : rows[q].st # "none" =>
        /\ rows'[q].st # "none"
        /\ rows'[q].pos >= rows[q].pos
        /\ rows'[q].st = "open" => rows[q].st = "open"

\* A request that does not move keeps its page in order.
LEMMA PageKept ==
    ASSUME QueryInv, QueryType', RowsGrow, NEW x \in Requests, request'[x] = request[x]
    PROVE  PageOK(x)'
<1> SUFFICES ASSUME request[x].pc \in {"next", "scan"} PROVE PageOK(x)'
  BY DEF PageOK
<1>1. request[x].q \in Ids /\ rows[request[x].q].st # "none"
  BY DEF QueryInv, QueryType, Allocated
<1>2. /\ rows'[request[x].q].pos >= rows[request[x].q].pos
      /\ rows'[request[x].q].st = "open" => rows[request[x].q].st = "open"
  BY <1>1 DEF RowsGrow
<1>3. rows[request[x].q].pos \in Int /\ rows'[request[x].q].pos \in Int /\ request[x].val \in Int
  BY <1>1, RequestFields DEF QueryInv, QueryType, Rows
<1>4. PageOK(x)
  BY DEF QueryInv
<1> QED
  BY <1>2, <1>3, <1>4 DEF PageOK

\* The same for a request that stays or becomes idle.
LEMMA PageIdle ==
    ASSUME NEW x \in Requests, request'[x].pc \notin {"next", "scan"}
    PROVE  PageOK(x)'
  BY DEF PageOK

-----------------------------------------------------------------------------
LEMMA RunQueryInv ==
    ASSUME QueryInv, NEW r \in Requests, RunQuery(r)
    PROVE  QueryInv'
<1> DEFINE id == queryID + 1
           new == [st |-> "open", pos |-> 0, nil |-> FALSE]
<1>1. id \in Ids /\ id \in 0..MaxQueries /\ 0 \in 0..RowCount /\ <<>> \in Seq(0..RowCount) /\ "created" \in Pc
  BY ReportsAssumption DEF RunQuery, QueryInv, QueryType, Ids, Pc
<1>2. new \in Rows /\ new.st = "open" /\ new.pos = 0
  BY <1>1 DEF Rows
<1>3. rows[id].st = "none"
  BY <1>1, RowsFields DEF QueryInv, QueryType, Allocated
<1>4. queryID' = id /\ UNCHANGED <<queries, timer>> /\ rows' = [rows EXCEPT ![id] = new]
      /\ Goto(r, "created", id, <<>>, 0)
  BY DEF RunQuery
<1> HIDE DEF id, new
<1>5. /\ request' \in [Requests -> RequestState]
      /\ \A x \in Requests : request'[x].pc # "idle" => request'[x].q \in Ids
      /\ \A x \in Requests \ {r} : request'[x] = request[x]
      /\ request'[r].pc = "created" /\ request'[r].q = id
  BY ZenonT(60), <1>1, <1>4, GotoType DEF QueryInv
<1>6. QueryType'
  BY <1>1, <1>2, <1>4, <1>5 DEF QueryInv, QueryType
<1>7. /\ rows'[id].st = "open"
      /\ \A q \in Ids \ {id} : rows'[q] = rows[q]
  BY <1>1, <1>2, <1>4 DEF QueryInv, QueryType
<1>8. RowsGrow
  <2> SUFFICES ASSUME NEW q \in Ids, rows[q].st # "none"
               PROVE  rows'[q] = rows[q] /\ rows[q].pos \in Int
    BY DEF RowsGrow
  <2> QED
    BY <1>3, <1>7, RowsFields DEF QueryInv
<1>9. Allocated'
  <2>1. \A q \in Ids : rows'[q].st # "none" => q <= queryID'
    BY <1>4, <1>7, <1>1, ReportsAssumption DEF QueryInv, QueryType, Allocated, Ids, id
  <2>2. \A q \in queries' \cup timer' : rows'[q].st # "none"
    BY <1>4, <1>7 DEF QueryInv, QueryType, Allocated
  <2>3. \A x \in Requests : request'[x].pc # "idle" => rows'[request'[x].q].st # "none"
    BY <1>5, <1>7 DEF QueryInv, QueryType, Allocated
  <2> QED
    BY <2>1, <2>2, <2>3 DEF Allocated
<1>10. OpenHasTimer'
  <2> SUFFICES ASSUME NEW q \in Ids, rows'[q].st = "open" \/ q \in queries'
               PROVE  q \in timer' \/ \E x \in Requests : request'[x].pc = "created" /\ request'[x].q = q
    BY DEF OpenHasTimer
  <2>1. CASE q = id
    BY Zenon, <2>1, <1>5
  <2>2. CASE q # id
    <3>1. q \in timer \/ \E x \in Requests : request[x].pc = "created" /\ request[x].q = q
      BY <2>2, <1>4, <1>7 DEF QueryInv, OpenHasTimer
    <3>2. request[r].pc = "idle"
      BY DEF RunQuery
    <3> QED
      BY Zenon, <3>1, <3>2, <1>4, <1>5
  <2> QED
    BY <2>1, <2>2
<1>11. \A x \in Requests : PageOK(x)'
  <2>1. PageOK(r)'
    BY Zenon, <1>5, PageIdle
  <2> QED
    BY <1>5, <1>6, <1>8, <2>1, PageKept
<1> QED
  BY <1>6, <1>9, <1>10, <1>11 DEF QueryInv

-----------------------------------------------------------------------------
\* The facts that the remaining steps share.
NoNewRows == queryID' = queryID /\ \A q \in Ids : rows[q].st = "none" => rows'[q].st = "none"

LEMMA AllocatedKept ==
    ASSUME QueryInv, QueryType', RowsGrow, NoNewRows,
           \A q \in queries' \cup timer' : rows[q].st # "none",
           \A x \in Requests : request'[x].pc # "idle" => rows[request'[x].q].st # "none"
    PROVE  Allocated'
<1>1. \A q \in Ids : rows'[q].st # "none" => q <= queryID'
  BY DEF NoNewRows, QueryInv, Allocated
<1>2. \A q \in queries' \cup timer' : rows'[q].st # "none"
  BY DEF RowsGrow, QueryType
<1>3. \A x \in Requests : request'[x].pc # "idle" => rows'[request'[x].q].st # "none"
  BY DEF RowsGrow, QueryType
<1> QED
  BY <1>1, <1>2, <1>3 DEF Allocated

LEMMA TimerKept ==
    ASSUME QueryInv, RowsGrow, NoNewRows, queries' \subseteq queries, timer' = timer,
           \A x \in Requests : request[x].pc = "created" => request'[x] = request[x]
    PROVE  OpenHasTimer'
<1> SUFFICES ASSUME NEW q \in Ids, rows'[q].st = "open" \/ q \in queries'
             PROVE  q \in timer \/ \E x \in Requests : request'[x].pc = "created" /\ request'[x].q = q
  BY DEF OpenHasTimer
<1>1. rows[q].st = "open" \/ q \in queries
  BY DEF RowsGrow, NoNewRows
<1> QED
  BY <1>1 DEF QueryInv, OpenHasTimer

LEMMA SameRows ==
    ASSUME QueryInv, rows' = rows, queryID' = queryID
    PROVE  RowsGrow /\ NoNewRows
<1>1. \A q \in Ids : rows[q].pos \in Int
  BY RowsFields DEF QueryInv
<1> QED
  BY <1>1 DEF RowsGrow, NoNewRows

LEMMA InsertQueryInv ==
    ASSUME QueryInv, NEW r \in Requests, InsertQuery(r)
    PROVE  QueryInv'
<1> DEFINE q == request[r].q
<1>1. q \in Ids /\ rows[q].st # "none"
  BY DEF InsertQuery, QueryInv, QueryType, Allocated
<1>2. queries' = queries \cup {q} /\ timer' = timer \cup {q} /\ rows' = rows /\ queryID' = queryID
  BY DEF InsertQuery
<1>3. /\ request' \in [Requests -> RequestState]
      /\ \A x \in Requests : request'[x].pc # "idle" => request'[x].q \in Ids
      /\ \A x \in Requests \ {r} : request'[x] = request[x]
      /\ request'[r].pc = "idle"
  BY GotoIdle DEF InsertQuery, QueryInv
<1> HIDE DEF q
<1>4. QueryType'
  BY <1>1, <1>2, <1>3 DEF QueryInv, QueryType
<1>5. RowsGrow /\ NoNewRows
  BY <1>2, SameRows
<1>6. Allocated'
  <2>1. \A x \in queries' \cup timer' : rows[x].st # "none"
    BY Zenon, <1>1, <1>2 DEF QueryInv, Allocated
  <2>2. \A x \in Requests : request'[x].pc # "idle" => rows[request'[x].q].st # "none"
    BY Zenon, <1>3 DEF QueryInv, Allocated
  <2> QED
    BY Zenon, <1>4, <1>5, <2>1, <2>2, AllocatedKept
<1>7. OpenHasTimer'
  <2> SUFFICES ASSUME NEW k \in Ids, rows'[k].st = "open" \/ k \in queries', k # q
               PROVE  k \in timer' \/ \E x \in Requests : request'[x].pc = "created" /\ request'[x].q = k
    BY Zenon, <1>2 DEF OpenHasTimer
  <2>1. k \in timer \/ \E x \in Requests : request[x].pc = "created" /\ request[x].q = k
    BY Zenon, <1>2 DEF QueryInv, OpenHasTimer
  <2> QED
    BY Zenon, <2>1, <1>2, <1>3 DEF q
<1>8. \A x \in Requests : PageOK(x)'
  <2>1. PageOK(r)'
    BY <1>3, PageIdle
  <2> QED
    BY Zenon, <1>3, <1>4, <1>5, <2>1, PageKept
<1> QED
  BY <1>4, <1>6, <1>7, <1>8 DEF QueryInv

LEMMA FindQueryInv ==
    ASSUME QueryInv, NEW r \in Requests, NEW q \in Ids, FindQuery(r, q)
    PROVE  QueryInv'
<1>1. PICK pc \in {"get", "close"} : Goto(r, pc, q, <<>>, 0)
  BY DEF FindQuery
<1>2. pc \in Pc /\ q \in 0..MaxQueries /\ 0 \in 0..RowCount /\ <<>> \in Seq(0..RowCount)
  BY ReportsAssumption DEF Ids, Pc
<1>3. /\ request' \in [Requests -> RequestState]
      /\ \A x \in Requests : request'[x].pc # "idle" => request'[x].q \in Ids
      /\ \A x \in Requests \ {r} : request'[x] = request[x]
      /\ request'[r].pc = pc /\ request'[r].q = q
  BY ZenonT(60), <1>1, <1>2, GotoType DEF QueryInv
<1>4. UNCHANGED <<queryID, queries, rows, timer>> /\ q \in queries /\ request[r].pc = "idle"
  BY DEF FindQuery
<1>5. QueryType'
  BY <1>3, <1>4 DEF QueryInv, QueryType
<1>6. RowsGrow /\ NoNewRows
  BY <1>4, SameRows
<1>7. Allocated'
  <2>1. \A x \in queries' \cup timer' : rows[x].st # "none"
    BY Zenon, <1>4 DEF QueryInv, Allocated
  <2>2. \A x \in Requests : request'[x].pc # "idle" => rows[request'[x].q].st # "none"
    BY Zenon, <1>3, <1>4 DEF QueryInv, Allocated
  <2> QED
    BY Zenon, <1>5, <1>6, <2>1, <2>2, AllocatedKept
<1>8. OpenHasTimer'
  BY Zenon, <1>3, <1>4, <1>6, TimerKept
<1>9. \A x \in Requests : PageOK(x)'
  <2>1. PageOK(r)'
    BY Zenon, <1>3, PageIdle
  <2> QED
    BY Zenon, <1>3, <1>5, <1>6, <2>1, PageKept
<1> QED
  BY <1>5, <1>7, <1>8, <1>9 DEF QueryInv

LEMMA StartPageInv ==
    ASSUME QueryInv, NEW r \in Requests, StartPage(r)
    PROVE  QueryInv'
<1>1. UNCHANGED <<queryID, queries, rows, timer>> /\ request[r].pc = "get"
  BY Zenon DEF StartPage
<1>2. request[r].q \in Ids /\ request[r].q \in 0..MaxQueries /\ rows[request[r].q].st # "none"
  BY <1>1, RequestFields DEF QueryInv, QueryType, Allocated
<1>3. "next" \in Pc /\ 0 \in 0..RowCount /\ <<>> \in Seq(0..RowCount)
  BY ReportsAssumption DEF Pc
<1>4. /\ request' \in [Requests -> RequestState]
      /\ \A x \in Requests : request'[x].pc # "idle" => request'[x].q \in Ids
      /\ \A x \in Requests \ {r} : request'[x] = request[x]
      /\ \/ request'[r].pc = "idle"
         \/ /\ request'[r].pc = "next"
            /\ request'[r].q = request[r].q /\ request'[r].page = <<>> /\ request'[r].val = 0
  <2>1. CASE Goto(r, "idle", 0, <<>>, 0)
    BY Zenon, <2>1, GotoIdle DEF QueryInv
  <2>2. CASE Goto(r, "next", request[r].q, <<>>, 0)
    <3>1. QueryType
      BY DEF QueryInv
    <3>2. /\ request' \in [Requests -> RequestState]
          /\ \A x \in Requests : request'[x].pc # "idle" => request'[x].q \in Ids
          /\ \A x \in Requests \ {r} : request'[x] = request[x]
          /\ request'[r].pc = "next" /\ request'[r].q = request[r].q
          /\ request'[r].page = <<>> /\ request'[r].val = 0
      BY ZenonT(60), <2>2, <1>2, <1>3, <3>1, GotoType
    <3> QED
      BY <3>2
  <2> QED
    BY Zenon, <2>1, <2>2 DEF StartPage
<1>5. QueryType'
  BY <1>1, <1>4 DEF QueryInv, QueryType
<1>6. RowsGrow /\ NoNewRows
  BY Zenon, <1>1, SameRows
<1>7. Allocated'
  <2>1. \A x \in queries' \cup timer' : rows[x].st # "none"
    BY Zenon, <1>1 DEF QueryInv, Allocated
  <2>2. \A x \in Requests : request'[x].pc # "idle" => rows[request'[x].q].st # "none"
    BY Zenon, <1>2, <1>4 DEF QueryInv, Allocated
  <2> QED
    BY <1>5, <1>6, <2>1, <2>2, AllocatedKept
<1>8. OpenHasTimer'
  BY Zenon, <1>1, <1>4, <1>6, TimerKept
<1>9. \A x \in Requests : PageOK(x)'
  <2>1. rows[request[r].q].pos \in 0..RowCount
    BY Zenon, <1>2, RowsFields DEF QueryInv
  <2>2. PageOK(r)'
    BY <1>1, <1>4, <2>1, ReportsAssumption DEF PageOK
  <2> QED
    BY <1>4, <1>5, <1>6, <2>2, PageKept
<1> QED
  BY <1>5, <1>7, <1>8, <1>9 DEF QueryInv

LEMMA AdvanceGrows ==
    ASSUME NEW R \in Rows
    PROVE  Advance(R).pos >= R.pos
<1>1. R.pos \in 0..RowCount
  BY DEF Rows
<1>2. CASE R.st = "closed"
  BY <1>1, <1>2 DEF Advance
<1>3. CASE R.st # "closed" /\ R.pos < RowCount
  BY <1>1, <1>3 DEF Advance
<1>4. CASE R.st # "closed" /\ ~(R.pos < RowCount)
  BY <1>1, <1>4 DEF Advance
<1> QED
  BY <1>2, <1>3, <1>4

LEMMA NextRowInv ==
    ASSUME QueryInv, NEW r \in Requests, NextRow(r)
    PROVE  QueryInv'
<1> DEFINE q == request[r].q
           new == Advance(rows[q])
<1>1. QueryType /\ request[r].pc = "next" /\ UNCHANGED <<queryID, queries, timer>>
  BY Zenon DEF NextRow, QueryInv
<1>2. q \in Ids /\ q \in 0..MaxQueries /\ rows[q].st # "none"
  BY <1>1, RequestFields DEF QueryInv, QueryType, Allocated
<1>3. rows[q] \in Rows /\ rows[q].st \in {"open", "closed"} /\ rows[q].pos \in 0..RowCount
  BY Zenon, <1>1, <1>2, RowsFields DEF QueryType
<1>4. /\ new \in Rows /\ new.st \in {"open", "closed"} /\ new.pos >= rows[q].pos
      /\ new.st = "open" => rows[q].st = "open" /\ new.pos = rows[q].pos + 1
  <2>1. /\ new \in Rows /\ new.st \in {"open", "closed"}
        /\ new.st = "open" => rows[q].st # "closed" /\ new.pos = rows[q].pos + 1
    BY Zenon, <1>3, AdvanceType
  <2>2. new.pos >= rows[q].pos
    BY <1>3, AdvanceGrows
  <2> QED
    BY Zenon, <1>3, <2>1, <2>2
<1>5. rows' = [rows EXCEPT ![q] = new]
  BY ZenonT(60) DEF NextRow
<1>6. /\ request' \in [Requests -> RequestState]
      /\ \A x \in Requests : request'[x].pc # "idle" => request'[x].q \in Ids
      /\ \A x \in Requests \ {r} : request'[x] = request[x]
      /\ \/ request'[r].pc = "idle"
         \/ /\ new.st = "open" /\ request'[r].pc = "scan" /\ request'[r].q = q
            /\ request'[r].page = request[r].page /\ request'[r].val = request[r].val
  <2>1. CASE Goto(r, "idle", 0, <<>>, 0)
    BY Zenon, <1>1, <2>1, GotoIdle
  <2>2. CASE new.st = "open" /\ Goto(r, "scan", q, request[r].page, request[r].val)
    <3>1. "scan" \in Pc /\ request[r].page \in Seq(0..RowCount) /\ request[r].val \in 0..RowCount
      BY Zenon, <1>1, RequestFields DEF Pc
    <3>2. /\ request' \in [Requests -> RequestState]
          /\ \A x \in Requests : request'[x].pc # "idle" => request'[x].q \in Ids
          /\ \A x \in Requests \ {r} : request'[x] = request[x]
          /\ request'[r].pc = "scan" /\ request'[r].q = q
          /\ request'[r].page = request[r].page /\ request'[r].val = request[r].val
      BY <1>1, <1>2, <2>2, <3>1, GotoType
    <3> QED
      BY <2>2, <3>2
  <2> QED
    BY <2>1, <2>2 DEF NextRow
<1> HIDE DEF new
<1>7. rows' \in [Ids -> Rows] /\ rows'[q] = new /\ \A x \in Ids \ {q} : rows'[x] = rows[x]
  BY Zenon, <1>1, <1>2, <1>4, <1>5 DEF QueryType
<1> HIDE DEF q
<1>8. QueryType'
  BY Zenon, <1>1, <1>6, <1>7 DEF QueryType
<1>9. RowsGrow /\ NoNewRows
  <2>1. \A x \in Ids : rows[x].pos \in Int
    BY <1>1, RowsFields
  <2> QED
    BY <1>1, <1>2, <1>4, <1>7, <2>1 DEF RowsGrow, NoNewRows
<1>10. Allocated'
  <2>1. \A x \in queries' \cup timer' : rows[x].st # "none"
    BY Zenon, <1>1 DEF QueryInv, Allocated
  <2>2. \A x \in Requests : request'[x].pc # "idle" => rows[request'[x].q].st # "none"
    BY Zenon, <1>2, <1>6 DEF QueryInv, Allocated
  <2> QED
    BY <1>8, <1>9, <2>1, <2>2, AllocatedKept
<1>11. OpenHasTimer'
  BY Zenon, <1>1, <1>6, <1>9, TimerKept
<1>12. \A x \in Requests : PageOK(x)'
  <2>1. CASE request'[r].pc = "idle"
    <3>1. PageOK(r)'
      BY Zenon, <2>1, PageIdle
    <3> QED
      BY Zenon, <1>6, <1>8, <1>9, <3>1, PageKept
  <2>2. CASE /\ new.st = "open" /\ request'[r].pc = "scan" /\ request'[r].q = q
             /\ request'[r].page = request[r].page /\ request'[r].val = request[r].val
    <3>1. PageOK(r)
      BY Zenon DEF QueryInv
    <3>2. request[r].val \in Int /\ rows[q].pos \in Int /\ new.pos \in Int
      BY SMTT(30), <1>1, <1>3, <1>4, <2>2, RequestFields
    <3>3. /\ \A i \in 1..Len(request[r].page) : request[r].page[i] <= request[r].val
          /\ request[r].val <= rows[q].pos
          /\ \A i, j \in 1..Len(request[r].page) : i < j => request[r].page[i] < request[r].page[j]
      BY Zenon, <1>1, <1>4, <2>2, <3>1 DEF PageOK, q
    <3>4. request[r].val < new.pos /\ request[r].val <= new.pos
      BY <1>4, <2>2, <3>2, <3>3
    <3>5. \A i, j \in 1..Len(request[r].page) : i < j => request[r].page[i] <= request[r].page[j]
      BY Zenon, <1>1, <3>1 DEF PageOK
    <3>6. PageOK(r)'
      BY Zenon, <1>7, <2>2, <3>3, <3>4, <3>5 DEF PageOK
    <3> QED
      BY <1>6, <1>8, <1>9, <3>6, PageKept
  <2> QED
    BY Zenon, <1>6, <2>1, <2>2
<1> QED
  BY <1>8, <1>10, <1>11, <1>12 DEF QueryInv

LEMMA ScanRowInv ==
    ASSUME QueryInv, NEW r \in Requests, ScanRow(r)
    PROVE  QueryInv'
<1> DEFINE q == request[r].q
           page == request[r].page
           old == request[r].val
           val == IF rows[q].st = "open" THEN rows[q].pos ELSE old
           new == Append(page, val)
<1>1. QueryType /\ request[r].pc = "scan" /\ UNCHANGED <<queryID, queries, rows, timer>>
  BY Zenon DEF ScanRow, QueryInv
<1>2. q \in Ids /\ q \in 0..MaxQueries /\ rows[q].st # "none"
  BY Zenon, <1>1, RequestFields DEF QueryInv, QueryType, Allocated
<1>3. page \in Seq(0..RowCount) /\ old \in 0..RowCount /\ rows[q].pos \in 0..RowCount
  BY <1>1, <1>2, RequestFields, RowsFields
<1>4. val \in 0..RowCount
  BY Zenon, <1>3
<1>5. Goto(r, "next", q, new, val)
  BY Zenon DEF ScanRow
<1> HIDE DEF val
<1>6. new \in Seq(0..RowCount) /\ "next" \in Pc
  BY <1>3, <1>4 DEF Pc
<1> HIDE DEF new
<1>7. /\ request' \in [Requests -> RequestState]
      /\ \A x \in Requests : request'[x].pc # "idle" => request'[x].q \in Ids
      /\ \A x \in Requests \ {r} : request'[x] = request[x]
      /\ request'[r].pc = "next" /\ request'[r].q = q
      /\ request'[r].page = new /\ request'[r].val = val
  BY Zenon, <1>1, <1>2, <1>4, <1>5, <1>6, GotoType
<1>8. QueryType'
  BY <1>1, <1>7 DEF QueryType
<1>9. RowsGrow /\ NoNewRows
  BY Zenon, <1>1, SameRows
<1>10. Allocated'
  <2>1. \A x \in queries' \cup timer' : rows[x].st # "none"
    BY Zenon, <1>1 DEF QueryInv, Allocated
  <2>2. \A x \in Requests : request'[x].pc # "idle" => rows[request'[x].q].st # "none"
    BY <1>2, <1>7 DEF QueryInv, Allocated
  <2> QED
    BY <1>8, <1>9, <2>1, <2>2, AllocatedKept
<1>11. OpenHasTimer'
  BY Zenon, <1>1, <1>7, <1>9, TimerKept
<1>12. PageOK(r)'
  <2> DEFINE n == Len(page)
  <2>1. /\ \A i \in 1..n : page[i] <= old
        /\ old <= rows[q].pos
        /\ rows[q].st = "open" => old < rows[q].pos
        /\ \A i, j \in 1..n : i < j => page[i] <= page[j]
        /\ rows[q].st = "open" => \A i, j \in 1..n : i < j => page[i] < page[j]
    BY ZenonT(60), <1>1 DEF QueryInv, PageOK
  <2>2. old <= val /\ val <= rows[q].pos /\ (rows[q].st = "open" => old < val)
    BY <1>3, <2>1 DEF val
  <2>3. /\ n \in Nat /\ Len(new) = n + 1 /\ new[n + 1] = val
        /\ \A i \in 1..n : new[i] = page[i] /\ page[i] \in 0..RowCount
    <3>1. n \in Nat /\ \A i \in 1..n : page[i] \in 0..RowCount
      BY Zenon, <1>3, ElementOfSeq, LenProperties
    <3>2. Len(new) = n + 1
      BY <1>3, <1>4, AppendProperties DEF new
    <3>3. new[n + 1] = val
      BY <1>3, <1>4, AppendProperties DEF new
    <3>4. \A i \in 1..n : new[i] = page[i]
      BY <1>3, <1>4, AppendProperties DEF new
    <3> QED
      BY <3>1, <3>2, <3>3, <3>4
  <2> HIDE DEF n
  <2>4. \A i \in 1..Len(new) : new[i] <= val
    <3> SUFFICES ASSUME NEW i \in 1..(n + 1) PROVE new[i] <= val
      BY Zenon, <2>3
    <3>1. CASE i = n + 1
      BY <1>4, <2>3, <3>1
    <3>2. CASE i \in 1..n
      <4>1. page[i] <= old /\ new[i] = page[i] /\ page[i] \in Int
        BY <2>1, <2>3, <3>2
      <4> QED
        BY <1>3, <1>4, <2>2, <4>1
    <3> QED
      BY <2>3, <3>1, <3>2
  <2>5. \A i, j \in 1..Len(new) : i < j => new[i] <= new[j]
    <3> SUFFICES ASSUME NEW i \in 1..n, NEW j \in 1..(n + 1), i < j PROVE new[i] <= new[j]
      BY <2>3
    <3>1. CASE j = n + 1
      BY <2>3, <2>4, <3>1
    <3>2. CASE j \in 1..n
      BY Zenon, <2>1, <2>3, <3>2
    <3> QED
      BY <2>3, <3>1, <3>2
  <2>6. ASSUME rows[q].st = "open" PROVE \A i, j \in 1..Len(new) : i < j => new[i] < new[j]
    <3> SUFFICES ASSUME NEW i \in 1..n, NEW j \in 1..(n + 1), i < j PROVE new[i] < new[j]
      BY <2>3
    <3>1. CASE j = n + 1
      <4>1. page[i] <= old /\ old < val /\ page[i] \in Int
        BY <2>1, <2>2, <2>3, <2>6
      <4> QED
        BY <1>3, <1>4, <2>3, <3>1, <4>1
    <3>2. CASE j \in 1..n
      BY Zenon, <2>1, <2>3, <2>6, <3>2
    <3> QED
      BY <2>3, <3>1, <3>2
  <2> QED
    BY Zenon, <1>1, <1>7, <2>2, <2>4, <2>5, <2>6 DEF PageOK
<1>13. \A x \in Requests : PageOK(x)'
  BY Zenon, <1>7, <1>8, <1>9, <1>12, PageKept
<1> QED
  BY <1>8, <1>10, <1>11, <1>13 DEF QueryInv

\* A clean-up closes the rows of q and removes its entry.
LEMMA CleanupGrows ==
    ASSUME QueryInv, NEW q \in Ids, rows[q].st # "none", CleanupQuery(q), queryID' = queryID
    PROVE  RowsGrow /\ NoNewRows
<1>1. \A x \in Ids : rows[x].pos \in Int
  BY RowsFields DEF QueryInv
<1>2. /\ \A x \in Ids \ {q} : rows'[x] = rows[x]
      /\ rows'[q].st = "closed" /\ rows'[q].pos = rows[q].pos
  BY Zenon, CleanupType DEF QueryInv
<1> QED
  BY <1>1, <1>2 DEF RowsGrow, NoNewRows

LEMMA CloseQueryInv ==
    ASSUME QueryInv, NEW r \in Requests, CloseQuery(r)
    PROVE  QueryInv'
<1> DEFINE q == request[r].q
<1>1. /\ QueryType /\ request[r].pc = "close" /\ queryID' = queryID /\ timer' = timer
      /\ CleanupQuery(q)
  BY Zenon DEF CloseQuery, QueryInv
<1>2. q \in Ids /\ rows[q].st # "none"
  BY Zenon, <1>1 DEF QueryInv, QueryType, Allocated
<1>3. /\ request' \in [Requests -> RequestState]
      /\ \A x \in Requests : request'[x].pc # "idle" => request'[x].q \in Ids
      /\ \A x \in Requests \ {r} : request'[x] = request[x]
      /\ request'[r].pc = "idle"
  BY Zenon, <1>1, GotoIdle DEF CloseQuery
<1> HIDE DEF q
<1>4. rows' \in [Ids -> Rows] /\ queries' = queries \ {q}
  BY Zenon, <1>1, <1>2, CleanupType
<1>5. QueryType'
  BY <1>1, <1>3, <1>4 DEF QueryType
<1>6. RowsGrow /\ NoNewRows
  BY Zenon, <1>1, <1>2, CleanupGrows
<1>7. Allocated'
  <2>1. \A x \in queries' \cup timer' : rows[x].st # "none"
    BY Zenon, <1>1, <1>4 DEF QueryInv, Allocated
  <2>2. \A x \in Requests : request'[x].pc # "idle" => rows[request'[x].q].st # "none"
    BY <1>3 DEF QueryInv, Allocated
  <2> QED
    BY <1>5, <1>6, <2>1, <2>2, AllocatedKept
<1>8. OpenHasTimer'
  BY Zenon, <1>1, <1>3, <1>4, <1>6, TimerKept
<1>9. \A x \in Requests : PageOK(x)'
  <2>1. PageOK(r)'
    BY <1>3, PageIdle
  <2> QED
    BY <1>3, <1>5, <1>6, <2>1, PageKept
<1> QED
  BY <1>5, <1>7, <1>8, <1>9 DEF QueryInv

LEMMA TimerFiresInv ==
    ASSUME QueryInv, NEW q \in Ids, TimerFires(q)
    PROVE  QueryInv'
<1>1. /\ QueryType /\ timer' = timer \ {q} /\ queryID' = queryID /\ request' = request
      /\ CleanupQuery(q) /\ rows[q].st # "none"
  BY Zenon DEF TimerFires, QueryInv, Allocated
<1>2. /\ rows' \in [Ids -> Rows] /\ queries' = queries \ {q}
      /\ rows'[q].st = "closed" /\ \A x \in Ids \ {q} : rows'[x] = rows[x]
  BY Zenon, <1>1, CleanupType
<1>3. QueryType'
  BY Zenon, <1>1, <1>2 DEF QueryType
<1>4. RowsGrow /\ NoNewRows
  BY Zenon, <1>1, CleanupGrows
<1>5. Allocated'
  <2>1. \A x \in queries' \cup timer' : rows[x].st # "none"
    BY Zenon, <1>1, <1>2 DEF QueryInv, Allocated
  <2>2. \A x \in Requests : request'[x].pc # "idle" => rows[request'[x].q].st # "none"
    BY Zenon, <1>1 DEF QueryInv, Allocated
  <2> QED
    BY Zenon, <1>3, <1>4, <2>1, <2>2, AllocatedKept
<1>6. OpenHasTimer'
  <2> SUFFICES ASSUME NEW k \in Ids \ {q}, rows'[k].st = "open" \/ k \in queries'
               PROVE  k \in timer' \/ \E x \in Requests : request'[x].pc = "created" /\ request'[x].q = k
    BY Zenon, <1>2 DEF OpenHasTimer
  <2>1. k \in timer \/ \E x \in Requests : request[x].pc = "created" /\ request[x].q = k
    BY Zenon, <1>2 DEF QueryInv, OpenHasTimer
  <2> QED
    BY Zenon, <1>1, <2>1
<1>7. \A x \in Requests : PageOK(x)'
  BY <1>1, <1>3, <1>4, PageKept
<1> QED
  BY Zenon, <1>3, <1>5, <1>6, <1>7 DEF QueryInv

\* Every step of the queries, and none of the others, has to be looked at.
LEMMA NextQueryInv == QueryInv /\ [Next]_vars => QueryInv'
<1> SUFFICES ASSUME QueryInv, [Next]_vars PROVE QueryInv'
  OBVIOUS
<1>1. CASE UNCHANGED queryVars
  BY <1>1 DEF queryVars, QueryInv, QueryType, Allocated, OpenHasTimer, PageOK
<1>2. CASE (\E s \in Sessions : LogEvent(s)) \/ LoggerStep \/ Trim \/ Shutdown
  BY Zenon, <1>1, <1>2, EventStepsFrame
<1>3. ASSUME NEW r \in Requests, RunQuery(r) \/ RequestStep(r) \/ \E q \in Ids : FindQuery(r, q)
      PROVE  QueryInv'
  BY Zenon, <1>3, RunQueryInv, InsertQueryInv, StartPageInv, NextRowInv, ScanRowInv, CloseQueryInv, FindQueryInv
     DEF RequestStep
<1>4. CASE \E q \in Ids : TimerFires(q)
  BY <1>4, TimerFiresInv
<1>5. CASE UNCHANGED vars
  BY <1>1, <1>5 DEF vars, queryVars
<1> QED
  BY ZenonT(60), <1>2, <1>3, <1>4, <1>5 DEF Next

LEMMA InitQueryInv == Init => QueryInv
<1> SUFFICES ASSUME Init PROVE QueryInv
  OBVIOUS
<1> DEFINE none == [st |-> "none", pos |-> 0, nil |-> FALSE]
<1>1. none \in Rows /\ none.st = "none"
  BY ReportsAssumption DEF Rows
<1>2. Idle \in RequestState /\ Idle.pc = "idle"
  BY ReportsAssumption DEF Idle, RequestState
<1>3. rows = [q \in Ids |-> none] /\ request = [r \in Requests |-> Idle]
      /\ queries = {} /\ timer = {} /\ queryID = 0
  BY DEF Init
<1> HIDE DEF none
<1>4. QueryType
  BY <1>1, <1>2, <1>3, ReportsAssumption DEF QueryType
<1>5. Allocated /\ OpenHasTimer /\ \A r \in Requests : PageOK(r)
  BY <1>1, <1>2, <1>3 DEF Allocated, OpenHasTimer, PageOK
<1> QED
  BY <1>4, <1>5 DEF QueryInv

LEMMA AlwaysQueryInv == Spec => []QueryInv
  BY InitQueryInv, NextQueryInv, PTL DEF Spec

\* Every variable of the reports service keeps its type, and the queue of events
\* its limit, for every number of clients and sessions.
THEOREM ReportsTypeCorrect == Spec => []TypeOK
<1>1. Init => EventType /\ open \in BOOLEAN
  BY InitEventType DEF Init
<1>2. EventType /\ [Next]_vars => EventType'
  BY NextEventType
<1>3. open \in BOOLEAN /\ [Next]_vars => (open \in BOOLEAN)'
  BY ZenonT(60) DEF Next, vars, LogEvent, LoggerStep, CreateTables, LoggerTakes, LoggerExecs, Trim, Shutdown, RunQuery,
         RequestStep, InsertQuery, StartPage, NextRow, ScanRow, CloseQuery, FindQuery, TimerFires
<1>4. EventType /\ QueryInv /\ open \in BOOLEAN => TypeOK
  BY SplitType DEF QueryInv
<1> QED
  BY <1>1, <1>2, <1>3, <1>4, AlwaysQueryInv, PTL DEF Spec

\* CreateQuery, GetData, CloseQuery: whatever the clients do, rows that are open
\* have a clean-up goroutine or one that is about to be started.
THEOREM NoRowsLeak == Spec => []OpenHasTimer
<1>1. QueryInv => OpenHasTimer
  BY DEF QueryInv
<1> QED
  BY <1>1, AlwaysQueryInv, PTL

\* getRows: pages are in order although clients share the rows of a query.
THEOREM PagesInOrder == Spec => []PageInOrder
<1>1. QueryInv => PageInOrder
  BY DEF QueryInv, PageInOrder, PageOK
<1> QED
  BY <1>1, AlwaysQueryInv, PTL

-----------------------------------------------------------------------------
(***************************************************************************)
(* Updates are visible.  What has to be shown is that an insert never      *)
(* comes after the update of the same session, in the queue, in the logger *)
(* or in the database.                                                     *)
(***************************************************************************)
Ins(s) == [op |-> "insert", session |-> s]

Upd(s) == [op |-> "update", session |-> s]

Queued(e) == \E i \in 1..Len(eventQueue) : eventQueue[i] = e

\* An update that was logged was logged as the second event of its session.
Second(s) == Queued(Upd(s)) \/ logger = Upd(s) \/ Upd(s) \in executed => plugin[s] = 2

\* No insert follows the update of its session.
InsertFirst(s) ==
    /\ \A i, j \in 1..Len(eventQueue) : i < j /\ eventQueue[i] = Upd(s) => eventQueue[j] # Ins(s)
    /\ logger = Upd(s) \/ Upd(s) \in executed => ~Queued(Ins(s))
    /\ Upd(s) \in executed => logger # Ins(s)

\* The row of a session whose insert was executed exists.
RowExists(s) ==
    Ins(s) \in executed =>
        /\ db[s] # "none"
        /\ Upd(s) \in executed => db[s] \in {"updated", "trimmed"}

OrderInv == EventType /\ \A s \in Sessions : Second(s) /\ InsertFirst(s) /\ RowExists(s)

\* Events are told apart by kind and session.
LEMMA EventsDiffer ==
    /\ \A s \in Sessions : Ins(s) \in Event /\ Ins(s).op = "insert" /\ Ins(s).session = s
    /\ \A s \in Sessions : Upd(s) \in Event /\ Upd(s).op = "update" /\ Upd(s).session = s
    /\ \A e \in Event : e = Ins(e.session) \/ e = Upd(e.session)
    /\ NoEvent \notin Event
<1>1. \A s \in Sessions : Ins(s) \in Event /\ Ins(s).op = "insert" /\ Ins(s).session = s
  BY DEF Ins, Event
<1>2. \A s \in Sessions : Upd(s) \in Event /\ Upd(s).op = "update" /\ Upd(s).session = s
  BY DEF Upd, Event
<1>3. \A e \in Event : e = Ins(e.session) \/ e = Upd(e.session)
  BY DEF Ins, Upd, Event
<1>4. \A e \in Event : e.op # NoEvent.op
  BY DEF Event, NoEvent
<1> QED
  BY Zenon, <1>1, <1>2, <1>3, <1>4

LEMMA LogEventOrder ==
    ASSUME OrderInv, NEW t \in Sessions, LogEvent(t), EventType', NEW s \in Sessions
    PROVE  Second(s)' /\ InsertFirst(s)' /\ RowExists(s)'
<1> DEFINE e == IF plugin[t] = 0 THEN Ins(t) ELSE Upd(t)
           n == Len(eventQueue)
<1>1. UNCHANGED <<db, logger, executed>> /\ plugin' = [plugin EXCEPT ![t] = plugin[t] + 1] /\ plugin[t] < 2
  BY DEF LogEvent
<1>2. plugin \in [Sessions -> 0..2] /\ eventQueue \in Seq(Event)
  BY Zenon DEF OrderInv, EventType
<1>3. eventQueue' = eventQueue \/ eventQueue' = Append(eventQueue, e)
  BY DEF LogEvent, Ins, Upd
<1>4. plugin[t] \in 0..1 /\ plugin'[t] = plugin[t] + 1 /\ \A x \in Sessions \ {t} : plugin'[x] = plugin[x]
  BY <1>1, <1>2
<1>5. Second(s) /\ InsertFirst(s) /\ RowExists(s) /\ Second(t)
  BY Zenon DEF OrderInv
<1>6. ~Queued(Upd(t)) /\ logger # Upd(t) /\ Upd(t) \notin executed
  BY <1>4, <1>5 DEF Second
<1>7. e \in Event /\ (e = Ins(s) => s = t) /\ (e = Upd(s) => s = t /\ plugin[t] = 1)
  BY <1>4, EventsDiffer
<1> HIDE DEF e, n
<1>8. CASE eventQueue' = eventQueue
  <2>1. s # t => plugin'[s] = plugin[s]
    BY Zenon, <1>4
  <2>2. Second(s)'
    BY Zenon, <1>1, <1>5, <1>6, <1>8, <2>1 DEF Second, Queued
  <2> QED
    BY Zenon, <1>1, <1>5, <1>8, <2>2 DEF InsertFirst, RowExists, Queued
<1>9. CASE eventQueue' = Append(eventQueue, e)
  <2>1. n \in Nat /\ Len(eventQueue') = n + 1 /\ eventQueue'[n + 1] = e
        /\ \A i \in 1..n : eventQueue'[i] = eventQueue[i]
    BY <1>2, <1>7, <1>9, AppendProperties DEF n
  <2>2. \A x \in {Ins(s), Upd(s)} : Queued(x)' => Queued(x) \/ x = e
    BY <2>1 DEF Queued, n
  <2>3. Second(s)'
    BY <1>1, <1>4, <1>5, <1>6, <1>7, <2>2 DEF Second
  <2>4. ASSUME NEW i \in 1..(n + 1), NEW j \in 1..(n + 1), i < j, eventQueue'[i] = Upd(s)
        PROVE  eventQueue'[j] # Ins(s)
    <3>1. i \in 1..n /\ eventQueue[i] = Upd(s)
      BY <2>1, <2>4
    <3>2. Queued(Upd(s))
      BY Zenon, <3>1 DEF Queued, n
    <3>3. CASE j = n + 1
      BY Zenon, <1>6, <1>7, <2>1, <3>2, <3>3
    <3>4. CASE j \in 1..n
      BY ZenonT(60), <1>5, <2>1, <2>4, <3>1, <3>4 DEF InsertFirst, n
    <3> QED
      BY <2>1, <3>3, <3>4
  <2>5. InsertFirst(s)'
    <3>1. (logger = Upd(s) \/ Upd(s) \in executed) => e # Ins(s)
      BY Zenon, <1>6, <1>7
    <3>2. (logger = Upd(s) \/ Upd(s) \in executed) => ~Queued(Ins(s))'
      BY Zenon, <1>5, <2>2, <3>1 DEF InsertFirst
    <3> QED
      BY Zenon, <1>1, <1>5, <2>1, <2>4, <3>2 DEF InsertFirst
  <2>6. RowExists(s)'
    BY Zenon, <1>1, <1>5 DEF RowExists
  <2> QED
    BY Zenon, <2>3, <2>5, <2>6
<1> QED
  BY Zenon, <1>3, <1>8, <1>9

LEMMA LoggerTakesOrder ==
    ASSUME OrderInv, LoggerTakes, NEW s \in Sessions
    PROVE  Second(s)' /\ InsertFirst(s)' /\ RowExists(s)'
<1> DEFINE n == Len(eventQueue)
<1>1. UNCHANGED <<db, plugin, executed>> /\ eventQueue # <<>> /\ eventQueue \in Seq(Event)
      /\ logger' = Head(eventQueue) /\ eventQueue' = Tail(eventQueue)
  BY DEF LoggerTakes, OrderInv, EventType
<1>2. /\ n \in Nat \ {0} /\ logger' = eventQueue[1] /\ Len(eventQueue') = n - 1
      /\ \A i \in 1..(n - 1) : eventQueue'[i] = eventQueue[i + 1]
  BY <1>1, HeadTailProperties, EmptySeq
<1>3. Second(s) /\ InsertFirst(s) /\ RowExists(s)
  BY Zenon DEF OrderInv
<1>4. \A x \in {Ins(s), Upd(s)} : Queued(x)' \/ logger' = x => Queued(x)
  BY <1>2 DEF Queued
<1> HIDE DEF n
<1>5. Second(s)'
  BY Zenon, <1>1, <1>3, <1>4 DEF Second
<1>6. \A i, j \in 1..Len(eventQueue') : i < j /\ eventQueue'[i] = Upd(s) => eventQueue'[j] # Ins(s)
  <2> SUFFICES ASSUME NEW i \in 1..(n - 1), NEW j \in 1..(n - 1), i < j, eventQueue[i + 1] = Upd(s)
               PROVE  eventQueue[j + 1] # Ins(s)
    BY Zenon, <1>2
  <2>1. i + 1 \in 1..n /\ j + 1 \in 1..n /\ i + 1 < j + 1
    BY <1>2
  <2> QED
    BY <1>3, <2>1 DEF InsertFirst, n
<1>7. logger' = Upd(s) => ~Queued(Ins(s))'
  <2> SUFFICES ASSUME eventQueue[1] = Upd(s), NEW i \in 1..(n - 1) PROVE eventQueue[i + 1] # Ins(s)
    BY Zenon, <1>2 DEF Queued
  <2>1. 1 \in 1..n /\ i + 1 \in 1..n /\ 1 < i + 1
    BY <1>2
  <2> QED
    BY Zenon, <1>3, <2>1 DEF InsertFirst, n
<1>8. Upd(s) \in executed => ~Queued(Ins(s))' /\ logger' # Ins(s)
  BY Zenon, <1>3, <1>4 DEF InsertFirst
<1>9. InsertFirst(s)'
  BY Zenon, <1>1, <1>6, <1>7, <1>8 DEF InsertFirst
<1> QED
  BY Zenon, <1>1, <1>3, <1>5, <1>9 DEF RowExists

LEMMA LoggerExecsOrder ==
    ASSUME OrderInv, LoggerExecs, NEW s \in Sessions
    PROVE  Second(s)' /\ InsertFirst(s)' /\ RowExists(s)'
<1> DEFINE t == logger.session
<1>1. UNCHANGED <<plugin, eventQueue>> /\ logger' = NoEvent /\ logger \in Event
  BY Zenon DEF LoggerExecs, OrderInv, EventType
<1>2. t \in Sessions /\ logger.op \in {"insert", "update"} /\ (logger = Ins(t) \/ logger = Upd(t))
  BY Zenon, <1>1, EventFields, EventsDiffer
<1>3. Second(s) /\ InsertFirst(s) /\ RowExists(s)
  BY DEF OrderInv
<1>4. logger' # Upd(s) /\ logger' # Ins(s)
  BY Zenon, <1>1, EventsDiffer
<1>5. executed' \subseteq executed \cup {logger}
  BY Zenon DEF LoggerExecs
<1>6. Second(s)'
  BY Zenon, <1>1, <1>3, <1>4, <1>5 DEF Second, Queued
<1>7. InsertFirst(s)'
  BY Zenon, <1>1, <1>3, <1>4, <1>5 DEF InsertFirst, Queued
<1>8. RowExists(s)'
  <2>1. CASE UNCHANGED <<db, executed>>
    BY Zenon, <1>3, <2>1 DEF RowExists
  <2>2. CASE db' = [db EXCEPT ![t] = RowAfter(logger, db[t])] /\ executed' = executed \cup {logger}
    <3>1. db \in [Sessions -> {"none", "inserted", "updated", "trimmed"}]
      BY Zenon DEF OrderInv, EventType
    <3>2. CASE s # t
      <4>1. db'[s] = db[s] /\ logger # Ins(s) /\ logger # Upd(s)
        BY Zenon, <1>2, <2>2, <3>1, <3>2, EventsDiffer
      <4> QED
        BY Zenon, <1>3, <2>2, <4>1 DEF RowExists
    <3>3. CASE s = t /\ logger = Ins(s)
      <4>1. logger.op = "insert" /\ Upd(s) \notin executed' /\ db'[s] = RowAfter(logger, db[s])
        BY <1>3, <2>2, <3>1, <3>3, EventsDiffer DEF InsertFirst
      <4> QED
        BY ZenonT(60), <4>1 DEF RowExists, RowAfter
    <3>4. CASE s = t /\ logger = Upd(s)
      <4>1. logger.op = "update" /\ logger # Ins(s) /\ db'[s] = RowAfter(logger, db[s])
        BY <2>2, <3>1, <3>4, EventsDiffer
      <4>2. db[s] # "none" => db'[s] \in {"updated", "trimmed"}
        BY Zenon, <3>1, <4>1 DEF RowAfter
      <4> QED
        BY Zenon, <1>3, <2>2, <4>1, <4>2 DEF RowExists
    <3> QED
      BY Zenon, <1>2, <3>2, <3>3, <3>4
  <2> QED
    BY Zenon, <2>1, <2>2 DEF LoggerExecs
<1> QED
  BY Zenon, <1>6, <1>7, <1>8

LEMMA TrimOrder ==
    ASSUME OrderInv, Trim, NEW s \in Sessions
    PROVE  Second(s)' /\ InsertFirst(s)' /\ RowExists(s)'
<1>1. UNCHANGED <<plugin, eventQueue, logger, executed>>
  BY DEF Trim
<1>2. Second(s) /\ InsertFirst(s) /\ RowExists(s) /\ db \in [Sessions -> {"none", "inserted", "updated", "trimmed"}]
  BY Zenon DEF OrderInv, EventType
<1>3. db'[s] = db[s] \/ db'[s] = "trimmed"
  BY Zenon, <1>2 DEF Trim
<1>4. Second(s)' /\ InsertFirst(s)'
  BY Zenon, <1>1, <1>2 DEF Second, InsertFirst, Queued
<1> QED
  BY Zenon, <1>1, <1>2, <1>3, <1>4 DEF RowExists

LEMMA NextOrderInv == OrderInv /\ [Next]_vars => OrderInv'
<1> SUFFICES ASSUME OrderInv, [Next]_vars PROVE OrderInv'
  OBVIOUS
<1>0. EventType'
  BY ZenonT(60), NextEventType DEF OrderInv
<1>1. CASE UNCHANGED <<db, plugin, eventQueue, logger, executed>>
  BY Zenon, <1>0, <1>1 DEF OrderInv, Second, InsertFirst, RowExists, Queued
<1>2. CASE \E t \in Sessions : LogEvent(t)
  BY Zenon, <1>0, <1>2, LogEventOrder DEF OrderInv
<1>3. CASE LoggerTakes
  BY Zenon, <1>0, <1>3, LoggerTakesOrder DEF OrderInv
<1>4. CASE LoggerExecs
  BY Zenon, <1>0, <1>4, LoggerExecsOrder DEF OrderInv
<1>5. CASE Trim
  BY <1>0, <1>5, TrimOrder DEF OrderInv
<1>6. CASE CreateTables \/ Shutdown
  BY <1>1, <1>6 DEF CreateTables, Shutdown, eventVars
<1>7. CASE \E r \in Requests : RunQuery(r) \/ RequestStep(r) \/ \E q \in Ids : FindQuery(r, q)
  BY Zenon, <1>1, <1>7 DEF RunQuery, RequestStep, InsertQuery, StartPage, NextRow, ScanRow, CloseQuery, FindQuery,
                         eventVars
<1>8. CASE \E q \in Ids : TimerFires(q)
  BY <1>1, <1>8 DEF TimerFires, eventVars
<1>9. CASE UNCHANGED vars
  BY <1>1, <1>9 DEF vars, eventVars
<1> QED
  BY Zenon, <1>2, <1>3, <1>4, <1>5, <1>6, <1>7, <1>8, <1>9 DEF Next, LoggerStep

\* eventLogger works on a session's events in the order they were logged: an
\* update never gets lost because it overtook the insert of its row.
THEOREM UpdatesVisible == Spec => []UpdateVisible
<1>1. Init => OrderInv
  <2> SUFFICES ASSUME Init PROVE OrderInv
    OBVIOUS
  <2>1. EventType
    BY InitEventType
  <2>2. \A s \in Sessions : logger # Upd(s)
    BY Zenon, EventsDiffer DEF Init
  <2> QED
    BY <2>1, <2>2, EmptySeq DEF Init, OrderInv, Second, InsertFirst, RowExists, Queued
<1>2. OrderInv => UpdateVisible
  BY DEF OrderInv, RowExists, UpdateVisible, Ins, Upd
<1> QED
  BY <1>1, <1>2, NextOrderInv, PTL DEF Spec

=============================================================================
