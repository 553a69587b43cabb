------------------------------ MODULE EcQuery ------------------------------
(***************************************************************************)
(* The query events of the ACPI embedded controller driver (wdm/acpi/ec).  *)
(* The service loop reads the number of an event from the controller and   *)
(* puts it into one of two lists: the pending vectors, events for which    *)
(* another driver has connected a handler, linked through the entries of   *)
(* VectorTable; and the pending queries, events that run a control method, *)
(* linked through QueryMap - which also holds, for a vector, the index of  *)
(* its table entry.  AcpiEcDispatchQueries empties both lists.  It runs on *)
(* the thread that owns the service loop and in the completion routine of  *)
(* the one request that runs control methods, lets go of the lock around   *)
(* each handler and each method, and races with drivers that connect and   *)
(* disconnect handlers.                                                    *)
(*                                                                         *)
(* A step is what one thread does between taking EcData->Lock and letting  *)
(* go of it, or one call it makes without the lock.                        *)
(*                                                                         *)
(* The code loses control of its lists in three places; "damage" records    *)
(* the first, and the model stops there: what follows reads freed entries. *)
(***************************************************************************)
EXTENDS Naturals, FiniteSets

CONSTANTS
  None,
  MaxQuery,    \* MAX_QUERY; MaxQuery + 1 is also the range of a UCHAR
  Chunk,       \* entries VectorTable grows by
  Service,     \* the thread that owns the service loop
  Completers,  \* threads the control method's request may complete on
  Handlers,    \* what drivers connect
  PoolMayFail, \* whether ExAllocatePoolWithTag may return NULL
  MaxReports,  \* bound on the events the controller reports
  MaxConnects  \* bound on the handlers that are connected

Workers == {Service} \union Completers
Queries == 1 .. MaxQuery      \* the numbers the controller reports and callers connect
Indices == 0 .. MaxQuery      \* a UCHAR: a number, an index, 0 for "none"

ASSUME SizesAssumption ==
  /\ MaxQuery \in Nat /\ Chunk \in Nat /\ Chunk > 1 /\ (MaxQuery + 1) % Chunk = 0
  /\ None \notin Handlers /\ Service \notin Completers
  /\ PoolMayFail \in BOOLEAN /\ MaxReports \in Nat /\ MaxConnects \in Nat

VARIABLES
  querySet,        \* numbers that are pending
  queryType,       \* numbers that have a handler
  queryMap,        \* [Queries -> next pending query, or index of the entry]
  queryHead,       \* first pending query, 0 if there is none
  vectorHead,      \* first entry of a pending vector
  vectorFree,      \* first free entry
  vectorTable,     \* [index -> entry]; entry 0 ends the lists
  vectorTableSize, \* its size as the driver remembers it, a UCHAR
  queryState,      \* QueryState
  request,         \* the query whose method QueryRequest runs, or None
  processQuery,    \* ProcessQuery of the service loop
  pc,              \* [Workers -> where the thread is in AcpiEcDispatchQueries]
  call,            \* [Workers -> handler call or query the thread is about]
  connected,       \* [Queries -> handler its driver connected, or None]
  reports, connects, damage

lists == <<querySet, queryType, queryMap, queryHead, vectorHead, vectorFree,
           vectorTable, vectorTableSize>>
threads == <<queryState, request, processQuery, pc, call>>
vars == <<lists, threads, connected, reports, connects, damage>>

Entries == [next: Indices, vector: Queries \union {None}, handler: Handlers \union {None}]
Calls   == [vector: Queries, handler: Handlers \union {None}]

Init ==
  /\ querySet = {} /\ queryType = {} /\ queryMap = [v \in Queries |-> 0]
  /\ queryHead = 0 /\ vectorHead = 0 /\ vectorFree = 0
  /\ vectorTable = [k \in {} |-> None] /\ vectorTableSize = 0
  /\ queryState = "idle" /\ request = None /\ processQuery = FALSE
  /\ pc = [w \in Workers |-> "idle"] /\ call = [w \in Workers |-> None]
  /\ connected = [v \in Queries |-> None]
  /\ reports = 0 /\ connects = 0 /\ damage = "none"

-----------------------------------------------------------------------------
(* Lists.  A list is its head and the links; 0 ends it. *)

\* The n-th element of a list, 0 after its end; a link that leads out of
\* the table leads nowhere.
Walk(head, link) ==
  LET walk[n \in 0 .. MaxQuery + 1] ==
        IF n = 0 THEN head
        ELSE LET at == walk[n - 1]
             IN  IF at = 0 THEN 0 ELSE IF at \in DOMAIN link THEN link[at] ELSE at
  IN  walk

Listed(head, link) == {Walk(head, link)[n] : n \in 0 .. MaxQuery} \ {0}
Ends(head, link)   == Walk(head, link)[MaxQuery + 1] = 0

NextOf(table) == [k \in DOMAIN table |-> table[k].next]

\* link, with item taken out of the list behind its predecessor; a list
\* that item is the head of, or not in, is left as it is.
Unlink(item, head, link) ==
  [k \in DOMAIN link |->
     IF k \in Listed(head, link) /\ link[k] = item THEN link[item] ELSE link[k]]

-----------------------------------------------------------------------------
(* The service loop reads an event: AcpiEcServiceIoLoop, EC_IO_READ_QUERY. *)

ReportVector(q) ==
  /\ q \notin querySet /\ q \in queryType
  /\ querySet' = querySet \union {q}
  /\ vectorTable' = [vectorTable EXCEPT ![queryMap[q]].next = vectorHead]
  /\ vectorHead' = queryMap[q]
  /\ UNCHANGED <<queryType, queryMap, queryHead, vectorFree, vectorTableSize>>

ReportQuery(q) ==
  /\ q \notin querySet /\ q \notin queryType
  /\ querySet' = querySet \union {q}
  /\ queryMap' = [queryMap EXCEPT ![q] = queryHead]
  /\ queryHead' = q
  /\ UNCHANGED <<queryType, vectorHead, vectorFree, vectorTable, vectorTableSize>>

ReportAgain(q) == q \in querySet /\ UNCHANGED lists

Report(q) ==
  /\ pc[Service] = "idle" /\ reports < MaxReports
  /\ ReportVector(q) \/ ReportQuery(q) \/ ReportAgain(q)
  /\ processQuery' = TRUE
  /\ reports' = reports + 1
  /\ UNCHANGED <<queryState, request, pc, call, connected, connects, damage>>

\* The service loop has come to its end and dispatches what it read.
StartDispatch ==
  /\ pc[Service] = "idle" /\ processQuery
  /\ processQuery' = FALSE
  /\ pc' = [pc EXCEPT ![Service] = "lists"]
  /\ UNCHANGED <<lists, queryState, request, call, connected, reports, connects, damage>>

-----------------------------------------------------------------------------
(* AcpiEcDispatchQueries *)

TakeVector(w) ==
  LET entry == vectorTable[vectorHead]
  IN
  /\ pc[w] = "lists" /\ vectorHead # 0
  /\ querySet' = querySet \ {entry.vector}
  /\ vectorHead' = entry.next
  /\ call' = [call EXCEPT ![w] = [vector |-> entry.vector, handler |-> entry.handler]]
  /\ pc' = [pc EXCEPT ![w] = "handler"]
  /\ UNCHANGED <<queryType, queryMap, queryHead, vectorFree, vectorTable, vectorTableSize,
                 queryState, request, processQuery, connected, reports, connects, damage>>

HandlerReturns(w) ==
  /\ pc[w] = "handler"
  /\ pc' = [pc EXCEPT ![w] = "lists"]
  /\ call' = [call EXCEPT ![w] = None]
  /\ UNCHANGED <<lists, queryState, request, processQuery, connected, reports, connects, damage>>

\* One turn of the loop over the pending queries, or its end.
NextQuery(w) ==
  IF queryHead # 0
    THEN /\ querySet' = querySet \ {queryHead}
         /\ queryHead' = queryMap[queryHead]
         /\ queryState' = "dispatch"
         /\ call' = [call EXCEPT ![w] = queryHead]
         /\ pc' = [pc EXCEPT ![w] = "method"]
         /\ UNCHANGED <<queryType, queryMap, vectorHead, vectorFree, vectorTable, vectorTableSize>>
    ELSE /\ queryState' = "idle"
         /\ call' = [call EXCEPT ![w] = None]
         /\ pc' = [pc EXCEPT ![w] = "idle"]
         /\ UNCHANGED lists

\* Mutant: As if the request could run many methods.
StartBesideMethod(w) ==
  /\ pc[w] = "lists" /\ vectorHead = 0
  /\ NextQuery(w)
  /\ UNCHANGED <<request, processQuery, connected, reports, connects, damage>>

StartQueries(w) ==
  /\ pc[w] = "lists" /\ vectorHead = 0 /\ queryState = "idle"
  /\ NextQuery(w)
  /\ UNCHANGED <<request, processQuery, connected, reports, connects, damage>>

LeaveQueries(w) ==
  /\ pc[w] = "lists" /\ vectorHead = 0 /\ queryState # "idle"
  /\ pc' = [pc EXCEPT ![w] = "idle"]
  /\ UNCHANGED <<lists, queryState, request, processQuery, call, connected, reports, connects, damage>>

\* The one pre-allocated request is sent to the ACPI driver.
RunQueryMethod(w) ==
  /\ pc[w] = "method"
  /\ request' = call[w]
  /\ pc' = [pc EXCEPT ![w] = "after"]
  /\ UNCHANGED <<lists, queryState, processQuery, call, connected, reports, connects, damage>>

AfterMethod(w) ==
  /\ pc[w] = "after"
  /\ IF queryState = "dispatch"
       THEN /\ queryState' = "waiting"
            /\ pc' = [pc EXCEPT ![w] = "idle"]
            /\ call' = [call EXCEPT ![w] = None]
            /\ UNCHANGED lists
       ELSE NextQuery(w)
  /\ UNCHANGED <<request, processQuery, connected, reports, connects, damage>>

\* AcpiEcCompleteQueryMethod: within the call that sent the request or on
\* another processor before that call returned ...
CompleteEarly ==
  /\ request # None /\ queryState = "dispatch"
  /\ request' = None
  /\ queryState' = "complete"
  /\ UNCHANGED <<lists, processQuery, pc, call, connected, reports, connects, damage>>

\* Mutant: ... the completion leaves the lists to the next report.
CompleteQuietly(w) ==
  /\ request # None /\ queryState = "waiting" /\ pc[w] = "idle"
  /\ request' = None
  /\ queryState' = "idle"
  /\ UNCHANGED <<lists, processQuery, pc, call, connected, reports, connects, damage>>

\* ... or later, and then it dispatches.
CompleteLate(w) ==
  /\ request # None /\ queryState = "waiting" /\ pc[w] = "idle"
  /\ request' = None
  /\ queryState' = "idle"
  /\ pc' = [pc EXCEPT ![w] = "lists"]
  /\ UNCHANGED <<lists, processQuery, call, connected, reports, connects, damage>>

-----------------------------------------------------------------------------
(* AcpiEcConnectHandler and AcpiEcDisconnectHandler *)

\* The table with Chunk more entries, put into the free list one by one.
Grown ==
  [k \in 0 .. vectorTableSize + Chunk - 1 |->
     IF k < vectorTableSize THEN vectorTable[k]
     ELSE [next |-> IF k = vectorTableSize THEN vectorFree ELSE k - 1,
           vector |-> None, handler |-> None]]

\* Mutant: The bit is cleared and the number left in the list.
ForgetBitOnly(v, index) ==
  /\ querySet' = querySet \ {v}
  /\ queryMap' = [queryMap EXCEPT ![v] = index]

\* A pending query becomes a vector: the code takes it for pending if its
\* link is not 0, and looks for it behind the head of the list.
ForgetQuery(v, index) ==
  IF queryMap[v] # 0
    THEN /\ querySet' = querySet \ {v}
         /\ queryMap' = [Unlink(v, queryHead, queryMap) EXCEPT ![v] = index]
    ELSE /\ querySet' = querySet
         /\ queryMap' = [queryMap EXCEPT ![v] = index]

\* The query is in the list and the code does not take it out.
StaysListed(v) == v \in querySet /\ (queryMap[v] = 0 \/ queryHead = v)

Connect(v, h) ==
  LET table == IF vectorFree = 0 THEN Grown ELSE vectorTable
      index == IF vectorFree = 0 THEN vectorTableSize + Chunk - 1 ELSE vectorFree
  IN
  /\ v \notin queryType /\ connects < MaxConnects
  /\ queryType' = queryType \union {v}
  /\ vectorTableSize' = IF vectorFree = 0 THEN (vectorTableSize + Chunk) % (MaxQuery + 1)
                        ELSE vectorTableSize
  /\ vectorFree' = table[index].next
  /\ vectorTable' = [table EXCEPT ![index] = [next |-> 0, vector |-> v, handler |-> h]]
  /\ ForgetQuery(v, index)
  /\ connected' = [connected EXCEPT ![v] = h]
  /\ connects' = connects + 1
  /\ damage' = IF StaysListed(v) THEN "connect" ELSE damage
  /\ UNCHANGED <<queryHead, vectorHead, threads, reports>>

\* Without memory the caller is refused, but the number keeps its type bit.
ConnectFails(v) ==
  /\ v \notin queryType /\ connects < MaxConnects
  /\ PoolMayFail /\ vectorFree = 0
  /\ queryType' = queryType \union {v}
  /\ connects' = connects + 1
  /\ damage' = "allocate"
  /\ UNCHANGED <<querySet, queryMap, queryHead, vectorHead, vectorFree, vectorTable,
                 vectorTableSize, threads, connected, reports>>

\* Mutant: A pending vector stays in its list.
KeepPending(v) == NextOf(vectorTable)

\* A vector that is pending is dropped from its list.
DropPending(v) ==
  IF v \in querySet THEN Unlink(queryMap[v], vectorHead, NextOf(vectorTable))
  ELSE NextOf(vectorTable)

Disconnect(v) ==
  LET index == queryMap[v]
      links == DropPending(v)
  IN
  /\ v \in queryType
  /\ queryType' = queryType \ {v}
  /\ querySet' = querySet \ {v}
  /\ vectorTable' = [k \in DOMAIN vectorTable |->
       [vectorTable[k] EXCEPT !.next = IF k = index THEN vectorFree ELSE links[k]]]
  /\ vectorFree' = index
  /\ connected' = [connected EXCEPT ![v] = None]
  /\ damage' = IF v \in querySet /\ vectorHead = index THEN "disconnect" ELSE damage
  /\ UNCHANGED <<queryMap, queryHead, vectorHead, vectorTableSize, threads, reports, connects>>

-----------------------------------------------------------------------------
Dispatch(w) ==
  \/ TakeVector(w) \/ HandlerReturns(w) \/ StartQueries(w) \/ LeaveQueries(w)
  \/ RunQueryMethod(w) \/ AfterMethod(w)

Complete == CompleteEarly \/ \E w \in Completers : CompleteLate(w)

Next ==
  /\ damage = "none"
  /\ \/ \E q \in Queries : Report(q)
     \/ StartDispatch
     \/ \E w \in Workers : Dispatch(w)
     \/ Complete
     \/ \E v \in Queries, h \in Handlers : Connect(v, h)
     \/ \E v \in Queries : ConnectFails(v) \/ Disconnect(v)

Spec == Init /\ [][Next]_vars

\* Handlers return, the ACPI driver completes the request it is given, and
\* the processors run.
FairSpec ==
  /\ Spec
  /\ WF_vars(damage = "none" /\ StartDispatch)
  /\ WF_vars(damage = "none" /\ Complete)
  /\ \A w \in Workers : WF_vars(damage = "none" /\ Dispatch(w))

-----------------------------------------------------------------------------
TypeOK ==
  /\ querySet \subseteq Queries /\ queryType \subseteq Queries
  /\ queryMap \in [Queries -> Indices]
  /\ {queryHead, vectorHead, vectorFree, vectorTableSize} \subseteq Indices
  /\ DOMAIN vectorTable \subseteq Indices
  /\ \A k \in DOMAIN vectorTable : vectorTable[k] \in Entries
  /\ queryState \in {"idle", "dispatch", "waiting", "complete"}
  /\ request \in Queries \union {None} /\ processQuery \in BOOLEAN
  /\ pc \in [Workers -> {"idle", "lists", "handler", "method", "after"}]
  /\ DOMAIN call = Workers
  /\ \A w \in Workers :
       /\ pc[w] = "handler" => call[w] \in Calls
       /\ pc[w] \in {"method", "after"} => call[w] \in Queries
       /\ pc[w] \in {"idle", "lists"} => call[w] = None
  /\ connected \in [Queries -> Handlers \union {None}]
  /\ reports \in 0 .. MaxReports /\ connects \in 0 .. MaxConnects
  /\ damage \in {"none", "connect", "allocate", "disconnect"}

\* Every entry but the first is free or is the entry of one connected vector.
EntriesAreOwned ==
  LET Mapped == {queryMap[v] : v \in queryType}
      Free   == Listed(vectorFree, NextOf(vectorTable))
  IN
  /\ Cardinality(Mapped) = Cardinality(queryType)
  /\ Mapped \intersect Free = {} /\ Mapped \union Free = DOMAIN vectorTable \ {0}
  /\ Ends(vectorFree, NextOf(vectorTable))
  /\ \A v \in queryType : vectorTable[queryMap[v]].vector = v
                          /\ vectorTable[queryMap[v]].handler = connected[v]

\* The pending lists hold exactly the numbers whose bit is set.
PendingIsListed ==
  /\ Ends(queryHead, queryMap) /\ Ends(vectorHead, NextOf(vectorTable))
  /\ Listed(queryHead, queryMap) = querySet \ queryType
  /\ Listed(vectorHead, NextOf(vectorTable)) = {queryMap[v] : v \in querySet \intersect queryType}

\* The three lists that share QueryMap and VectorTable stay apart through
\* every order of reports, dispatches, connections and disconnections,
\* except at the three steps the model names - and there they do not.
ListsMatch == (damage = "none") <=> (EntriesAreOwned /\ PendingIsListed)

\* There is one request for control methods: it is sent only when it has
\* come back, one thread at a time is about to send it, and its completion
\* finds a state it expects (ASSERT (FALSE) at query.c:226).
OneRequest ==
  LET Sending == {w \in Workers : pc[w] \in {"method", "after"}}
  IN
  /\ TypeOK
  /\ Cardinality(Sending) <= 1
  /\ \A w \in Sending : pc[w] = "method" => request = None
  /\ request # None => queryState \in {"dispatch", "waiting"}
  /\ queryState \in {"dispatch", "complete"} <=> Sending # {}

\* When a thread takes a vector from the list the handler it is going to
\* call is connected to that very number (it may be disconnected before it
\* is called: the lock is not held then).
CallsWhatIsConnected ==
  [][\A w \in Workers :
       pc[w] = "lists" /\ pc'[w] = "handler" =>
         connected[call'[w].vector] = call'[w].handler /\ call'[w].handler # None]_vars

\* An event that was reported leaves its list: no wake-up is lost between
\* the service loop, which does not dispatch queries while a method runs,
\* and the completion, which does.
EventsAreDispatched ==
  \A q \in Queries : q \in querySet ~> (q \notin querySet \/ damage # "none")
=============================================================================
