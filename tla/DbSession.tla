----------------------------- MODULE DbSession -----------------------------
(***************************************************************************)
(* SQL statements over one open connection to MySQL.  The main thread runs *)
(* a statement itself (ExecuteRsyncSQL) or queues it for the worker thread *)
(* (ExecuteAsyncSQL), with a callback for its rows or without one; the     *)
(* rows come back through a second queue and the main loop calls back.     *)
(* m_cDBMutex keeps the threads apart on the connection, except where the  *)
(* worker fetches the rows for a callback: there it has given it up.       *)
(*                                                                         *)
(* The connection is the one of the MySQL client library: a statement is   *)
(* refused while the rows of another wait to be fetched, and whoever asks  *)
(* for rows gets those that wait.  What the calls return after two threads *)
(* have used the connection at once (crossed) is anything.  The sizes of   *)
(* the queues are read without a lock: only the other thread adds to the   *)
(* queue that a thread finds empty, so it finds it filled a step later.    *)
(***************************************************************************)
EXTENDS Naturals, Sequences, SequencesExt

CONSTANT MaxStmts  \* how many statements there are: bounds the model only

ASSUME DbAssumption == MaxStmts \in Nat

VARIABLES
    stmts,     \* every statement so far; a statement is named by its place
    requests,  \* m_queAsyncSQLRequest
    results,   \* m_queAsyncSQLResult: [id, rows]
    worker,    \* where OnThreadProcess is, the statement and rows in hand
    main,      \* "store" inside ExecuteRsyncSQL, with m_cDBMutex
    waiting,   \* whose rows wait on m_pDbc
    crossed,   \* both threads have been inside the library at once
    answers,   \* the callbacks made: [id, rows]
    syncs      \* what the synchronous statements returned: [id, rows]

dbVars == <<stmts, requests, results, worker, main, waiting, crossed, answers, syncs>>

NoRows == 0
Idle == [pc |-> "idle", id |-> 0, rows |-> NoRows]
Free == [pc |-> "free", id |-> 0]

Kinds == {"select", "update", "invalid"}
Modes == {"sync", "no_callback", "callback"}
Rows == 0..MaxStmts
Record == [id : 1..MaxStmts, rows : Rows]

Answer(i, r) == [id |-> i, rows |-> r]
Ids(s) == [i \in DOMAIN s |-> s[i].id]

(* Every variable has its type.                                            *)
DbTypeOK ==
    /\ stmts \in Seq([kind : Kinds, mode : Modes]) /\ Len(stmts) <= MaxStmts
    /\ requests \in Seq(DOMAIN stmts)
    /\ results \in Seq(Record) /\ answers \in Seq(Record)
    /\ \A i \in DOMAIN results : results[i].rows # NoRows
    /\ worker \in [pc : {"idle", "query", "store", "read"}, id : Rows, rows : Rows]
    /\ worker.pc # "idle" => worker.id \in DOMAIN stmts
    /\ worker.pc = "read" => worker.rows # NoRows
    /\ main \in [pc : {"free", "store"}, id : Rows]
    /\ main.pc = "store" => main.id \in DOMAIN stmts
    /\ waiting \in Rows
    /\ crossed \in BOOLEAN
    /\ syncs \subseteq Record

DbInit ==
    /\ stmts = <<>> /\ requests = <<>> /\ results = <<>> /\ answers = <<>>
    /\ worker = Idle /\ main = Free
    /\ waiting = NoRows
    /\ crossed = FALSE
    /\ syncs = {}

-----------------------------------------------------------------------------
(* mysql_query: whether it may succeed, and the rows that wait if it does; *)
(* mysql_store_result: what it may return.                                 *)

QueryMayGo(kind, x, ok) == x \/ ok = (waiting = NoRows /\ kind # "invalid")
RowsOf(kind, id) == IF kind = "select" THEN id ELSE NoRows
StoreMayGive(r, x) == IF x THEN r \in 0..Len(stmts) ELSE r = waiting

-----------------------------------------------------------------------------
(* The main thread.                                                        *)

ExecuteAsyncSQL(kind, mode) ==
    /\ main.pc = "free" /\ Len(stmts) < MaxStmts
    /\ stmts' = Append(stmts, [kind |-> kind, mode |-> mode])
    /\ requests' = Append(requests, Len(stmts'))
    /\ UNCHANGED <<results, worker, main, waiting, crossed, answers, syncs>>

(* The answer of mysql_query is not tested.                                *)
ExecuteRsyncSQLMutant(kind) ==
    /\ main.pc = "free" /\ Len(stmts) < MaxStmts
    /\ stmts' = Append(stmts, [kind |-> kind, mode |-> "sync"])
    /\ crossed' = (crossed \/ worker.pc = "read")
    /\ \E ok \in BOOLEAN :
        /\ QueryMayGo(kind, crossed', ok)
        /\ waiting' = IF ok THEN RowsOf(kind, Len(stmts')) ELSE waiting
    /\ main' = [pc |-> "store", id |-> Len(stmts')]
    /\ UNCHANGED <<requests, results, worker, answers, syncs>>

(* The worker may be reading rows, without the mutex, when the main thread *)
(* comes in.                                                               *)
ExecuteRsyncSQL(kind) ==
    /\ main.pc = "free" /\ Len(stmts) < MaxStmts
    /\ stmts' = Append(stmts, [kind |-> kind, mode |-> "sync"])
    /\ crossed' = (crossed \/ worker.pc = "read")
    /\ \E ok \in BOOLEAN :
        /\ QueryMayGo(kind, crossed', ok)
        /\ IF ok THEN /\ waiting' = RowsOf(kind, Len(stmts'))
                      /\ main' = [pc |-> "store", id |-> Len(stmts')]
                      /\ syncs' = syncs
                 ELSE /\ syncs' = syncs \cup {Answer(Len(stmts'), NoRows)}
                      /\ UNCHANGED <<waiting, main>>
    /\ UNCHANGED <<requests, results, worker, answers>>

RsyncStore ==
    /\ main.pc = "store"
    /\ \E r \in Rows :
        /\ StoreMayGive(r, crossed)
        /\ syncs' = syncs \cup {Answer(main.id, r)}
    /\ waiting' = NoRows
    /\ main' = Free
    /\ UNCHANGED <<stmts, requests, results, worker, crossed, answers>>

(* The loop over the results stops one too early.                          *)
UpdateMutant ==
    /\ main.pc = "free" /\ Len(results) > 1
    /\ answers' = Append(answers, Head(results))
    /\ results' = Tail(results)
    /\ UNCHANGED <<stmts, requests, worker, main, waiting, crossed, syncs>>

(* One round of DbSessionMgr::Update: DBCallRead makes the callback, which *)
(* may use the session again, and Release frees the rows.                  *)
Update ==
    /\ main.pc = "free" /\ results # <<>>
    /\ answers' = Append(answers, Head(results))
    /\ results' = Tail(results)
    /\ UNCHANGED <<stmts, requests, worker, main, waiting, crossed, syncs>>

-----------------------------------------------------------------------------
(* The worker.  A statement that gives no rows, because it is refused, has *)
(* none or they are lost, is deleted: nobody is told.                      *)
WorkerSleep ==
    /\ worker.pc = "idle" /\ requests = <<>>
    /\ UNCHANGED dbVars

WorkerPop ==
    /\ worker.pc = "idle" /\ requests # <<>>
    /\ worker' = [Idle EXCEPT !.pc = "query", !.id = Head(requests)]
    /\ requests' = Tail(requests)
    /\ UNCHANGED <<stmts, results, main, waiting, crossed, answers, syncs>>

(* The rows that nobody wants are not fetched.                             *)
WorkerQueryNoFetch ==
    /\ worker.pc = "query" /\ main.pc = "free"
    /\ LET s == stmts[worker.id]
       IN  \E ok \in BOOLEAN :
            /\ QueryMayGo(s.kind, crossed, ok)
            /\ worker' = IF ok /\ s.mode = "callback"
                         THEN [worker EXCEPT !.pc = "store"] ELSE Idle
            /\ waiting' = IF ok THEN RowsOf(s.kind, worker.id) ELSE waiting
    /\ UNCHANGED <<stmts, requests, results, main, crossed, answers, syncs>>

(* With m_cDBMutex.  Without a callback the rows are fetched under it too. *)
WorkerQuery ==
    /\ worker.pc = "query" /\ main.pc = "free"
    /\ LET s == stmts[worker.id]
       IN  \E ok \in BOOLEAN :
            /\ QueryMayGo(s.kind, crossed, ok)
            /\ IF ok /\ s.mode = "callback"
               THEN /\ worker' = [worker EXCEPT !.pc = "store"]
                    /\ waiting' = RowsOf(s.kind, worker.id)
               ELSE /\ worker' = Idle
                    /\ UNCHANGED waiting
    /\ UNCHANGED <<stmts, requests, results, main, crossed, answers, syncs>>

(* Without m_cDBMutex: the main thread may be in the same call.  The       *)
(* library takes the connection to be ready again from here on, before the *)
(* rows have been read.                                                    *)
WorkerStore ==
    /\ worker.pc = "store"
    /\ crossed' \in {crossed, crossed \/ main.pc = "store"}
    /\ \E r \in Rows :
        /\ StoreMayGive(r, crossed')
        /\ worker' = IF r = NoRows THEN Idle ELSE [worker EXCEPT !.pc = "read", !.rows = r]
    /\ waiting' = NoRows
    /\ UNCHANGED <<stmts, requests, results, main, answers, syncs>>

WorkerRead ==
    /\ worker.pc = "read"
    /\ \E r \in 0..Len(stmts) :
        /\ crossed \/ r = worker.rows
        /\ results' = IF r = NoRows THEN results ELSE Append(results, Answer(worker.id, r))
    /\ worker' = Idle
    /\ UNCHANGED <<stmts, requests, main, waiting, crossed, answers, syncs>>

-----------------------------------------------------------------------------
MainNext ==
    \/ \E k \in Kinds : \E m \in Modes \ {"sync"} : ExecuteAsyncSQL(k, m)
    \/ \E k \in Kinds : ExecuteRsyncSQL(k)
    \/ RsyncStore
    \/ Update

WorkerNext == WorkerSleep \/ WorkerPop \/ WorkerQuery \/ WorkerStore \/ WorkerRead

DbNext == MainNext \/ WorkerNext

DbSpec == DbInit /\ [][DbNext]_dbVars

(* A call of the library returns, the worker runs, the main loop reaches   *)
(* Update again and again.  The main thread gives up the mutex for good    *)
(* when the statements have come to their bound, so weak fairness is       *)
(* enough for the worker to get it.                                        *)
DbFairSpec ==
    /\ DbSpec
    /\ WF_dbVars(RsyncStore) /\ WF_dbVars(Update)
    /\ WF_dbVars(WorkerPop) /\ WF_dbVars(WorkerQuery)
    /\ WF_dbVars(WorkerStore) /\ WF_dbVars(WorkerRead)

-----------------------------------------------------------------------------
WantsRows(id) == stmts[id].kind = "select" /\ stmts[id].mode = "callback"
InHand == IF worker.pc = "idle" THEN <<>> ELSE <<worker.id>>
Pipeline == Ids(answers) \o Ids(results) \o InHand \o requests
Fetched == answers \o results
        \o (IF worker.pc = "read" THEN <<Answer(worker.id, worker.rows)>> ELSE <<>>)

(* Statements with a callback are answered in the order in which they were *)
(* queued and none twice, whatever other threads do to the connection: the *)
(* two queues and the one worker between them keep the order.              *)
AnswersInOrder ==
    \A i, j \in DOMAIN Pipeline : i < j => Pipeline[i] < Pipeline[j]

(* What waits for its callback, and what is owed its rows. *)
Queued == Ids(results) \o InHand \o requests
Owed == {id \in DOMAIN stmts : WantsRows(id)}

Service == INSTANCE StatementService WITH
               Names <- 1 .. MaxStmts,
               executed <- Len(stmts),
               owed <- Owed,
               queued <- Queued,
               told <- answers,
               faulty <- crossed

(* The two threads with their queues implement StatementService: callbacks *)
(* in order, and every valid select its own rows, until the threads cross. *)
KeepsService == Service!ServiceSpec

(* A valid select with a callback is never dropped, unless the threads     *)
(* have crossed on the connection: no statement of another finds its rows  *)
(* waiting, nor it those of another.                                       *)
SelectKept ==
    \A id \in DOMAIN stmts : WantsRows(id) => crossed \/ id \in ToSet(Pipeline)

(* Until the threads cross, the rows of a statement reach at most one      *)
(* reader.  A select reads its own, or nothing if it is a synchronous one; *)
(* only the callback of an update can be given rows of another, those of a *)
(* synchronous select that it has robbed.                                  *)
RowsReachOneReader ==
    ~crossed =>
        /\ \A a \in syncs : a.rows \in {NoRows, a.id}
        /\ \A i, j \in DOMAIN Fetched : i # j => Fetched[i].rows # Fetched[j].rows
        /\ \A i \in DOMAIN Fetched :
            LET a == Fetched[i]
            IN  IF stmts[a.id].kind = "select"
                THEN a.rows = a.id
                ELSE /\ stmts[a.rows].mode = "sync"
                     /\ Answer(a.rows, a.rows) \notin syncs

(* A select with a callback gets its callback in the end, unless the       *)
(* threads cross.                                                          *)
SelectAnswered ==
    \A id \in 1..MaxStmts :
        (id \in DOMAIN stmts /\ WantsRows(id)) ~> (crossed \/ id \in ToSet(Ids(answers)))

=============================================================================
