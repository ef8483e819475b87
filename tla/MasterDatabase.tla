---------------------------- MODULE MasterDatabase ----------------------------
(***************************************************************************)
(* The master and its database (master/at_db.c, main of at_master.c): one  *)
(* libpq connection, used by three threads without a lock, the cache table *)
(* of a run, the record tables that outlive it, outages of the server,     *)
(* and the master's start, monitor loop, shutdown and crash.               *)
(* The queue is what DbOpsQueue implements: ExactlyOnceOps, operations not *)
(* numbered.                                                               *)
(* What a row holds is known only as far as one report per agent goes: it  *)
(* was written "before" or "after" the record had that report.             *)
(***************************************************************************)
EXTENDS Integers, Sequences, FiniteSets

CONSTANTS
  Agents,
  Watched,      \* the agents that have a report in question
  QueueLen,     \* MAX_DB_QUEUE_LEN
  Scenarios     \* bounds: agents there are, outages of the server, starts of the master

ASSUME DatabaseAssumption ==
  /\ Watched \subseteq Agents /\ QueueLen \in Nat \ {0}
  /\ Scenarios \subseteq [hosts : SUBSET Agents, outages : Nat, runs : Nat]

Threads == {"main", "listener", "database"}
Ops == [type : {"cache", "snapshot"}, agent : Agents]
Statements == [sql : {"drop", "make"}]
                \cup [sql : {"insert", "update", "table", "junk", "append"}, agent : Agents]
Calls == [state : {"none", "sound", "clash", "stale"}, row : {"before", "after"}]

VARIABLES
  up,           \* the database server answers
  store,        \* what it holds: the cache table, its rows, agents with a record table
  conn,         \* pgconn: "live", "broken" (server lost, not noticed), "bad", "null"
  main,         \* the main thread: "boot", "loop", "stop", or "down"
  on,           \* the flag of that name
  thread,       \* the other two: "in" their loop, "check"ing on, or "exited"
  todo,         \* thread -> statements it is about to execute, in order
  call,         \* thread -> its PQexec: under way alone, with another, on an old pgconn
  known,        \* agents with a record
  after,        \* agents whose record has the report in question
  queue,        \* data_ops_queue: operation -> how often it waits
  left,         \* what is left of the scenario
  cleanStart,   \* every statement of this start was executed (history)
  unmade        \* agents whose CREATE TABLE was lost (history)

dbVars == <<up, store>>
runVars == <<main, on, thread>>
recVars == <<known, after, queue>>
hist == <<cleanStart, unmade>>
vars == <<dbVars, conn, runVars, todo, call, recVars, left, hist>>

Waiting == {o \in Ops : queue[o] > 0}

\* The slots of operations that wait: one that waits n times has n of them.
Slots(q) == {s \in Ops \X (1 .. QueueLen) : s[2] <= q[s[1]]}

\* An operation keeps its slot until its statements are over.
InWork == IF todo["database"] = <<>> THEN 0 ELSE 1

\* The slots that are in use.
Used == Cardinality(Slots(queue)) + InWork

TypeOK ==
  /\ up \in BOOLEAN /\ on \in BOOLEAN /\ cleanStart \in BOOLEAN
  /\ store \in [cache : BOOLEAN, row : [Agents -> {"none", "before", "after"}],
                tables : SUBSET Agents]
  /\ ~store.cache => \A a \in Agents : store.row[a] = "none"
  /\ conn \in {"live", "broken", "bad", "null"}
  /\ main \in {"boot", "loop", "stop", "down"}
  /\ thread \in [{"listener", "database"} -> {"in", "check", "exited"}]
  /\ \A t \in Threads : \A i \in DOMAIN todo[t] : todo[t][i] \in Statements
  /\ call \in [Threads -> Calls]
  /\ after \subseteq known \cap Watched /\ known \subseteq Agents
  /\ queue \in [Ops -> 0 .. QueueLen] /\ Used <= QueueLen
  /\ left \in [hosts : SUBSET Agents, outages : Nat, runs : Nat]
  /\ unmade \subseteq Agents

Idle == [state |-> "none", row |-> "before"]
Quiet == [t \in Threads |-> <<>>]
NoRows == [a \in Agents |-> "none"]

Init ==
  /\ up \in BOOLEAN /\ left \in Scenarios
  /\ store = [cache |-> FALSE, row |-> NoRows, tables |-> {}]
  /\ conn = "null" /\ main = "down" /\ on = FALSE
  /\ thread = [t \in {"listener", "database"} |-> "exited"]
  /\ todo = Quiet /\ call = [t \in Threads |-> Idle]
  /\ known = {} /\ after = {} /\ queue = [o \in Ops |-> 0]
  /\ cleanStart = FALSE /\ unmade = {}

-----------------------------------------------------------------------------
(* The server. *)

Outage ==
  /\ up /\ left.outages > 0
  /\ up' = FALSE /\ left' = [left EXCEPT !.outages = @ - 1]
  /\ conn' = IF conn = "live" THEN "broken" ELSE conn
  /\ UNCHANGED <<store, runVars, todo, call, recVars, hist>>

Recover ==
  /\ ~up /\ up' = TRUE
  /\ UNCHANGED <<store, conn, runVars, todo, call, recVars, left, hist>>

\* The statements of at_master.h; row is the state of the record that is written.
Effect(st, s, row) ==
  CASE s.sql = "drop" -> [st EXCEPT !.cache = FALSE, !.row = NoRows]
    [] s.sql = "make" -> [st EXCEPT !.cache = TRUE]
    [] s.sql = "insert" /\ st.cache /\ st.row[s.agent] = "none" ->
         [st EXCEPT !.row[s.agent] = "before"]
    [] s.sql = "update" /\ st.cache /\ st.row[s.agent] # "none" ->
         [st EXCEPT !.row[s.agent] = row]
    [] s.sql = "table" -> [st EXCEPT !.tables = @ \cup {s.agent}]
    [] OTHER -> st

-----------------------------------------------------------------------------
(* PQexec: a thread enters it with its next statement and leaves it.        *)

Working(t) == call[t].state # "none"

\* The text of an UPDATE is made just before.  With two threads inside, neither
\* can be sure of its statement.
EnterExec(t) ==
  LET s == Head(todo[t])
      others == {u \in Threads \ {t} : Working(u)} IN
  /\ todo[t] # <<>> /\ ~Working(t)
  /\ call' = [u \in Threads |->
       CASE u = t -> [state |-> IF others = {} THEN "sound" ELSE "clash",
                      row |-> IF s.sql = "update" /\ s.agent \in after THEN "after" ELSE "before"]
         [] u \in others /\ call[u].state = "sound" -> [call[u] EXCEPT !.state = "clash"]
         [] OTHER -> call[u]]
  /\ UNCHANGED <<dbVars, conn, runVars, todo, recVars, left, hist>>

LeaveExec(t) ==
  /\ Working(t)
  /\ call' = [call EXCEPT ![t] = Idle]
  /\ todo' = [todo EXCEPT ![t] = Tail(@)]
  /\ UNCHANGED <<up, runVars, recVars, left>>

\* The statement was executed, as far as the tables allow it.
Executed(t) ==
  LET s == Head(todo[t]) IN
  /\ LeaveExec(t)
  /\ conn = "live" /\ call[t].state # "stale"
  /\ store' = Effect(store, s, call[t].row)
  /\ UNCHANGED <<conn, hist>>

\* It was not; libpq notices a lost server here.
Failed(t) ==
  LET s == Head(todo[t]) IN
  /\ LeaveExec(t)
  /\ conn # "live" \/ call[t].state \in {"clash", "stale"}
  /\ conn' = IF conn = "broken" /\ call[t].state # "stale" THEN "bad" ELSE conn
  /\ unmade' = IF s.sql = "table" THEN unmade \cup {s.agent} ELSE unmade
  /\ cleanStart' = (cleanStart /\ main # "boot")
  /\ UNCHANGED store

-----------------------------------------------------------------------------
(* The listener (apply_assmb_buf) and the database thread. *)

\* Mutated form of FirstStatements: the record table is left to snap_rec_tbl.
FirstStatements_NoTable(a) ==
  <<[sql |-> "insert", agent |-> a], [sql |-> "update", agent |-> a]>>

\* write_agent_to_cache(incomming, 1) and init_record_tbl.
FirstStatements(a) ==
  <<[sql |-> "insert", agent |-> a], [sql |-> "update", agent |-> a],
    [sql |-> "table", agent |-> a]>>

\* write_agent_to_cache(record, 0); and snap_rec_tbl, whose CREATE TABLE names the
\* table after the bytes of the uuid and not after its text.
OpStatements(o) ==
  IF o.type = "cache" THEN <<[sql |-> "update", agent |-> o.agent]>>
  ELSE <<[sql |-> "junk", agent |-> o.agent], [sql |-> "append", agent |-> o.agent]>>

\* Mutated form of Room: the search goes one slot too far.
Room_TooFar(n) == Used + n <= QueueLen + 1

\* Is there room for the n-th operation of a call?
Room(n) == Used + n <= QueueLen

Add(q, type, a) == [q EXCEPT ![[type |-> type, agent |-> a]] = @ + 1]

\* while(on)
LoopState == IF on THEN "in" ELSE "exited"

FirstReport(a) ==
  /\ a \notin known
  /\ known' = known \cup {a}
  /\ todo' = [todo EXCEPT !["listener"] = FirstStatements(a)]
  /\ thread' = [thread EXCEPT !["listener"] = "check"]
  /\ UNCHANGED queue

\* The two calls: each puts its operation in a free slot, or drops it.
LaterReport(a, due) ==
  /\ a \in known
  /\ queue' = IF ~Room(1) THEN queue
              ELSE IF due /\ Room(2) THEN Add(Add(queue, "cache", a), "snapshot", a)
              ELSE Add(queue, "cache", a)
  /\ thread' = [thread EXCEPT !["listener"] = LoopState]
  /\ UNCHANGED <<known, todo>>

\* A report of a is assembled; has: it is the report in question, or a later one.
Report(a, has, due) ==
  /\ a \in left.hosts /\ thread["listener"] = "in"
  /\ (has => a \in Watched) /\ (a \in after => has)
  /\ after' = IF has THEN after \cup {a} ELSE after
  /\ FirstReport(a) \/ LaterReport(a, due)
  /\ UNCHANGED <<dbVars, conn, main, on, call, left, hist>>

\* Mutated form of ListenerCheck: the loop has no condition.
ListenerCheck_Forever ==
  /\ thread["listener"] = "check" /\ todo["listener"] = <<>>
  /\ thread' = [thread EXCEPT !["listener"] = "in"]
  /\ UNCHANGED <<dbVars, conn, main, on, todo, call, recVars, left, hist>>

\* The head of the loop, with the statements of a first report done.
ListenerCheck ==
  /\ thread["listener"] = "check" /\ todo["listener"] = <<>>
  /\ thread' = [thread EXCEPT !["listener"] = LoopState]
  /\ UNCHANGED <<dbVars, conn, main, on, todo, call, recVars, left, hist>>

\* Mutated form of DbTake: the slot is cleared, the cache row is not written.
DbTake_SnapshotsOnly(o) ==
  /\ thread["database"] = "in" /\ todo["database"] = <<>> /\ o \in Waiting
  /\ queue' = [queue EXCEPT ![o] = @ - 1]
  /\ todo' = [todo EXCEPT !["database"] = IF o.type = "cache" THEN <<>> ELSE OpStatements(o)]
  /\ UNCHANGED <<dbVars, conn, runVars, call, known, after, left, hist>>

DbTake(o) ==
  /\ thread["database"] = "in" /\ todo["database"] = <<>> /\ o \in Waiting
  /\ queue' = [queue EXCEPT ![o] = @ - 1]
  /\ todo' = [todo EXCEPT !["database"] = OpStatements(o)]
  /\ UNCHANGED <<dbVars, conn, runVars, call, known, after, left, hist>>

\* After the pass in which on was cleared.
DbExit ==
  /\ thread["database"] = "in" /\ todo["database"] = <<>> /\ ~on
  /\ thread' = [thread EXCEPT !["database"] = "exited"]
  /\ UNCHANGED <<dbVars, conn, main, on, todo, call, recVars, left, hist>>

-----------------------------------------------------------------------------
(* The main thread. *)

\* db_connect: a connection, or NULL.
Connect == IF up THEN "live" ELSE "null"

\* Mutated form of BootStatements: nothing cleans up after an unclean shutdown.
BootStatements_NoDrop == <<[sql |-> "make"]>>

\* drop_agent_cache, mk_cache_tbl
BootStatements == <<[sql |-> "drop"], [sql |-> "make"]>>

Boot ==
  /\ main = "down" /\ left.runs > 0
  /\ main' = "boot" /\ on' = TRUE /\ left' = [left EXCEPT !.runs = @ - 1]
  /\ conn' = Connect /\ cleanStart' = TRUE
  /\ todo' = [todo EXCEPT !["main"] = BootStatements]
  /\ UNCHANGED <<dbVars, thread, call, recVars, unmade>>

Spawn ==
  /\ main = "boot" /\ todo["main"] = <<>>
  /\ main' = "loop"
  /\ thread' = [t \in DOMAIN thread |-> "in"]
  /\ UNCHANGED <<dbVars, conn, on, todo, call, recVars, left, hist>>

\* Mutated form of NoConnection: only a connection that was never made is retried.
NoConnection_NullOnly == conn = "null"

\* PQstatus(pgconn) != CONNECTION_OK
NoConnection == conn \in {"null", "bad"}

\* A turn of the monitor loop.  A thread inside PQexec keeps the old connection.
Reconnect ==
  /\ main = "loop" /\ on /\ NoConnection
  /\ conn' = Connect
  /\ call' = [t \in Threads |-> IF Working(t) THEN [call[t] EXCEPT !.state = "stale"] ELSE call[t]]
  /\ UNCHANGED <<dbVars, runVars, todo, recVars, left, hist>>

\* SIGINT or SIGTERM
Quitit ==
  /\ main \in {"boot", "loop"} /\ on /\ on' = FALSE
  /\ UNCHANGED <<dbVars, conn, main, thread, todo, call, recVars, left, hist>>

\* The sockets are shut down, which ends a recvfrom, and the cache table is dropped.
Stop ==
  /\ main = "loop" /\ ~on /\ main' = "stop"
  /\ thread' = [thread EXCEPT !["listener"] = IF @ = "in" THEN "check" ELSE @]
  /\ todo' = [todo EXCEPT !["main"] = <<[sql |-> "drop"]>>]
  /\ UNCHANGED <<dbVars, conn, on, call, recVars, left, hist>>

\* Mutated form of Joined: the database thread is not waited for.
Joined_Listener == thread["listener"] = "exited"

\* pthread_join
Joined == \A t \in DOMAIN thread : thread[t] = "exited"

\* PQfinish, clear_data_master
Finish ==
  /\ main = "stop" /\ todo["main"] = <<>> /\ Joined
  /\ main' = "down" /\ conn' = "null"
  /\ known' = {} /\ after' = {} /\ queue' = [o \in Ops |-> 0]
  /\ UNCHANGED <<dbVars, on, thread, todo, call, left, hist>>

\* The master is killed, at any point.
Crash ==
  /\ main # "down" /\ left.runs > 0
  /\ main' = "down" /\ on' = FALSE /\ conn' = "null"
  /\ thread' = [t \in DOMAIN thread |-> "exited"]
  /\ todo' = Quiet /\ call' = [t \in Threads |-> Idle]
  /\ known' = {} /\ after' = {} /\ queue' = [o \in Ops |-> 0]
  /\ UNCHANGED <<dbVars, left, hist>>

Next ==
  \/ Outage \/ Recover
  \/ \E t \in Threads : EnterExec(t) \/ Executed(t) \/ Failed(t)
  \/ \E a \in Agents, has, due \in BOOLEAN : Report(a, has, due)
  \/ \E o \in Ops : DbTake(o)
  \/ ListenerCheck \/ DbExit
  \/ Boot \/ Spawn \/ Reconnect \/ Quitit \/ Stop \/ Finish \/ Crash

Spec == Init /\ [][Next]_vars

\* Agents go on reporting, and not always at a moment when the queue is full;
\* the database thread visits every slot in each pass; outages end.
Reports(a) == \E has, due \in BOOLEAN : Report(a, has, due)

Fairness ==
  /\ \A t \in Threads : WF_vars(EnterExec(t)) /\ WF_vars(Executed(t) \/ Failed(t))
  /\ \A a \in Agents : SF_vars(Reports(a) /\ (a \in known => Room(1)))
  /\ \A o \in Ops : SF_vars(DbTake(o))
  /\ WF_vars(ListenerCheck) /\ WF_vars(DbExit) /\ WF_vars(Recover)
  /\ WF_vars(Spawn) /\ WF_vars(Reconnect) /\ WF_vars(Stop) /\ WF_vars(Finish)

FairSpec == Spec /\ Fairness

-----------------------------------------------------------------------------
(* Properties. *)

\* "Clean-up in case of unclean shutdown": after a start that reached the database,
\* the cache shows agents of this run only, however the last one ended.
RowsOfThisRun ==
  cleanStart /\ main \in {"loop", "stop"} =>
    \A a \in Agents : store.row[a] # "none" => a \in known

\* A snapshot that reaches the server finds the agent's record table, unless the
\* CREATE TABLE of a first report was lost: nothing later makes it again.
SnapshotHasTable ==
  [][\A t \in Threads : Executed(t) =>
       LET s == Head(todo[t]) IN
       s.sql = "append" => s.agent \in store.tables \cup unmade]_vars

\* PQfinish and clear_data_master run when nobody can use what they free.
NothingLeftRunning ==
  main = "down" => /\ \A t \in DOMAIN thread : thread[t] = "exited"
                   /\ \A t \in Threads : todo[t] = <<>> /\ ~Working(t)

\* "retry database connection if necessary": a lost connection is noticed by the
\* statements of the reports that go on, and replaced once the server is back.
ConnectionRestored ==
  (main = "loop" /\ conn # "live") ~> (conn = "live" \/ ~up \/ ~on)

\* An agent that has a row in the cache finds each report of it there in the end,
\* over lost connections, full queues and statements lost to other threads.
RowCatchesUp ==
  \A a \in Agents : (a \in after /\ store.row[a] # "none")
                      ~> (store.row[a] = "after" \/ a \notin known \/ ~on)

\* The master exits after SIGINT or SIGTERM.
ShutdownEnds == (main = "loop" /\ ~on) ~> (main = "down")

\* Every agent the master knows gets its row in the cache.
EveryAgentHasRow ==
  \A a \in Agents : (a \in known) ~> (store.row[a] # "none" \/ a \notin known \/ ~on)
=============================================================================
