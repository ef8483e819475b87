------------------------ MODULE MasterDatabaseProofs ------------------------
(***************************************************************************)
(* Theorems about MasterDatabase, for any agents, any length of the queue  *)
(* and any number of outages, crashes and restarts.                        *)
(* Each thread's statements are always one of a few sequences, so that     *)
(* what is under way says which tables it can touch; and each operation    *)
(* that waits has slots of its own in the queue.                           *)
(***************************************************************************)
EXTENDS MasterDatabase, FiniteSetTheorems, TLAPS

Drop == [sql |-> "drop"]
Make == [sql |-> "make"]
Stmt(sql, a) == [sql |-> sql, agent |-> a]

\* What can be left of the statements of each thread.
MainTodo == {<<>>, <<Drop>>, <<Make>>, <<Drop, Make>>}
ListenerTodo(a) ==
  {<<Stmt("insert", a), Stmt("update", a), Stmt("table", a)>>,
   <<Stmt("update", a), Stmt("table", a)>>, <<Stmt("table", a)>>}
DatabaseTodo(a) ==
  {<<Stmt("update", a)>>, <<Stmt("junk", a), Stmt("append", a)>>, <<Stmt("append", a)>>}

Shape ==
  /\ main \in {"boot", "loop", "stop", "down"}
  /\ thread \in [{"listener", "database"} -> {"in", "check", "exited"}]
  /\ call \in [Threads -> Calls]
  /\ known \subseteq Agents
  /\ store \in [cache : BOOLEAN, row : [Agents -> {"none", "before", "after"}],
                tables : SUBSET Agents]
  /\ queue \in [Ops -> Nat]
  /\ DOMAIN todo = Threads

\* Who can have statements when.
Control ==
  /\ todo["main"] \in MainTodo
  /\ todo["listener"] = <<>> \/ \E a \in known : todo["listener"] \in ListenerTodo(a)
  /\ todo["database"] = <<>> \/ \E a \in Agents : todo["database"] \in DatabaseTodo(a)
  /\ \A t \in Threads : Working(t) => todo[t] # <<>>
  /\ \A t \in {"listener", "database"} : thread[t] = "exited" => todo[t] = <<>>
  /\ thread["listener"] = "in" => todo["listener"] = <<>>
  /\ main \in {"down", "boot"} => \A t \in {"listener", "database"} : thread[t] = "exited"
  /\ main \in {"down", "loop"} => todo["main"] = <<>>

\* In a start that loses no statement, DROP TABLE leaves no row to the next run.
Rows ==
  /\ cleanStart /\ main = "boot" /\ todo["main"] # <<Drop, Make>> =>
       \A a \in Agents : store.row[a] = "none"
  /\ RowsOfThisRun

Made == store.tables \cup unmade

\* An agent's CREATE TABLE is over before its second report is looked at.
Tables ==
  /\ \A a \in known : a \in Made \/ todo["listener"] \in ListenerTodo(a)
  /\ \A o \in Ops : queue[o] > 0 => o.agent \in Made
  /\ todo["database"] = <<>> \/ \E a \in Made : todo["database"] \in DatabaseTodo(a)

Inv == Shape /\ Control /\ Rows /\ Tables

-----------------------------------------------------------------------------
(* The sequences of statements. *)

\* What the main thread can execute next, and what is then left.
LEMMA MainSeq ==
  ASSUME NEW s \in MainTodo, s # <<>>
  PROVE  /\ Tail(s) \in {<<>>, <<Make>>}
         /\ Head(s) \in {Drop, Make}
         /\ Head(s) = Drop <=> s \in {<<Drop>>, <<Drop, Make>>}
         /\ Tail(s) = <<Make>> => s = <<Drop, Make>>
<1>1. Drop # Make
  BY DEF Drop, Make
<1>2. CASE s = <<Drop>>
  BY <1>1, <1>2
<1>3. CASE s = <<Make>>
  BY <1>1, <1>3
<1>4. CASE s = <<Drop, Make>>
  BY <1>1, <1>4
<1>. QED  BY <1>2, <1>3, <1>4 DEF MainTodo

\* The same for the listener.
LEMMA ListenerSeq ==
  ASSUME NEW a, NEW s \in ListenerTodo(a)
  PROVE  /\ s # <<>>
         /\ Tail(s) = <<>> \/ Tail(s) \in ListenerTodo(a)
         /\ Head(s).agent = a
         /\ Head(s).sql \in {"insert", "update", "table"}
         /\ Tail(s) = <<>> => Head(s).sql = "table"
<1>1. \A q : Stmt(q, a).sql = q /\ Stmt(q, a).agent = a
  BY DEF Stmt
<1>2. CASE s = <<Stmt("insert", a), Stmt("update", a), Stmt("table", a)>>
  BY <1>1, <1>2 DEF ListenerTodo
<1>3. CASE s = <<Stmt("update", a), Stmt("table", a)>>
  BY <1>1, <1>3 DEF ListenerTodo
<1>4. CASE s = <<Stmt("table", a)>>
  BY <1>1, <1>4
<1>. QED  BY <1>2, <1>3, <1>4 DEF ListenerTodo

\* The same for the database thread.
LEMMA DatabaseSeq ==
  ASSUME NEW a, NEW s \in DatabaseTodo(a)
  PROVE  /\ s # <<>>
         /\ Tail(s) = <<>> \/ Tail(s) \in DatabaseTodo(a)
         /\ Head(s).agent = a
         /\ Head(s).sql \in {"update", "junk", "append"}
<1>1. \A q : Stmt(q, a).sql = q /\ Stmt(q, a).agent = a
  BY DEF Stmt
<1>2. CASE s = <<Stmt("update", a)>>
  BY <1>1, <1>2
<1>3. CASE s = <<Stmt("junk", a), Stmt("append", a)>>
  BY <1>1, <1>3 DEF DatabaseTodo
<1>4. CASE s = <<Stmt("append", a)>>
  BY <1>1, <1>4
<1>. QED  BY <1>2, <1>3, <1>4 DEF DatabaseTodo
-----------------------------------------------------------------------------
(* Facts about the operators. *)

StoreType == [cache : BOOLEAN, row : [Agents -> {"none", "before", "after"}],
              tables : SUBSET Agents]

\* What a statement can do to the tables, and what it leaves alone.
LEMMA EffectFacts ==
  ASSUME NEW st \in StoreType, NEW s, NEW row \in {"before", "after"},
         s.sql \in {"drop", "make"} \/ s.agent \in Agents
  PROVE  /\ Effect(st, s, row) \in StoreType
         /\ st.tables \subseteq Effect(st, s, row).tables
         /\ s.sql = "table" => s.agent \in Effect(st, s, row).tables
         /\ s.sql = "drop" => \A a \in Agents : Effect(st, s, row).row[a] = "none"
         /\ \A a \in Agents : Effect(st, s, row).row[a] # "none" =>
              st.row[a] # "none" \/ (s.sql = "insert" /\ s.agent = a)
<1>1. CASE s.sql = "drop"
  BY <1>1 DEF Effect, StoreType, NoRows
<1>2. CASE s.sql = "make"
  BY <1>2 DEF Effect, StoreType
<1>3. CASE s.sql = "insert"
  BY <1>3 DEF Effect, StoreType
<1>4. CASE s.sql = "update"
  BY <1>4 DEF Effect, StoreType
<1>5. CASE s.sql = "table"
  BY <1>5 DEF Effect, StoreType
<1>6. CASE s.sql \notin {"drop", "make", "insert", "update", "table"}
  BY <1>6 DEF Effect, StoreType
<1>. QED  BY <1>1, <1>2, <1>3, <1>4, <1>5, <1>6

\* A first report's statements, all of them.
LEMMA FirstIsListenerTodo ==
  ASSUME NEW a
  PROVE  FirstStatements(a) \in ListenerTodo(a)
BY DEF FirstStatements, ListenerTodo, Stmt

\* An operation's statements, all of them.
LEMMA OpIsDatabaseTodo ==
  ASSUME NEW o \in Ops
  PROVE  OpStatements(o) \in DatabaseTodo(o.agent)
<1>1. o.type = "cache" => OpStatements(o) = <<Stmt("update", o.agent)>>
  BY DEF OpStatements, Stmt
<1>2. o.type # "cache" => OpStatements(o) = <<Stmt("junk", o.agent), Stmt("append", o.agent)>>
  BY DEF OpStatements, Stmt
<1>. QED  BY <1>1, <1>2 DEF DatabaseTodo

\* The queue after one or two more operations.
LEMMA AddFacts ==
  ASSUME NEW a \in Agents, NEW q \in [Ops -> Nat], NEW type \in {"cache", "snapshot"}
  PROVE  /\ Add(q, type, a) \in [Ops -> Nat]
         /\ \A o \in Ops : Add(q, type, a)[o] > 0 => q[o] > 0 \/ o.agent = a
<1>1. [type |-> type, agent |-> a] \in Ops
  BY DEF Ops
<1>. QED  BY <1>1 DEF Add

-----------------------------------------------------------------------------
(* The invariant holds at the start, and every action keeps it. *)

\* A host without a master.
LEMMA InitInv == Init => Inv
<1>. SUFFICES ASSUME Init PROVE Inv
  OBVIOUS
<1>1. Shape
  BY DEF Init, Shape, NoRows, Quiet, Idle, Calls, Threads
<1>2. Control
  BY DEF Init, Control, Quiet, Idle, Working, Threads, MainTodo
<1>3. Rows
  BY DEF Init, Rows, RowsOfThisRun
<1>4. Tables
  BY DEF Init, Tables, Quiet, Threads
<1>. QED  BY <1>1, <1>2, <1>3, <1>4 DEF Inv

\* What each thread can be executing.
LEMMA HeadFacts ==
  ASSUME Shape, Control, NEW t \in Threads, todo[t] # <<>>
  PROVE  /\ t = "main" => Head(todo[t]) \in {Drop, Make}
         /\ t = "listener" => /\ Head(todo[t]).agent \in known
                              /\ Head(todo[t]).sql \in {"insert", "update", "table"}
         /\ t = "database" => /\ Head(todo[t]).agent \in Agents
                              /\ Head(todo[t]).sql \in {"update", "junk", "append"}
<1>1. CASE t = "main"
  BY <1>1, MainSeq DEF Control
<1>2. CASE t = "listener"
  <2>1. PICK a \in known : todo["listener"] \in ListenerTodo(a)
    BY <1>2 DEF Control
  <2>. QED  BY <1>2, <2>1, ListenerSeq
<1>3. CASE t = "database"
  <2>1. PICK a \in Agents : todo["database"] \in DatabaseTodo(a)
    BY <1>3 DEF Control
  <2>. QED  BY <1>3, <2>1, DatabaseSeq
<1>. QED  BY <1>1, <1>2, <1>3 DEF Threads

\* The end of a PQexec, whatever became of the statement.
LEMMA LeaveControl ==
  ASSUME Shape, Control, NEW t \in Threads, LeaveExec(t), store' \in StoreType
  PROVE  /\ Shape' /\ Control' /\ todo[t] # <<>>
         /\ todo' = [todo EXCEPT ![t] = Tail(todo[t])]
<1>1. todo[t] # <<>> /\ todo' = [todo EXCEPT ![t] = Tail(todo[t])]
  BY DEF LeaveExec, Control
<1>2. Shape'
  BY <1>1 DEF Shape, StoreType, LeaveExec, runVars, recVars, Idle, Calls
<1>3. UNCHANGED <<thread, main, known>>
  BY DEF LeaveExec, runVars, recVars
<1>4. \A u \in Threads \ {t} : todo'[u] = todo[u]
  BY <1>1 DEF Shape
<1>5. todo'[t] = Tail(todo[t])
  BY <1>1 DEF Shape
<1>6. todo'["main"] \in MainTodo /\ (main \in {"down", "loop"} => todo'["main"] = <<>>)
  <2>1. CASE t = "main"
    BY <2>1, <1>1, <1>5, MainSeq DEF Control, MainTodo
  <2>2. CASE t # "main"
    BY <2>2, <1>4 DEF Control, Threads
  <2>. QED  BY <2>1, <2>2
<1>7. todo'["listener"] = <<>> \/ \E a \in known : todo'["listener"] \in ListenerTodo(a)
  <2>1. CASE t = "listener"
    BY <2>1, <1>1, <1>5, ListenerSeq DEF Control
  <2>2. CASE t # "listener"
    BY <2>2, <1>4 DEF Control, Threads
  <2>. QED  BY <2>1, <2>2
<1>8. todo'["database"] = <<>> \/ \E a \in Agents : todo'["database"] \in DatabaseTodo(a)
  <2>1. CASE t = "database"
    BY <2>1, <1>1, <1>5, DatabaseSeq DEF Control
  <2>2. CASE t # "database"
    BY <2>2, <1>4 DEF Control, Threads
  <2>. QED  BY <2>1, <2>2
<1>9. \A u \in Threads : Working(u)' => todo'[u] # <<>>
  BY <1>4 DEF LeaveExec, Working, Idle, Shape, Control
<1>10. \A u \in {"listener", "database"} : thread[u] = "exited" => u # t
  BY <1>1 DEF Control
<1>11. thread["listener"] = "in" => t # "listener"
  BY <1>1 DEF Control
<1>. QED  BY <1>1, <1>2, <1>3, <1>4, <1>6, <1>7, <1>8, <1>9, <1>10, <1>11 DEF Control, Threads

\* Every action keeps the shape of the state and the order of the statements.
LEMMA ControlStep ==
  ASSUME Shape, Control, Next
  PROVE  Shape' /\ Control'
<1>1. CASE Outage \/ Recover
  BY <1>1 DEF Outage, Recover, Shape, Control, Working, runVars, recVars, dbVars
<1>2. ASSUME NEW t \in Threads, EnterExec(t) PROVE Shape' /\ Control'
  <2>1. call' \in [Threads -> Calls]
    BY <1>2 DEF EnterExec, Shape, Calls
  <2>2. \A u \in Threads : Working(u)' => u = t \/ Working(u)
    BY <1>2 DEF EnterExec, Working
  <2>. QED  BY <1>2, <2>1, <2>2 DEF EnterExec, Shape, Control, runVars, recVars, dbVars
<1>3. ASSUME NEW t \in Threads, Executed(t) PROVE Shape' /\ Control'
  <2>1. LeaveExec(t) /\ store' = Effect(store, Head(todo[t]), call[t].row)
    BY <1>3 DEF Executed
  <2>2. call[t].row \in {"before", "after"}
    BY DEF Shape, Calls
  <2>3. Head(todo[t]).sql \in {"drop", "make"} \/ Head(todo[t]).agent \in Agents
    <3>1. todo[t] # <<>>
      BY <2>1 DEF LeaveExec, Control
    <3>. QED  BY <3>1, HeadFacts DEF Shape, Threads, Drop, Make
  <2>4. store' \in StoreType
    BY <2>1, <2>2, <2>3, EffectFacts DEF Shape, StoreType
  <2>. QED  BY <2>1, <2>4, LeaveControl
<1>4. ASSUME NEW t \in Threads, Failed(t) PROVE Shape' /\ Control'
  BY <1>4, LeaveControl DEF Failed, Shape, StoreType
<1>5. ASSUME NEW a \in Agents, NEW has \in BOOLEAN, NEW due \in BOOLEAN, Report(a, has, due)
      PROVE  Shape' /\ Control'
  <2>1. CASE FirstReport(a)
    BY <1>5, <2>1, FirstIsListenerTodo DEF Report, FirstReport, Shape, Control, Working, dbVars, Threads
  <2>2. CASE LaterReport(a, due)
    <3>1. queue' \in [Ops -> Nat]
      BY <2>2, AddFacts DEF LaterReport, Shape
    <3>. QED  BY <1>5, <2>2, <3>1 DEF Report, LaterReport, LoopState, Shape, Control, Working, dbVars, Threads
  <2>. QED  BY <1>5, <2>1, <2>2 DEF Report
<1>6. ASSUME NEW o \in Ops, DbTake(o) PROVE Shape' /\ Control'
  <2>1. queue' \in [Ops -> Nat]
    BY <1>6 DEF DbTake, Waiting, Shape
  <2>2. o.agent \in Agents
    BY DEF Ops
  <2>. QED  BY <1>6, <2>1, <2>2, OpIsDatabaseTodo
            DEF DbTake, Shape, Control, Working, dbVars, runVars, Threads
<1>7. CASE ListenerCheck
  BY <1>7 DEF ListenerCheck, LoopState, Shape, Control, Working, dbVars, recVars, Threads
<1>8. CASE DbExit
  BY <1>8 DEF DbExit, Shape, Control, Working, dbVars, recVars, Threads
<1>9. CASE Boot
  <2>1. BootStatements = <<Drop, Make>>
    BY DEF BootStatements, Drop, Make
  <2>. QED  BY <1>9, <2>1 DEF Boot, Shape, Control, Working, dbVars, recVars, Threads, MainTodo
<1>10. CASE Spawn
  BY <1>10 DEF Spawn, Shape, Control, Working, dbVars, recVars, Threads
<1>11. CASE Reconnect
  <2>1. call' \in [Threads -> Calls] /\ \A u \in Threads : Working(u)' => Working(u)
    BY <1>11 DEF Reconnect, Shape, Calls, Working
  <2>. QED  BY <1>11, <2>1 DEF Reconnect, Shape, Control, dbVars, runVars, recVars
<1>12. CASE Quitit
  BY <1>12 DEF Quitit, Shape, Control, Working, dbVars, recVars
<1>13. CASE Stop
  <2>1. [sql |-> "drop"] = Drop
    BY DEF Drop
  <2>. QED  BY <1>13, <2>1 DEF Stop, Shape, Control, Working, dbVars, recVars, Threads, MainTodo
<1>14. CASE Finish
  BY <1>14 DEF Finish, Joined, Shape, Control, Working, dbVars, Threads, Ops
<1>15. CASE Crash
  BY <1>15 DEF Crash, Shape, Control, Working, dbVars, Quiet, Idle, Calls, Threads, MainTodo
<1>. QED  BY <1>1, <1>2, <1>3, <1>4, <1>5, <1>6, <1>7, <1>8, <1>9, <1>10, <1>11, <1>12, <1>13,
             <1>14, <1>15 DEF Next

\* What the end of a statement means to the tables.
LEMMA TodoTables ==
  ASSUME Inv, NEW t \in Threads, todo[t] # <<>>,
         todo'[t] = Tail(todo[t]), \A u \in Threads \ {t} : todo'[u] = todo[u],
         UNCHANGED <<known, queue>>, Made \subseteq Made',
         Head(todo[t]).sql = "table" => Head(todo[t]).agent \in Made'
  PROVE  Tables'
<1>. USE DEF Inv, Threads
<1>1. ASSUME NEW a \in known PROVE a \in Made' \/ todo'["listener"] \in ListenerTodo(a)
  <2>1. CASE a \in Made \/ t # "listener"
    BY <2>1 DEF Tables
  <2>2. CASE a \notin Made /\ t = "listener"
    BY <2>2, ListenerSeq DEF Tables
  <2>. QED  BY <2>1, <2>2
<1>2. todo'["database"] = <<>> \/ \E a \in Made' : todo'["database"] \in DatabaseTodo(a)
  <2>1. CASE t = "database"
    <3>1. PICK a \in Made : todo["database"] \in DatabaseTodo(a)
      BY <2>1 DEF Tables
    <3>2. Tail(todo["database"]) = <<>> \/ Tail(todo["database"]) \in DatabaseTodo(a)
      BY <3>1, DatabaseSeq
    <3>. QED  BY <2>1, <3>1, <3>2
  <2>2. CASE t # "database"
    BY <2>2 DEF Tables
  <2>. QED  BY <2>1, <2>2
<1>. QED  BY <1>1, <1>2 DEF Tables

\* A statement that is executed, by whom and when.
LEMMA ExecutedFacts ==
  ASSUME Shape, Control, NEW t \in Threads, Executed(t)
  PROVE  /\ todo[t] # <<>> /\ main # "down" /\ (main = "boot" => t = "main")
         /\ store' = Effect(store, Head(todo[t]), call[t].row)
         /\ call[t].row \in {"before", "after"}
         /\ Head(todo[t]).sql \in {"drop", "make"} \/ Head(todo[t]).agent \in Agents
         /\ todo'[t] = Tail(todo[t]) /\ \A u \in Threads \ {t} : todo'[u] = todo[u]
         /\ UNCHANGED <<main, known, queue, hist>>
<1>1. LeaveExec(t) /\ store' = Effect(store, Head(todo[t]), call[t].row) /\ UNCHANGED hist
  BY DEF Executed
<1>2. todo[t] # <<>>
  BY <1>1 DEF LeaveExec, Control
<1>3. call[t].row \in {"before", "after"}
  BY DEF Shape, Calls
<1>4. Head(todo[t]).sql \in {"drop", "make"} \/ Head(todo[t]).agent \in Agents
  BY <1>2, HeadFacts DEF Shape, Threads, Drop, Make
<1>. QED  BY <1>1, <1>2, <1>3, <1>4 DEF LeaveExec, runVars, recVars, Shape, Control, Threads

\* Only the agents of this run get rows.
LEMMA RowsStep ==
  ASSUME Inv, Next
  PROVE  Rows'
<1>. USE DEF Inv
<1>1. ASSUME NEW t \in Threads, Executed(t) PROVE Rows'
  <2>. DEFINE s == Head(todo[t])
  <2>1. /\ s.sql = "drop" => \A a \in Agents : store'.row[a] = "none"
        /\ \A a \in Agents : store'.row[a] # "none" =>
             store.row[a] # "none" \/ (s.sql = "insert" /\ s.agent = a)
    BY <1>1, ExecutedFacts, EffectFacts DEF Shape, StoreType
  <2>2. s.sql = "insert" => t = "listener" /\ s.agent \in known
    BY <1>1, ExecutedFacts, HeadFacts DEF Threads, Drop, Make
  <2>3. CASE main = "boot"
    <3>1. t = "main" /\ s \in {Drop, Make}
      BY <1>1, <2>3, ExecutedFacts, HeadFacts
    <3>2. todo["main"] = <<Drop, Make>> => s.sql = "drop"
      BY <3>1 DEF Drop
    <3>. QED  BY <1>1, <2>1, <2>2, <2>3, <3>1, <3>2, ExecutedFacts DEF Rows, RowsOfThisRun, hist
  <2>4. CASE main # "boot"
    BY <1>1, <2>1, <2>2, <2>4, ExecutedFacts DEF Rows, RowsOfThisRun, hist
  <2>. QED  BY <2>3, <2>4
<1>2. ASSUME NEW t \in Threads, Failed(t) PROVE Rows'
  <2>1. cleanStart' => cleanStart /\ main # "boot"
    BY <1>2 DEF Failed
  <2>2. UNCHANGED <<main, known, store>>
    BY <1>2 DEF Failed, LeaveExec, runVars, recVars
  <2>. QED  BY <2>1, <2>2 DEF Rows, RowsOfThisRun
<1>3. ASSUME NEW a \in Agents, NEW has \in BOOLEAN, NEW due \in BOOLEAN, Report(a, has, due)
      PROVE  Rows'
  <2>1. UNCHANGED <<main, store, cleanStart>> /\ known \subseteq known'
    BY <1>3 DEF Report, FirstReport, LaterReport, dbVars, hist
  <2>2. main # "boot"
    BY <1>3 DEF Report, Control
  <2>. QED  BY <2>1, <2>2 DEF Rows, RowsOfThisRun
<1>4. CASE Boot
  BY <1>4 DEF Boot, Rows, RowsOfThisRun, dbVars, BootStatements, Drop, Make, Shape, Threads
<1>5. CASE Spawn
  BY <1>5 DEF Spawn, Rows, RowsOfThisRun, dbVars, recVars, hist
<1>6. CASE Stop
  BY <1>6 DEF Stop, Rows, RowsOfThisRun, dbVars, recVars, hist
<1>7. CASE Finish \/ Crash
  BY <1>7 DEF Finish, Crash, Rows, RowsOfThisRun
<1>8. CASE Outage \/ Recover \/ ListenerCheck \/ DbExit \/ Reconnect \/ Quitit
  BY <1>8 DEF Outage, Recover, ListenerCheck, DbExit, Reconnect, Quitit, Rows, RowsOfThisRun,
              dbVars, runVars, recVars, hist
<1>9. ASSUME NEW t \in Threads, EnterExec(t) PROVE Rows'
  BY <1>9 DEF EnterExec, Rows, RowsOfThisRun, dbVars, runVars, recVars, hist
<1>10. ASSUME NEW o \in Ops, DbTake(o) PROVE Rows'
  BY <1>10 DEF DbTake, Rows, RowsOfThisRun, Shape, dbVars, runVars, hist, Threads
<1>. QED  BY <1>1, <1>2, <1>3, <1>4, <1>5, <1>6, <1>7, <1>8, <1>9, <1>10 DEF Next

\* A table, once made or given up, stays so; and an operation is only accepted
\* when that is decided.
LEMMA TablesStep ==
  ASSUME Inv, Next
  PROVE  Tables'
<1>. USE DEF Inv
<1>1. ASSUME NEW t \in Threads, Executed(t) PROVE Tables'
  <2>. DEFINE s == Head(todo[t])
  <2>1. store.tables \subseteq store'.tables /\ (s.sql = "table" => s.agent \in store'.tables)
    BY <1>1, ExecutedFacts, EffectFacts DEF Shape, StoreType
  <2>2. Made \subseteq Made' /\ (s.sql = "table" => s.agent \in Made')
    BY <1>1, <2>1, ExecutedFacts DEF Made, hist
  <2>. QED  BY <1>1, <2>2, ExecutedFacts, TodoTables
<1>2. ASSUME NEW t \in Threads, Failed(t) PROVE Tables'
  <2>1. Made \subseteq Made' /\ (Head(todo[t]).sql = "table" => Head(todo[t]).agent \in Made')
    BY <1>2 DEF Failed, Made
  <2>2. todo[t] # <<>> /\ todo' = [todo EXCEPT ![t] = Tail(todo[t])]
    BY <1>2 DEF Failed, LeaveExec, Control
  <2>. QED  BY <1>2, <2>1, <2>2, TodoTables DEF Failed, LeaveExec, recVars, Shape
<1>3. ASSUME NEW a \in Agents, NEW has \in BOOLEAN, NEW due \in BOOLEAN, Report(a, has, due)
      PROVE  Tables'
  <2>1. Made' = Made /\ todo["listener"] = <<>>
    BY <1>3 DEF Report, Made, dbVars, hist, Control
  <2>2. \A b \in known : b \in Made
    BY <2>1, ListenerSeq DEF Tables
  <2>3. CASE FirstReport(a)
    BY <2>1, <2>2, <2>3, FirstIsListenerTodo DEF FirstReport, Tables, Shape, Threads
  <2>4. CASE LaterReport(a, due)
    <3>1. \A o \in Ops : queue'[o] > 0 => queue[o] > 0 \/ o.agent = a
      BY <2>4, AddFacts DEF LaterReport, Shape
    <3>. QED  BY <2>1, <2>2, <2>4, <3>1 DEF LaterReport, Tables, Shape
  <2>. QED  BY <1>3, <2>3, <2>4 DEF Report
<1>4. ASSUME NEW o \in Ops, DbTake(o) PROVE Tables'
  <2>1. queue[o] > 0 /\ \A p \in Ops : queue'[p] > 0 => queue[p] > 0
    BY <1>4 DEF DbTake, Waiting, Shape
  <2>2. o.agent \in Made /\ Made' = Made
    BY <1>4, <2>1 DEF Tables, DbTake, Made, dbVars, hist
  <2>. QED  BY <1>4, <2>1, <2>2, OpIsDatabaseTodo DEF DbTake, Tables, Shape, Threads
<1>5. CASE Boot \/ Stop
  BY <1>5 DEF Boot, Stop, Tables, Made, Shape, dbVars, recVars, hist, Threads
<1>6. CASE Finish
  BY <1>6 DEF Finish, Joined, Control, Tables, Made, dbVars, hist, Ops
<1>7. CASE Crash
  BY <1>7 DEF Crash, Quiet, Tables, Made, dbVars, hist, Threads
<1>8. CASE Outage \/ Recover \/ ListenerCheck \/ DbExit \/ Spawn \/ Reconnect \/ Quitit
  BY <1>8 DEF Outage, Recover, ListenerCheck, DbExit, Spawn, Reconnect, Quitit, Tables, Made,
              dbVars, runVars, recVars, hist
<1>9. ASSUME NEW t \in Threads, EnterExec(t) PROVE Tables'
  BY <1>9 DEF EnterExec, Tables, Made, dbVars, runVars, recVars, hist
<1>. QED  BY <1>1, <1>2, <1>3, <1>4, <1>5, <1>6, <1>7, <1>8, <1>9 DEF Next

-----------------------------------------------------------------------------
(* The bound of the queue, and the types. *)

\* An operation that is put into a queue with a free slot takes one.
LEMMA AddSlot ==
  ASSUME NEW a \in Agents, NEW type \in {"cache", "snapshot"}, NEW q \in [Ops -> 0 .. QueueLen],
         IsFiniteSet(Slots(q)), NEW n \in Nat, Cardinality(Slots(q)) = n, n + 1 <= QueueLen
  PROVE  /\ Add(q, type, a) \in [Ops -> 0 .. QueueLen]
         /\ IsFiniteSet(Slots(Add(q, type, a))) /\ Cardinality(Slots(Add(q, type, a))) = n + 1
<1>1. PICK o \in Ops : o = [type |-> type, agent |-> a]
  BY DEF Ops
<1>2. QueueLen \in Nat
  BY DatabaseAssumption
<1>3. PICK m \in 0 .. QueueLen : m = q[o]
  OBVIOUS
<1>4. m <= n
  <2>. DEFINE f == [i \in 1 .. m |-> <<o, i>>]
  <2>1. \A i \in 1 .. m : <<o, i>> \in Slots(q)
    BY <1>1, <1>2, <1>3 DEF Slots
  <2>2. f \in [1 .. m -> Slots(q)] /\ DOMAIN f = 1 .. m /\ \A i, j \in 1 .. m : f[i] = f[j] => i = j
    BY <2>1
  <2>3. f \in Injection(1 .. m, Slots(q))
    <3>. HIDE DEF f
    <3>. QED  BY <2>2 DEF Injection, IsInjective
  <2>4. Cardinality(1 .. m) <= n
    <3>. HIDE DEF f
    <3>. QED  BY <2>3, FS_Injection
  <2>5. Cardinality(1 .. m) = m
    <3>1. m \in Nat /\ 1 \in Int /\ m \in Int
      BY <1>2, <1>3
    <3>2. IF 1 > m THEN 0 = m ELSE (m - 1) + 1 = m
      BY <3>1
    <3>. QED  BY <3>1, <3>2, FS_Interval
  <2>. QED  BY <2>4, <2>5
<1>5. m + 1 \in 0 .. QueueLen /\ m + 1 \in 1 .. QueueLen /\ ~(m + 1 <= m)
  BY <1>2, <1>3, <1>4
<1>6. PICK r : r = Add(q, type, a)
  OBVIOUS
<1>7. r \in [Ops -> 0 .. QueueLen] /\ r[o] = m + 1 /\ \A p \in Ops \ {o} : r[p] = q[p]
  BY <1>1, <1>3, <1>5, <1>6 DEF Add
<1>8. Slots(r) = Slots(q) \cup {<<o, m + 1>>}
  <2>1. \A p \in Ops, i \in 1 .. QueueLen :
          i <= r[p] <=> i <= q[p] \/ (p = o /\ i = m + 1)
    <3>. TAKE p \in Ops, i \in 1 .. QueueLen
    <3>1. CASE p = o
      <4>1. i <= m + 1 <=> i <= m \/ i = m + 1
        BY <1>2, <1>3
      <4>. QED  BY <1>3, <1>7, <3>1, <4>1
    <3>2. CASE p # o
      BY <1>7, <3>2
    <3>. QED  BY <3>1, <3>2
  <2>2. \A p \in Ops, i \in 1 .. QueueLen :
          <<p, i>> \in Slots(r) <=> <<p, i>> \in Slots(q) \cup {<<o, m + 1>>}
    BY <2>1 DEF Slots
  <2>3. Slots(r) \subseteq Ops \X (1 .. QueueLen) /\ Slots(q) \cup {<<o, m + 1>>} \subseteq Ops \X (1 .. QueueLen)
    BY <1>1, <1>5 DEF Slots
  <2>. QED  BY <2>2, <2>3
<1>9. <<o, m + 1>> \notin Slots(q)
  BY <1>3, <1>5 DEF Slots
<1>10. IsFiniteSet(Slots(r)) /\ Cardinality(Slots(r)) = n + 1
  BY <1>8, <1>9, FS_AddElement
<1>. QED  BY <1>6, <1>7, <1>10

\* One that is taken out leaves its slot.
LEMMA TakeSlot ==
  ASSUME NEW q \in [Ops -> 0 .. QueueLen], IsFiniteSet(Slots(q)), NEW o \in Ops, q[o] > 0,
         NEW r, r = [q EXCEPT ![o] = q[o] - 1]
  PROVE  /\ r \in [Ops -> 0 .. QueueLen]
         /\ IsFiniteSet(Slots(r)) /\ Cardinality(Slots(r)) < Cardinality(Slots(q))
<1>1. QueueLen \in Nat /\ q[o] \in 0 .. QueueLen
  BY DatabaseAssumption
<1>2. q[o] - 1 \in 0 .. QueueLen /\ \A i \in 1 .. QueueLen : i <= q[o] - 1 => i <= q[o]
  BY <1>1
<1>3. r \in [Ops -> 0 .. QueueLen] /\ r[o] = q[o] - 1 /\ \A p \in Ops \ {o} : r[p] = q[p]
  BY <1>2
<1>4. \A p \in Ops, i \in 1 .. QueueLen : i <= r[p] => i <= q[p]
  BY <1>2, <1>3
<1>5. Slots(r) \subseteq Slots(q)
  BY <1>4 DEF Slots
<1>6. <<o, q[o]>> \in Slots(q) /\ <<o, q[o]>> \notin Slots(r)
  BY <1>1, <1>3 DEF Slots
<1>7. Slots(r) # Slots(q)
  BY <1>6
<1>8. /\ IsFiniteSet(Slots(r)) /\ Cardinality(Slots(r)) <= Cardinality(Slots(q))
      /\ Cardinality(Slots(r)) # Cardinality(Slots(q))
  BY <1>5, <1>7, FS_Subset
<1>9. Cardinality(Slots(r)) \in Nat /\ Cardinality(Slots(q)) \in Nat
  BY <1>8, FS_CardinalityType
<1>. QED  BY <1>3, <1>8, <1>9

\* An empty queue uses none.
LEMMA NoSlots ==
  ASSUME NEW q, q = [o \in Ops |-> 0]
  PROVE  /\ q \in [Ops -> 0 .. QueueLen]
         /\ IsFiniteSet(Slots(q)) /\ Cardinality(Slots(q)) = 0
<1>1. QueueLen \in Nat
  BY DatabaseAssumption
<1>2. \A i \in 1 .. QueueLen : ~(i <= 0)
  OBVIOUS
<1>3. Slots(q) = {}
  BY <1>2 DEF Slots
<1>. QED  BY <1>1, <1>3, FS_EmptySet

\* The queue within its array.
QueueFits ==
  /\ queue \in [Ops -> 0 .. QueueLen]
  /\ IsFiniteSet(Slots(queue)) /\ Used <= QueueLen

\* The rest of the types.
Plain ==
  /\ up \in BOOLEAN /\ on \in BOOLEAN /\ cleanStart \in BOOLEAN
  /\ conn \in {"live", "broken", "bad", "null"}
  /\ after \subseteq known \cap Watched
  /\ left \in [hosts : SUBSET Agents, outages : Nat, runs : Nat]
  /\ unmade \subseteq Agents
  /\ ~store.cache => \A a \in Agents : store.row[a] = "none"

\* The two calls of a report stay within the array.
LEMMA ReportFits ==
  ASSUME Inv, QueueFits, NEW a \in Agents, NEW due \in BOOLEAN, LaterReport(a, due)
  PROVE  QueueFits'
<1>1. PICK n \in Nat : n = Cardinality(Slots(queue))
  BY FS_CardinalityType DEF QueueFits
<1>2. queue \in [Ops -> 0 .. QueueLen] /\ IsFiniteSet(Slots(queue)) /\ Cardinality(Slots(queue)) = n
  BY <1>1 DEF QueueFits
<1>work. InWork \in 0 .. 1 /\ InWork' = InWork /\ n + InWork <= QueueLen /\ Used = n + InWork
  <2>1. todo' = todo
    BY DEF LaterReport
  <2>. QED  BY <1>1, <2>1 DEF InWork, QueueFits, Used
<1>3. QueueLen \in Nat
  BY DatabaseAssumption
<1>4. PICK one : one = Add(queue, "cache", a)
  OBVIOUS
<1>5. n + 1 <= QueueLen =>
        /\ one \in [Ops -> 0 .. QueueLen]
        /\ IsFiniteSet(Slots(one)) /\ Cardinality(Slots(one)) = n + 1
  BY <1>2, <1>4, AddSlot
<1>6. PICK two : two = Add(one, "snapshot", a)
  OBVIOUS
<1>7. n + 2 <= QueueLen =>
        /\ two \in [Ops -> 0 .. QueueLen]
        /\ IsFiniteSet(Slots(two)) /\ Cardinality(Slots(two)) = n + 2
  <2>1. SUFFICES ASSUME n + 2 <= QueueLen
                 PROVE  /\ two \in [Ops -> 0 .. QueueLen]
                        /\ IsFiniteSet(Slots(two)) /\ Cardinality(Slots(two)) = n + 2
    OBVIOUS
  <2>2. PICK m \in Nat : m = n + 1 /\ m + 1 <= QueueLen /\ n + 1 <= QueueLen /\ m + 1 = n + 2
    BY <1>3, <2>1
  <2>3. one \in [Ops -> 0 .. QueueLen] /\ IsFiniteSet(Slots(one)) /\ Cardinality(Slots(one)) = m
    BY <1>5, <2>2
  <2>4. /\ two \in [Ops -> 0 .. QueueLen]
        /\ IsFiniteSet(Slots(two)) /\ Cardinality(Slots(two)) = m + 1
    BY <1>6, <2>2, <2>3, AddSlot
  <2>. QED  BY <2>2, <2>4
<1>8. \/ queue' = queue
      \/ queue' = one /\ (n + InWork) + 1 <= QueueLen
      \/ queue' = two /\ (n + InWork) + 2 <= QueueLen
  BY <1>work, <1>4, <1>6 DEF LaterReport, Room
<1>9. \A m \in {n, n + 1, n + 2} : m \in Nat
  OBVIOUS
<1>10. Used' = Cardinality(Slots(queue')) + InWork
  BY <1>work DEF Used, Slots
<1>11. \E r, m : /\ r = queue' /\ m \in Nat /\ m + InWork <= QueueLen
                 /\ r \in [Ops -> 0 .. QueueLen] /\ IsFiniteSet(Slots(r)) /\ Cardinality(Slots(r)) = m
  <2>1. CASE queue' = queue
    BY <1>1, <1>2, <1>work, <2>1
  <2>2. CASE queue' = one /\ (n + InWork) + 1 <= QueueLen
    <3>1. n + 1 <= QueueLen /\ (n + 1) + InWork <= QueueLen
      BY <1>3, <1>work, <2>2
    <3>. QED  BY <1>5, <1>9, <2>2, <3>1
  <2>3. CASE queue' = two /\ (n + InWork) + 2 <= QueueLen
    <3>1. n + 2 <= QueueLen /\ (n + 2) + InWork <= QueueLen
      BY <1>3, <1>work, <2>3
    <3>. QED  BY <1>7, <1>9, <2>3, <3>1
  <2>. QED  BY <1>8, <2>1, <2>2, <2>3
<1>12. Slots(queue)' = Slots(queue')
  BY DEF Slots
<1>. QED  BY <1>10, <1>11, <1>12 DEF QueueFits

\* The queue after any step.
LEMMA QueueStep ==
  ASSUME Inv, QueueFits, Next
  PROVE  QueueFits'
<1>1. QueueLen \in Nat /\ 1 <= QueueLen
  BY DatabaseAssumption
<1>2. /\ Used' = Cardinality(Slots(queue')) + InWork' /\ Slots(queue)' = Slots(queue')
      /\ InWork \in 0 .. 1 /\ InWork' \in 0 .. 1 /\ Cardinality(Slots(queue)) \in Nat
  BY FS_CardinalityType DEF Used, Slots, InWork, QueueFits
<1>3. CASE queue' = queue /\ InWork' <= InWork
  BY <1>1, <1>2, <1>3 DEF QueueFits, Used
<1>4. CASE queue' = [o \in Ops |-> 0]
  BY <1>1, <1>2, <1>4, NoSlots DEF QueueFits
<1>5. ASSUME NEW o \in Ops, DbTake(o) PROVE QueueFits'
  <2>1. PICK q, r : q = queue /\ r = queue' /\ q[o] > 0 /\ r = [q EXCEPT ![o] = q[o] - 1]
    BY <1>5 DEF DbTake, Waiting
  <2>2. q \in [Ops -> 0 .. QueueLen] /\ IsFiniteSet(Slots(q))
        /\ Cardinality(Slots(q)) \in Nat /\ Cardinality(Slots(q)) <= QueueLen
    BY <1>1, <1>2, <2>1 DEF QueueFits, Used
  <2>3. /\ r \in [Ops -> 0 .. QueueLen]
        /\ IsFiniteSet(Slots(r)) /\ Cardinality(Slots(r)) < Cardinality(Slots(q))
    BY <2>1, <2>2, TakeSlot
  <2>4. PICK k \in Nat : k = Cardinality(Slots(r))
    BY <2>3, FS_CardinalityType
  <2>5. k + InWork' <= QueueLen
    BY <1>1, <1>2, <2>2, <2>3, <2>4
  <2>. QED  BY <1>2, <2>1, <2>3, <2>4, <2>5 DEF QueueFits
<1>6. ASSUME NEW a \in Agents, NEW has \in BOOLEAN, NEW due \in BOOLEAN, Report(a, has, due)
      PROVE  QueueFits'
  <2>1. FirstReport(a) => queue' = queue /\ InWork' = InWork
    BY DEF FirstReport, InWork, Inv, Shape
  <2>. QED  BY <1>2, <1>3, <1>6, <2>1, ReportFits DEF Report
<1>7. CASE \E t \in Threads : EnterExec(t) \/ Executed(t) \/ Failed(t)
  <2>1. ASSUME NEW t \in Threads, EnterExec(t) PROVE QueueFits'
    BY <1>2, <1>3, <2>1 DEF EnterExec, recVars, InWork
  <2>2. ASSUME NEW t \in Threads, LeaveExec(t) PROVE QueueFits'
    <3>1. queue' = queue /\ todo' = [todo EXCEPT ![t] = Tail(@)] /\ todo[t] # <<>>
      BY <2>2 DEF LeaveExec, recVars, Inv, Control
    <3>2. InWork' <= InWork
      BY <3>1 DEF InWork, Inv, Shape
    <3>. QED  BY <1>3, <3>1, <3>2
  <2>. QED  BY <1>7, <2>1, <2>2 DEF Executed, Failed
<1>8. CASE \/ Outage \/ Recover \/ ListenerCheck \/ DbExit \/ Boot \/ Spawn \/ Reconnect \/ Quitit \/ Stop
  <2>1. queue' = queue
    BY <1>8 DEF Outage, Recover, ListenerCheck, DbExit, Boot, Spawn, Reconnect, Quitit, Stop, recVars
  <2>2. todo' = todo \/ \E s : todo' = [todo EXCEPT !["main"] = s]
    BY <1>8 DEF Outage, Recover, ListenerCheck, DbExit, Boot, Spawn, Reconnect, Quitit, Stop
  <2>3. InWork' = InWork
    BY <2>2 DEF InWork, Inv, Shape, Threads
  <2>. QED  BY <1>2, <1>3, <2>1, <2>3
<1>9. CASE Finish \/ Crash
  BY <1>4, <1>9 DEF Finish, Crash
<1>. QED  BY <1>5, <1>6, <1>7, <1>8, <1>9 DEF Next

\* No statement puts a row where there is no table.
LEMMA EffectRows ==
  ASSUME NEW st \in StoreType, NEW s, NEW row \in {"before", "after"},
         s.sql \in {"drop", "make"} \/ s.agent \in Agents,
         ~st.cache => \A a \in Agents : st.row[a] = "none"
  PROVE  ~Effect(st, s, row).cache => \A a \in Agents : Effect(st, s, row).row[a] = "none"
<1>1. CASE s.sql = "drop"
  BY <1>1 DEF Effect, StoreType, NoRows
<1>2. CASE s.sql = "make"
  BY <1>2 DEF Effect, StoreType
<1>3. CASE s.sql = "insert"
  BY <1>3 DEF Effect, StoreType
<1>4. CASE s.sql = "update"
  BY <1>4 DEF Effect, StoreType
<1>5. CASE s.sql = "table"
  BY <1>5 DEF Effect, StoreType
<1>6. CASE s.sql \notin {"drop", "make", "insert", "update", "table"}
  BY <1>6 DEF Effect, StoreType
<1>. QED  BY <1>1, <1>2, <1>3, <1>4, <1>5, <1>6

\* What a report changes besides.
LEMMA ReportPlain ==
  ASSUME Inv, Plain, NEW a \in Agents, NEW has \in BOOLEAN, NEW due \in BOOLEAN, Report(a, has, due)
  PROVE  Plain'
<1>1. /\ UNCHANGED <<up, store, conn, on, left, cleanStart, unmade>>
      /\ after' = IF has THEN after \cup {a} ELSE after
      /\ has => a \in Watched
      /\ known' = known \cup {a}
  BY DEF Report, FirstReport, LaterReport, dbVars, hist
<1>. QED  BY <1>1 DEF Plain

\* The rest of the types after any step.
LEMMA PlainStep ==
  ASSUME Inv, Plain, Next
  PROVE  Plain'
<1>. USE DEF Plain
<1>1. ASSUME NEW t \in Threads, EnterExec(t) PROVE Plain'
  BY <1>1 DEF EnterExec, dbVars, runVars, recVars, hist
<1>2. ASSUME NEW t \in Threads, Executed(t) PROVE Plain'
  <2>1. /\ UNCHANGED <<up, on, conn, left, known, after, cleanStart, unmade>>
        /\ store' = Effect(store, Head(todo[t]), call[t].row)
    BY <1>2 DEF Executed, LeaveExec, runVars, recVars, hist
  <2>2. store \in StoreType
    BY DEF Inv, Shape, StoreType
  <2>3. ~store'.cache => \A a \in Agents : store'.row[a] = "none"
    BY <1>2, <2>1, <2>2, ExecutedFacts, EffectRows DEF Inv
  <2>. QED  BY <2>1, <2>3
<1>3. ASSUME NEW t \in Threads, Failed(t) PROVE Plain'
  <2>1. /\ UNCHANGED <<up, on, store, left, known, after>> /\ conn' \in {conn, "bad"}
        /\ unmade' = IF Head(todo[t]).sql = "table" THEN unmade \cup {Head(todo[t]).agent} ELSE unmade
        /\ cleanStart' \in BOOLEAN
    BY <1>3 DEF Failed, LeaveExec, runVars, recVars
  <2>2. todo[t] # <<>>
    BY <1>3 DEF Failed, LeaveExec, Inv, Control
  <2>3. Head(todo[t]).sql = "table" => Head(todo[t]).agent \in Agents
    BY <2>2, HeadFacts DEF Inv, Shape, Threads, Drop, Make
  <2>. QED  BY <2>1, <2>3
<1>4. CASE Outage
  <2>1. left.outages \in Nat /\ left.outages > 0 /\ left' = [left EXCEPT !.outages = left.outages - 1]
    BY <1>4 DEF Outage
  <2>2. left.outages - 1 \in Nat
    BY <2>1
  <2>3. left' \in [hosts : SUBSET Agents, outages : Nat, runs : Nat]
    BY <2>1, <2>2
  <2>. QED  BY <1>4, <2>3 DEF Outage, runVars, recVars, hist
<1>5. CASE Boot
  <2>1. left.runs \in Nat /\ left.runs > 0 /\ left' = [left EXCEPT !.runs = left.runs - 1]
    BY <1>5 DEF Boot
  <2>2. left.runs - 1 \in Nat
    BY <2>1
  <2>3. left' \in [hosts : SUBSET Agents, outages : Nat, runs : Nat]
    BY <2>1, <2>2
  <2>. QED  BY <1>5, <2>3 DEF Boot, Connect, dbVars, recVars
<1>6. CASE Recover \/ ListenerCheck \/ DbExit \/ Spawn \/ Quitit \/ Stop
  BY <1>6 DEF Recover, ListenerCheck, DbExit, Spawn, Quitit, Stop, dbVars, runVars, recVars, hist
<1>7. CASE Reconnect
  BY <1>7 DEF Reconnect, Connect, dbVars, runVars, recVars, hist
<1>8. CASE Finish \/ Crash
  BY <1>8 DEF Finish, Crash, dbVars, hist
<1>9. ASSUME NEW o \in Ops, DbTake(o) PROVE Plain'
  BY <1>9 DEF DbTake, dbVars, runVars, hist
<1>. QED  BY <1>1, <1>2, <1>3, <1>4, <1>5, <1>6, <1>7, <1>8, <1>9, ReportPlain DEF Next

\* The statements of the three threads are statements.
LEMMA TodoStatements ==
  ASSUME Shape, Control
  PROVE  \A t \in Threads : \A i \in DOMAIN todo[t] : todo[t][i] \in Statements
<1>1. Drop \in Statements /\ Make \in Statements
  BY DEF Drop, Make, Statements
<1>2. \A a \in Agents, q \in {"insert", "update", "table", "junk", "append"} : Stmt(q, a) \in Statements
  BY DEF Stmt, Statements
<1>3. \A i \in DOMAIN todo["main"] : todo["main"][i] \in Statements
  BY <1>1 DEF Control, MainTodo
<1>4. \A i \in DOMAIN todo["listener"] : todo["listener"][i] \in Statements
  <2>1. CASE todo["listener"] = <<>>
    BY <2>1
  <2>2. CASE \E a \in known : todo["listener"] \in ListenerTodo(a)
    <3>1. PICK a \in Agents : todo["listener"] \in ListenerTodo(a)
      BY <2>2 DEF Shape
    <3>. QED  BY <1>2, <3>1 DEF ListenerTodo
  <2>. QED  BY <2>1, <2>2 DEF Control
<1>5. \A i \in DOMAIN todo["database"] : todo["database"][i] \in Statements
  <2>1. CASE todo["database"] = <<>>
    BY <2>1
  <2>2. CASE \E a \in Agents : todo["database"] \in DatabaseTodo(a)
    <3>1. PICK a \in Agents : todo["database"] \in DatabaseTodo(a)
      BY <2>2
    <3>. QED  BY <1>2, <3>1 DEF DatabaseTodo
  <2>. QED  BY <2>1, <2>2 DEF Control
<1>. QED  BY <1>3, <1>4, <1>5 DEF Threads

-----------------------------------------------------------------------------
(* The theorems. *)

\* The invariant holds in every state.
THEOREM Invariance == Spec => []Inv
<1>1. Inv /\ [Next]_vars => Inv'
  <2>1. CASE Next
    BY <2>1, ControlStep, RowsStep, TablesStep DEF Inv
  <2>2. CASE UNCHANGED vars
    BY <2>2 DEF vars, dbVars, runVars, recVars, hist, Inv, Shape, Control, Working, Rows,
                RowsOfThisRun, Tables, Made
  <2>. QED  BY <2>1, <2>2
<1>. QED  BY InitInv, <1>1, PTL DEF Spec

\* TypeOK, for any number of agents, outages and restarts: the queue is never over its
\* length, and a cache table that is not there has no rows.
THEOREM TypeCorrect == Spec => []TypeOK
<1>1. Init => QueueFits /\ Plain
  <2>. SUFFICES ASSUME Init PROVE QueueFits /\ Plain
    OBVIOUS
  <2>1. QueueLen \in Nat /\ 0 \in Nat /\ 0 <= QueueLen
    BY DatabaseAssumption
  <2>2. queue = [o \in Ops |-> 0]
    BY DEF Init
  <2>3. QueueFits
    BY <2>1, <2>2, NoSlots DEF QueueFits, Used, InWork, Init, Quiet, Threads
  <2>4. left \in [hosts : SUBSET Agents, outages : Nat, runs : Nat]
    BY DatabaseAssumption DEF Init
  <2>5. Plain
    BY <2>4 DEF Init, Plain, NoRows
  <2>. QED  BY <2>3, <2>5
<1>2. Inv /\ QueueFits /\ Plain /\ [Next]_vars => (QueueFits /\ Plain)'
  <2>1. CASE UNCHANGED vars
    BY <2>1 DEF vars, dbVars, runVars, recVars, hist, QueueFits, Used, Slots, InWork, Plain
  <2>. QED  BY <2>1, QueueStep, PlainStep
<1>3. Inv /\ QueueFits /\ Plain => TypeOK
  <2>. SUFFICES ASSUME Inv, QueueFits, Plain PROVE TypeOK
    OBVIOUS
  <2>1. Shape /\ Control
    BY DEF Inv
  <2>. QED  BY <2>1, TodoStatements DEF TypeOK, Shape, QueueFits, Plain
<1>. QED  BY <1>1, <1>2, <1>3, Invariance, PTL DEF Spec

\* After a start whose statements were all executed, the cache shows agents of
\* this run only (drop_agent_cache in main, before the threads are there).
THEOREM RowsCorrect == Spec => []RowsOfThisRun
BY Invariance, PTL DEF Inv, Rows

\* When main returns, neither thread is in a statement or has one to execute
\* (pthread_join in front of PQfinish and clear_data_master).
THEOREM EndCorrect == Spec => []NothingLeftRunning
<1>1. Inv => NothingLeftRunning
  BY DEF Inv, Shape, Control, NothingLeftRunning, Threads
<1>. QED  BY <1>1, Invariance, PTL

\* Every snapshot that is executed finds its table, or the one CREATE TABLE was
\* lost (init_record_tbl at the first report, snap_rec_tbl at later ones).
THEOREM SnapshotCorrect == Spec => SnapshotHasTable
<1>. DEFINE A == \A t \in Threads : Executed(t) =>
       LET s == Head(todo[t]) IN s.sql = "append" => s.agent \in store.tables \cup unmade
<1>1. Inv => A
  <2>. SUFFICES ASSUME Inv, NEW t \in Threads, Executed(t), Head(todo[t]).sql = "append"
                PROVE  Head(todo[t]).agent \in Made
    BY DEF Made
  <2>1. todo[t] # <<>> /\ t = "database"
    BY ExecutedFacts, HeadFacts DEF Inv, Threads, Drop, Make
  <2>2. PICK a \in Made : todo["database"] \in DatabaseTodo(a)
    BY <2>1 DEF Inv, Tables
  <2>. QED  BY <2>1, <2>2, DatabaseSeq
<1>2. Inv /\ [Next]_vars => [A]_vars
  BY <1>1
<1>. QED  BY <1>2, Invariance, PTL DEF SnapshotHasTable, Spec
=============================================================================
