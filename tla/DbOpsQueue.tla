----------------------------- MODULE DbOpsQueue -----------------------------
(***************************************************************************)
(* The database operations queue of the master (master/at_db.c).  The      *)
(* report listener thread applies a report to an agent's record and then   *)
(* publishes one or two operations in the first free slot it finds; the    *)
(* database thread walks the slots for ever and carries out what it finds. *)
(* The two share data_ops_queue without a lock (db_queue_ops_mtx is        *)
(* declared and initialised, never taken), so every read or write of a     *)
(* slot is a step of its own here.  at_db.o is built without optimisation  *)
(* (MASTER_LDFLAGS is empty), so the steps are in program order.           *)
(***************************************************************************)
EXTENDS Integers, FiniteSets

CONSTANTS Agents,       \* agents whose reports reach the master
          NULL,         \* a slot's record pointer when the slot is free
          QueueLen,     \* MAX_DB_QUEUE_LEN
          MaxReports    \* bound on the reports applied (exploration only)

ASSUME QueueAssumption ==
  /\ QueueLen \in Nat \ {0}
  /\ MaxReports \in Nat
  /\ NULL \notin Agents

Slots  == 0 .. QueueLen - 1
OpType == {"CACHE", "TS"}     \* DB_AGENT_CACHE_UPDATE_QUEUE, DB_AGENT_TS_UPDATE_QUEUE
Commit == {"due", "not_due"}    \* is the record's commit_rate over?

VARIABLES
  run,        \* the `on' flag of every thread's loop is set, cleared, or the process is gone
  qtype,      \* data_ops_qtype[slot]
  qrecord,    \* data_ops_qrecord[slot]
  known,      \* agents that have a record in obj_rec
  \* the report listener inside apply_assmb_buf
  lpc, li, lagent, ltype, lcommit,
  \* the database thread
  dpc, di,
  \* history, read by no thread
  reports,    \* reports applied so far
  version,    \* agent -> reports merged into its record
  published,  \* agent -> version of its record at the last accepted cache operation
  cached,     \* agent -> version of its row in the cache table
  ticket,     \* slot -> number of the operation last accepted in it
  accepted,   \* operations accepted so far
  executed    \* operations carried out, as the database thread saw them

listenerVars == <<known, lpc, li, lagent, ltype, lcommit>>
dbVars       == <<dpc, di>>
history      == <<reports, version, published, cached, ticket, accepted, executed>>
vars == <<run, qtype, qrecord, listenerVars, dbVars, history>>

LPc == {"recv", "scan", "type", "record"}
DPc == {"check", "first", "write", "clear1", "second", "snap", "clear2", "exited"}

\* A report publishes at most two operations.
Op == [id : 0 .. 2 * MaxReports - 1, agent : Agents, type : OpType]

TypeOK ==
  /\ run \in {"on", "off", "crashed"}
  /\ qtype \in [Slots -> OpType] /\ qrecord \in [Slots -> Agents \cup {NULL}]
  /\ known \subseteq Agents
  /\ lpc \in LPc /\ li \in 0 .. QueueLen
  /\ lagent \in Agents \cup {NULL} /\ ltype \in OpType /\ lcommit \in Commit
  /\ lpc # "recv" => lagent \in Agents
  /\ dpc \in DPc /\ di \in Slots
  /\ reports \in Nat /\ accepted \in Nat
  /\ version \in [Agents -> Nat]
  /\ published \in [Agents -> Nat] /\ cached \in [Agents -> Nat]
  /\ ticket \in [Slots -> Nat]
  /\ executed \subseteq Op

Init ==
  /\ run = "on"
  /\ qtype = [s \in Slots |-> "CACHE"] /\ qrecord = [s \in Slots |-> NULL]
  /\ known = {}
  /\ lpc = "recv" /\ li = 0 /\ lagent = NULL /\ ltype = "CACHE" /\ lcommit = "not_due"
  /\ dpc = "check" /\ di = 0
  /\ reports = 0 /\ accepted = 0
  /\ version = [a \in Agents |-> 0]
  /\ published = [a \in Agents |-> 0] /\ cached = [a \in Agents |-> 0]
  /\ ticket = [s \in Slots |-> 0]
  /\ executed = {}

-----------------------------------------------------------------------------
(* The report listener: apply_assmb_buf and the two *_to_db_ops_queue calls. *)

\* First report of an agent: the record is created and its row written to
\* the cache table by this thread, without the queue.
FirstReport(a) ==
  /\ lpc = "recv" /\ run = "on" /\ reports < MaxReports
  /\ a \notin known
  /\ known' = known \cup {a}
  /\ reports' = reports + 1
  /\ version' = [version EXCEPT ![a] = 1]
  /\ published' = [published EXCEPT ![a] = 1]
  /\ cached' = [cached EXCEPT ![a] = 1]
  /\ UNCHANGED <<run, qtype, qrecord, lpc, li, lagent, ltype, lcommit, dbVars,
                 ticket, accepted, executed>>

\* A later report is merged into the standing record; a cache operation is
\* published, and a snapshot operation too when the record's commit is due.
MergeReport(a, commit) ==
  /\ lpc = "recv" /\ run = "on" /\ reports < MaxReports
  /\ a \in known
  /\ reports' = reports + 1
  /\ version' = [version EXCEPT ![a] = @ + 1]
  /\ lpc' = "scan" /\ li' = 0 /\ lagent' = a /\ ltype' = "CACHE" /\ lcommit' = commit
  /\ UNCHANGED <<run, qtype, qrecord, known, dbVars, published, cached, ticket,
                 accepted, executed>>

SlotFree(s) == qrecord[s] = NULL

ScanSlot ==
  /\ lpc = "scan" /\ li < QueueLen
  /\ IF SlotFree(li)
       THEN lpc' = "type" /\ UNCHANGED li
       ELSE li' = li + 1 /\ UNCHANGED lpc
  /\ UNCHANGED <<run, qtype, qrecord, known, lagent, ltype, lcommit, dbVars, history>>

\* Mutated form of NextCall: the snapshot operation goes to the slot found for the
\* cache operation.
NextCall_SameSlot ==
  IF ltype = "CACHE" /\ lcommit = "due"
    THEN lpc' = "type" /\ ltype' = "TS" /\ lcommit' = "not_due" /\ UNCHANGED li
    ELSE lpc' = "recv" /\ UNCHANGED <<li, ltype, lcommit>>

\* After the cache operation comes the snapshot operation, if one is due.
NextCall ==
  IF ltype = "CACHE" /\ lcommit = "due"
    THEN lpc' = "scan" /\ li' = 0 /\ ltype' = "TS" /\ lcommit' = "not_due"
    ELSE lpc' = "recv" /\ UNCHANGED <<li, ltype, lcommit>>

\* "database ops queue is blown": the operation is dropped, the listener goes on.
QueueBlown ==
  /\ lpc = "scan" /\ li = QueueLen
  /\ NextCall
  /\ UNCHANGED <<run, qtype, qrecord, known, lagent, dbVars, history>>

WriteType ==
  /\ lpc = "type"
  /\ qtype' = [qtype EXCEPT ![li] = ltype]
  /\ lpc' = "record"
  /\ UNCHANGED <<run, qrecord, known, li, lagent, ltype, lcommit, dbVars, history>>

\* The record pointer makes the slot visible: the operation is accepted.
WriteRecord ==
  /\ lpc = "record"
  /\ qrecord' = [qrecord EXCEPT ![li] = lagent]
  /\ ticket' = [ticket EXCEPT ![li] = accepted]
  /\ accepted' = accepted + 1
  /\ published' = IF ltype = "CACHE"
                    THEN [published EXCEPT ![lagent] = version[lagent]]
                    ELSE published
  /\ NextCall
  /\ UNCHANGED <<run, qtype, known, lagent, dbVars, reports, version, cached, executed>>

Listener ==
  \/ \E a \in Agents : FirstReport(a) \/ \E commit \in Commit : MergeReport(a, commit)
  \/ ScanSlot \/ QueueBlown \/ WriteType \/ WriteRecord

-----------------------------------------------------------------------------
(* The database thread: database_ops_queue. *)

\* Mutated form of NextSlot: the walk goes one slot too far.
NextSlot_TooFar ==
  IF di + 1 <= QueueLen
    THEN di' = di + 1 /\ dpc' = "check"
    ELSE di' = 0 /\ dpc' = IF run = "on" THEN "check" ELSE "exited"

\* Mutated form of NextSlot: the walk never gets to the last slot.
NextSlot_TooShort ==
  IF di + 2 < QueueLen
    THEN di' = di + 1 /\ dpc' = "check"
    ELSE di' = 0 /\ dpc' = IF run = "on" THEN "check" ELSE "exited"

\* The end of the loop body: the next slot, or `on' again after the last one.
NextSlot ==
  IF di + 1 < QueueLen
    THEN di' = di + 1 /\ dpc' = "check"
    ELSE di' = 0 /\ dpc' = IF run = "on" THEN "check" ELSE "exited"

DbCheck ==
  /\ dpc = "check"
  /\ IF SlotFree(di) THEN NextSlot ELSE dpc' = "first" /\ UNCHANGED di
  /\ UNCHANGED <<run, qtype, qrecord, listenerVars, history>>

\* The first `if': is the slot a cache update?
DbFirst ==
  /\ dpc = "first"
  /\ dpc' = IF qtype[di] = "CACHE" THEN "write" ELSE "second"
  /\ UNCHANGED <<run, qtype, qrecord, listenerVars, di, history>>

Done(type) == executed \cup {[id |-> ticket[di], agent |-> qrecord[di], type |-> type]}

\* Mutated form of DbWriteCache: a record that the listener is publishing is skipped.
DbWriteCache_SkipsBusy ==
  /\ dpc = "write"
  /\ dpc' = "clear1"
  /\ executed' = Done("CACHE")
  /\ cached' = IF lpc # "recv" /\ lagent = qrecord[di]
                 THEN cached ELSE [cached EXCEPT ![qrecord[di]] = version[qrecord[di]]]
  /\ UNCHANGED <<run, qtype, qrecord, listenerVars, di, reports, version, published,
                 ticket, accepted>>

DbWriteCache ==
  /\ dpc = "write"
  /\ dpc' = "clear1"
  /\ executed' = Done("CACHE")
  /\ cached' = [cached EXCEPT ![qrecord[di]] = version[qrecord[di]]]
  /\ UNCHANGED <<run, qtype, qrecord, listenerVars, di, reports, version, published,
                 ticket, accepted>>

ClearSlot == qrecord' = [qrecord EXCEPT ![di] = NULL]

\* Mutated form of DbClearCache: the slot is not cleared after its cache update.
DbClearCache_Forgets ==
  /\ dpc = "clear1"
  /\ dpc' = "second"
  /\ UNCHANGED <<run, qtype, qrecord, listenerVars, di, history>>

\* The record pointer is cleared, and the loop body goes on to its second `if'.
DbClearCache ==
  /\ dpc = "clear1"
  /\ ClearSlot
  /\ dpc' = "second"
  /\ UNCHANGED <<run, qtype, listenerVars, di, history>>

\* The second `if' reads the slot's type again, without looking at its record.
DbSecond ==
  /\ dpc = "second"
  /\ IF qtype[di] = "TS" THEN dpc' = "snap" /\ UNCHANGED di ELSE NextSlot
  /\ UNCHANGED <<run, qtype, qrecord, listenerVars, history>>

DbSnap ==
  /\ dpc = "snap" /\ qrecord[di] # NULL
  /\ dpc' = "clear2"
  /\ executed' = Done("TS")
  /\ UNCHANGED <<run, qtype, qrecord, listenerVars, di, reports, version, published,
                 cached, ticket, accepted>>

\* snap_rec_tbl(NULL) reads obj_rec->record.
DbSnapNull ==
  /\ dpc = "snap" /\ qrecord[di] = NULL
  /\ run' = "crashed"
  /\ UNCHANGED <<qtype, qrecord, listenerVars, dbVars, history>>

DbClearSnap ==
  /\ dpc = "clear2"
  /\ ClearSlot
  /\ NextSlot
  /\ UNCHANGED <<run, qtype, listenerVars, history>>

Database ==
  \/ DbCheck \/ DbFirst \/ DbWriteCache \/ DbClearCache
  \/ DbSecond \/ DbSnap \/ DbSnapNull \/ DbClearSnap

\* SIGINT or SIGTERM.
Quit ==
  /\ run = "on"
  /\ run' = "off"
  /\ UNCHANGED <<qtype, qrecord, listenerVars, dbVars, history>>

Alive == run # "crashed"

Next == Alive /\ (Listener \/ Database \/ Quit)

Spec == Init /\ [][Next]_vars

\* The threads are preemptive and never block on one another: both keep running.
FairSpec ==
  /\ Spec
  /\ WF_vars(Alive /\ Database)
  /\ WF_vars(Alive /\ (ScanSlot \/ QueueBlown \/ WriteType \/ WriteRecord))

-----------------------------------------------------------------------------
(* Properties. *)

\* A slot belongs to one thread at a time although neither takes a lock: the
\* slot the listener is filling is free, and the slot whose operation the
\* database thread carries out or clears is taken and keeps the type it was
\* dispatched on.  The one exception is the second `if' of the loop body: it can
\* meet a free slot, and only while the listener is publishing a snapshot there.
SlotOwnership ==
  /\ lpc \in {"type", "record"} => li \in Slots /\ SlotFree(li)
  /\ dpc \in {"first", "write", "clear1", "clear2"} => ~SlotFree(di)
  /\ dpc \in {"write", "clear1"} => qtype[di] = "CACHE"
  /\ dpc \in {"snap", "clear2"} => qtype[di] = "TS"
  /\ dpc = "snap" /\ SlotFree(di) => lpc = "record" /\ li = di /\ ltype = "TS"

\* The slots that hold an operation still to be carried out.
Waiting == {s \in Slots : ~SlotFree(s) /\ ~(s = di /\ dpc \in {"clear1", "clear2"})}

\* The slot of the operation that was carried out last, until it is cleared.
InHand == IF dpc \in {"clear1", "clear2"} THEN {di} ELSE {}

OpIn(s) == [id |-> ticket[s], agent |-> qrecord[s], type |-> qtype[s]]

\* The queue with its two unsynchronised threads implements ExactlyOnceOps: no
\* operation is lost by an overwrite, carried out twice, or carried out with
\* another operation's type or record, and none is accepted while its slot or
\* all slots are in use.
AbstractQueue == INSTANCE ExactlyOnceOps
                   WITH Ops <- Op, Length <- QueueLen,
                        pending <- {OpIn(s) : s \in Waiting}, held <- {OpIn(s) : s \in InHand}

ImplementsExactlyOnce == AbstractQueue!Spec

\* The cache table does not fall behind for good: when no cache operation of an
\* agent waits in the queue, its row is at least as new as the last operation
\* accepted for it, also when a report was merged while its row was being written.
CacheNotStale ==
  \A a \in Agents :
    (\A s \in Waiting : ~(qrecord[s] = a /\ qtype[s] = "CACHE"))
      => cached[a] >= published[a]

\* While the master runs, an accepted operation is carried out whatever slot it
\* landed in and however the two threads race.
AcceptedOpExecuted ==
  \A n \in 0 .. 2 * MaxReports :
    accepted > n ~> (run # "on" \/ \E op \in executed : op.id = n)

\* The database thread never follows a NULL record pointer out of a slot.
DbThreadNeverCrashes == Alive
=============================================================================
