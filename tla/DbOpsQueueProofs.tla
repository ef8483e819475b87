-------------------------- MODULE DbOpsQueueProofs --------------------------
(***************************************************************************)
(* For every number of agents, slots and reports: the unsynchronised queue *)
(* keeps its slots apart (SlotOwnership) and implements ExactlyOnceOps.    *)
(***************************************************************************)
EXTENDS DbOpsQueue, FiniteSetTheorems, TLAPS

\* The operations the listener has still to publish for the report in hand.
Owed == IF lpc = "recv" THEN 0 ELSE IF ltype = "CACHE" /\ lcommit = "due" THEN 2 ELSE 1

\* A report publishes at most two operations, so ids stay within Op.
Budget == reports <= MaxReports /\ accepted + Owed <= 2 * reports

\* What SlotOwnership needs in order to be inductive: the type the listener
\* wrote is the one it is about to publish, and when the second `if' is
\* reached with a free slot, its type is one that `if' ignores unless the
\* listener is publishing a snapshot there.
SecondLook ==
  /\ lpc = "record" => qtype[li] = ltype
  /\ dpc = "second" /\ SlotFree(di) =>
       qtype[di] = "CACHE" \/ (lpc = "record" /\ li = di /\ ltype = "TS")

\* Operations are told apart by their tickets.
Tickets ==
  /\ \A s \in Waiting : ticket[s] < accepted
  /\ \A s, t \in Waiting : ticket[s] = ticket[t] => s = t
  /\ \A op \in executed : op.id < accepted
  /\ \A s \in Waiting, op \in executed : op.id # ticket[s]

Inv == TypeOK /\ SlotOwnership /\ SecondLook /\ Budget /\ Tickets

\* Slot 0 exists, slots are numbers, and all are below QueueLen.
LEMMA SlotsFacts == 0 \in Slots /\ Slots \subseteq Nat /\ \A s \in Slots : s < QueueLen
  BY QueueAssumption, SMT DEF Slots

\* What the two helpers that end a call leave behind.
LEMMA NextCallType ==
  ASSUME TypeOK, NextCall
  PROVE  /\ lpc' \in {"scan", "recv"} /\ li' \in 0 .. QueueLen
         /\ ltype' \in OpType /\ lcommit' \in Commit
<1>1. CASE ltype = "CACHE" /\ lcommit = "due"
  BY <1>1, QueueAssumption, SMT DEF TypeOK, NextCall, OpType, Commit
<1>2. CASE ~(ltype = "CACHE" /\ lcommit = "due")
  BY <1>2, QueueAssumption, SMT DEF TypeOK, NextCall, OpType, Commit
<1> QED
  BY <1>1, <1>2

\* The walk stays within the table (NextSlot, the loop of database_ops_queue).
LEMMA NextSlotType ==
  ASSUME TypeOK, NextSlot
  PROVE  di' \in Slots /\ dpc' \in {"check", "exited"}
  BY QueueAssumption, SMT DEF TypeOK, NextSlot, Slots

\* The invariant holds initially.
LEMMA InitInv == Init => Inv
<1> SUFFICES ASSUME Init PROVE Inv
  OBVIOUS
<1> USE QueueAssumption, SlotsFacts DEF Init
<1>1. TypeOK
  BY SMT DEF TypeOK, OpType, Commit, LPc, DPc
<1>2. SlotOwnership /\ SecondLook
  BY SMT DEF SlotOwnership, SecondLook, SlotFree
<1>3. Budget
  BY SMT DEF Budget, Owed
<1>4. Waiting = {} /\ executed = {}
  BY SMT DEF Waiting, SlotFree
<1>5. Tickets
  BY <1>4, SMT DEF Tickets
<1> QED
  BY <1>1, <1>2, <1>3, <1>5 DEF Inv

\* An operation that waits in a slot is one of Op.
LEMMA WaitingOps == Inv => \A s \in Waiting : OpIn(s) \in Op
<1> SUFFICES ASSUME Inv, NEW s \in Waiting PROVE OpIn(s) \in Op
  OBVIOUS
<1>1. s \in Slots /\ ticket[s] \in Nat /\ qrecord[s] \in Agents /\ qtype[s] \in OpType
  BY SMT DEF Inv, TypeOK, Waiting, SlotFree
<1>2. ticket[s] < accepted
  BY DEF Inv, Tickets
<1>3. ticket[s] \in 0 .. 2 * MaxReports - 1
  BY <1>1, <1>2, QueueAssumption, SMT DEF Inv, TypeOK, Budget, Owed
<1> QED
  BY <1>1, <1>3 DEF OpIn, Op

\* The three things a step can do to the operations of the queue: accept one
\* in a slot that held none, carry one out, or leave them all alone, but for
\* the one in hand, which it can clear.
Publish ==
  /\ lpc = "record"
  /\ li \in Slots \ Waiting
  /\ Waiting' = Waiting \cup {li}
  /\ ticket' = [ticket EXCEPT ![li] = accepted]
  /\ accepted' = accepted + 1
  /\ executed' = executed
  /\ qtype' = qtype
  /\ InHand' = InHand /\ li \notin InHand
  /\ \A s \in Waiting \cup InHand : qrecord'[s] = qrecord[s]

CarryOut ==
  /\ di \in Waiting
  /\ Waiting' = Waiting \ {di}
  /\ InHand = {} /\ InHand' = {di} /\ di' = di
  /\ executed' = executed \cup {OpIn(di)}
  /\ UNCHANGED <<ticket, accepted, qtype, qrecord>>

Quiet ==
  /\ Waiting' = Waiting
  /\ UNCHANGED <<ticket, accepted, executed>>
  /\ \A s \in Waiting : qtype'[s] = qtype[s] /\ qrecord'[s] = qrecord[s]
  /\ \/ InHand' = {}
     \/ InHand' = InHand /\ \A s \in InHand : qtype'[s] = qtype[s] /\ qrecord'[s] = qrecord[s]

\* The steps that neither apply a report nor accept or carry out an operation.
Silent ==
  \/ ScanSlot \/ QueueBlown \/ WriteType
  \/ DbCheck \/ DbFirst \/ DbClearCache \/ DbSecond \/ DbSnapNull \/ DbClearSnap
  \/ Quit \/ UNCHANGED vars

\* The actions that neither accept nor carry out an operation leave the queued ones alone.
LEMMA SilentIsQuiet == Inv /\ Silent => Quiet /\ UNCHANGED history
<1> SUFFICES ASSUME Inv, Silent PROVE Quiet /\ UNCHANGED history
  OBVIOUS
<1> USE QueueAssumption, SlotsFacts DEF Inv, TypeOK, SlotOwnership, SlotFree, Quiet, Waiting, InHand, history
<1>1. CASE ScanSlot
  BY <1>1, SMT DEF ScanSlot, dbVars
<1>2. CASE QueueBlown
  BY <1>2, SMT DEF QueueBlown, NextCall, dbVars
<1>3. CASE WriteType
  BY <1>3, SMT DEF WriteType, dbVars
<1>4. CASE DbCheck
  BY <1>4, SMT DEF DbCheck, NextSlot, listenerVars
<1>5. CASE DbFirst
  BY <1>5, SMT DEF DbFirst, listenerVars
<1>6. CASE DbClearCache
  BY <1>6, SMT DEF DbClearCache, ClearSlot, listenerVars
<1>7. CASE DbSecond
  BY <1>7, SMT DEF DbSecond, NextSlot, listenerVars
<1>8. CASE DbSnapNull
  BY <1>8, SMT DEF DbSnapNull, listenerVars, dbVars
<1>9. CASE DbClearSnap
  BY <1>9, SMT DEF DbClearSnap, ClearSlot, NextSlot, listenerVars
<1>10. CASE Quit
  BY <1>10, SMT DEF Quit, listenerVars, dbVars
<1>11. CASE UNCHANGED vars
  BY <1>11, SMT DEF vars, listenerVars, dbVars
<1> QED
  BY <1>1, <1>2, <1>3, <1>4, <1>5, <1>6, <1>7, <1>8, <1>9, <1>10, <1>11 DEF Silent

\* Every step accepts one operation, carries one out, or leaves the queued ones alone.
LEMMA StepCases == Inv /\ [Next]_vars => Publish \/ CarryOut \/ Quiet
<1> SUFFICES ASSUME Inv, [Next]_vars PROVE Publish \/ CarryOut \/ Quiet
  OBVIOUS
<1> USE QueueAssumption, SlotsFacts DEF Inv, TypeOK, SlotOwnership, SlotFree
<1>1. ASSUME NEW a \in Agents, FirstReport(a) PROVE Quiet
  BY <1>1, SMT DEF FirstReport, dbVars, Quiet, Waiting, InHand
<1>2. ASSUME NEW a \in Agents, NEW commit \in Commit, MergeReport(a, commit)
       PROVE Quiet
  BY <1>2, SMT DEF MergeReport, dbVars, Quiet, Waiting, InHand
<1>3. ASSUME WriteRecord PROVE Publish
  BY <1>3, SMT DEF WriteRecord, dbVars, Publish, Waiting, InHand
<1>4. ASSUME DbWriteCache PROVE CarryOut
  BY <1>4, SMT DEF DbWriteCache, Done, listenerVars, CarryOut, OpIn, Waiting, InHand
<1>5. ASSUME DbSnap PROVE CarryOut
  BY <1>5, SMT DEF DbSnap, Done, listenerVars, CarryOut, OpIn, Waiting, InHand
<1> QED
  BY <1>1, <1>2, <1>3, <1>4, <1>5, SilentIsQuiet DEF Silent, Next, Listener, Database

\* Types are preserved.
LEMMA TypeStep == Inv /\ [Next]_vars => TypeOK'
<1> SUFFICES ASSUME Inv, [Next]_vars PROVE TypeOK'
  OBVIOUS
<1> USE QueueAssumption, SlotsFacts DEF Inv, TypeOK, SlotOwnership, SlotFree, OpType, Commit, LPc, DPc
<1>1. ASSUME NEW a \in Agents, FirstReport(a) PROVE TypeOK'
  BY <1>1, SMT DEF FirstReport, dbVars
<1>2. ASSUME NEW a \in Agents, NEW commit \in Commit, MergeReport(a, commit)
       PROVE TypeOK'
  BY <1>2, SMT DEF MergeReport, dbVars
<1>3. CASE ScanSlot
  BY <1>3, SMT DEF ScanSlot, dbVars, history
<1>4. CASE QueueBlown
  BY <1>4, SMT DEF QueueBlown, NextCall, dbVars, history
<1>5. CASE WriteType
  BY <1>5, SMT DEF WriteType, dbVars, history
<1>6. CASE WriteRecord
  BY <1>6, SMT DEF WriteRecord, NextCall, dbVars
<1>7. CASE DbCheck
  BY <1>7, NextSlotType, SMT DEF DbCheck, listenerVars, history
<1>8. CASE DbFirst
  BY <1>8, SMT DEF DbFirst, listenerVars, history
<1>9. CASE DbWriteCache
  <2>1. executed' \subseteq Op
    BY <1>9, WaitingOps, SMT DEF DbWriteCache, Done, OpIn, Waiting
  <2> QED
    BY <1>9, <2>1, SMT DEF DbWriteCache, listenerVars
<1>10. CASE DbClearCache
  BY <1>10, SMT DEF DbClearCache, ClearSlot, listenerVars, history
<1>11. CASE DbSecond
  BY <1>11, NextSlotType, SMT DEF DbSecond, listenerVars, history
<1>12. CASE DbSnap
  <2>1. executed' \subseteq Op
    BY <1>12, WaitingOps, SMT DEF DbSnap, Done, OpIn, Waiting
  <2> QED
    BY <1>12, <2>1, SMT DEF DbSnap, listenerVars
<1>13. CASE DbSnapNull
  BY <1>13, SMT DEF DbSnapNull, listenerVars, dbVars, history
<1>14. CASE DbClearSnap
  BY <1>14, NextSlotType, SMT DEF DbClearSnap, ClearSlot, listenerVars, history
<1>15. CASE Quit
  BY <1>15, SMT DEF Quit, listenerVars, dbVars, history
<1>16. CASE UNCHANGED vars
  BY <1>16, SMT DEF vars, listenerVars, dbVars, history
<1> QED
  BY <1>1, <1>2, <1>3, <1>4, <1>5, <1>6, <1>7, <1>8, <1>9, <1>10, <1>11, <1>12, <1>13, <1>14, <1>15, <1>16
  DEF Next, Listener, Database

\* Slot ownership is preserved, with its strengthening.
LEMMA OwnershipStep == Inv /\ [Next]_vars => SlotOwnership' /\ SecondLook'
<1> SUFFICES ASSUME Inv, [Next]_vars PROVE SlotOwnership' /\ SecondLook'
  OBVIOUS
<1> USE QueueAssumption, SlotsFacts DEF Inv, TypeOK, SlotOwnership, SecondLook, SlotFree, OpType, Commit, LPc, DPc
<1>1. ASSUME NEW a \in Agents, FirstReport(a) PROVE SlotOwnership' /\ SecondLook'
  BY <1>1, SMT DEF FirstReport, dbVars
<1>2. ASSUME NEW a \in Agents, NEW commit \in Commit, MergeReport(a, commit)
       PROVE SlotOwnership' /\ SecondLook'
  BY <1>2, SMT DEF MergeReport, dbVars
<1>3. CASE ScanSlot
  BY <1>3, SMTT(30) DEF ScanSlot, Slots, dbVars, history
<1>4. CASE QueueBlown
  BY <1>4, SMT DEF QueueBlown, NextCall, dbVars, history
<1>5. CASE WriteType
  BY <1>5, SMT DEF WriteType, dbVars, history
<1>6. CASE WriteRecord
  BY <1>6, SMT DEF WriteRecord, NextCall, dbVars
<1>7. CASE DbCheck
  BY <1>7, SMT DEF DbCheck, NextSlot, listenerVars, history
<1>8. CASE DbFirst
  BY <1>8, SMT DEF DbFirst, listenerVars, history
<1>9. CASE DbWriteCache
  BY <1>9, SMT DEF DbWriteCache, Done, listenerVars
<1>10. CASE DbClearCache
  BY <1>10, SMT DEF DbClearCache, ClearSlot, listenerVars, history
<1>11. CASE DbSecond
  BY <1>11, SMT DEF DbSecond, NextSlot, listenerVars, history
<1>12. CASE DbSnap
  BY <1>12, SMT DEF DbSnap, Done, listenerVars
<1>13. CASE DbSnapNull
  BY <1>13, SMT DEF DbSnapNull, listenerVars, dbVars, history
<1>14. CASE DbClearSnap
  BY <1>14, SMT DEF DbClearSnap, ClearSlot, NextSlot, listenerVars, history
<1>15. CASE Quit
  BY <1>15, SMT DEF Quit, listenerVars, dbVars, history
<1>16. CASE UNCHANGED vars
  BY <1>16, SMT DEF vars, listenerVars, dbVars, history
<1> QED
  BY <1>1, <1>2, <1>3, <1>4, <1>5, <1>6, <1>7, <1>8, <1>9, <1>10, <1>11, <1>12, <1>13, <1>14, <1>15, <1>16
  DEF Next, Listener, Database

\* The count of operations is preserved.
LEMMA BudgetStep == Inv /\ [Next]_vars => Budget'
<1> SUFFICES ASSUME Inv, [Next]_vars PROVE Budget'
  OBVIOUS
<1> USE QueueAssumption, SlotsFacts DEF Inv, TypeOK, Budget, Owed, OpType, Commit, LPc
<1>1. ASSUME NEW a \in Agents, FirstReport(a) PROVE Budget'
  BY <1>1, SMT DEF FirstReport, dbVars
<1>2. ASSUME NEW a \in Agents, NEW commit \in Commit, MergeReport(a, commit)
       PROVE Budget'
  BY <1>2, SMT DEF MergeReport, dbVars
<1>3. CASE ScanSlot
  BY <1>3, SMT DEF ScanSlot, dbVars, history
<1>4. CASE QueueBlown
  BY <1>4, SMT DEF QueueBlown, NextCall, dbVars, history
<1>5. CASE WriteType
  BY <1>5, SMT DEF WriteType, dbVars, history
<1>6. CASE WriteRecord
  BY <1>6, SMT DEF WriteRecord, NextCall, dbVars
<1>7. CASE DbCheck
  BY <1>7, SMT DEF DbCheck, NextSlot, listenerVars, history
<1>8. CASE DbFirst
  BY <1>8, SMT DEF DbFirst, listenerVars, history
<1>9. CASE DbWriteCache
  BY <1>9, SMT DEF DbWriteCache, Done, listenerVars
<1>10. CASE DbClearCache
  BY <1>10, SMT DEF DbClearCache, ClearSlot, listenerVars, history
<1>11. CASE DbSecond
  BY <1>11, SMT DEF DbSecond, NextSlot, listenerVars, history
<1>12. CASE DbSnap
  BY <1>12, SMT DEF DbSnap, Done, listenerVars
<1>13. CASE DbSnapNull
  BY <1>13, SMT DEF DbSnapNull, listenerVars, dbVars, history
<1>14. CASE DbClearSnap
  BY <1>14, SMT DEF DbClearSnap, ClearSlot, NextSlot, listenerVars, history
<1>15. CASE Quit
  BY <1>15, SMT DEF Quit, listenerVars, dbVars, history
<1>16. CASE UNCHANGED vars
  BY <1>16, SMT DEF vars, listenerVars, dbVars, history
<1> QED
  BY <1>1, <1>2, <1>3, <1>4, <1>5, <1>6, <1>7, <1>8, <1>9, <1>10, <1>11, <1>12, <1>13, <1>14, <1>15, <1>16
  DEF Next, Listener, Database

\* Tickets stay unique: a published operation takes a fresh one.
LEMMA TicketsStep == Inv /\ [Next]_vars => Tickets'
<1> SUFFICES ASSUME Inv, [Next]_vars PROVE Tickets'
  OBVIOUS
<1>1. /\ accepted \in Nat /\ ticket \in [Slots -> Nat] /\ executed \subseteq Op
      /\ Waiting \subseteq Slots /\ Tickets
  BY DEF Inv, TypeOK, Waiting
<1>2. CASE Publish
  <2>1. ticket'[li] = accepted /\ \A s \in Waiting : ticket'[s] = ticket[s] /\ s # li
    BY <1>1, <1>2, SMT DEF Publish
  <2> QED
    BY <1>1, <1>2, <2>1, SMT DEF Publish, Tickets, Op
<1>3. CASE CarryOut
  <2>1. \A op \in executed' : op \in executed \/ op.id = ticket[di]
    BY <1>3, SMT DEF CarryOut, OpIn
  <2> QED
    BY <1>1, <1>3, <2>1, SMT DEF CarryOut, Tickets
<1>4. CASE Quiet
  BY <1>1, <1>4, SMT DEF Quiet, Tickets
<1> QED
  BY <1>2, <1>3, <1>4, StepCases

\* The inductive invariant holds in every reachable state.
LEMMA Invariant == Spec => []Inv
<1>1. Inv /\ [Next]_vars => Inv'
  BY TypeStep, OwnershipStep, BudgetStep, TicketsStep DEF Inv
<1> QED
  BY InitInv, <1>1, PTL DEF Spec

\* The variables keep their types, and no more than two operations are ever
\* published per report (the range of the ids in Op).
THEOREM TypeCorrect == Spec => []TypeOK
<1>1. Inv => TypeOK
  BY DEF Inv
<1> QED
  BY Invariant, <1>1, PTL

\* The listener fills only free slots and the database thread clears only the
\* slot it carried out; the only NULL it can meet is a half published snapshot.
THEOREM OwnershipCorrect == Spec => []SlotOwnership
<1>1. Inv => SlotOwnership
  BY DEF Inv
<1> QED
  BY Invariant, <1>1, PTL

-----------------------------------------------------------------------------
(* The queue implements ExactlyOnceOps. *)

Pending == {OpIn(s) : s \in Waiting}
Held == {OpIn(s) : s \in InHand}

\* A slot that neither waits nor is in hand is a place left: two operations in use are
\* in two slots, of which there are QueueLen.
LEMMA PlaceLeft ==
  ASSUME Inv, NEW f \in Slots, f \notin Waiting \cup InHand
  PROVE  Cardinality(Pending \cup Held) < QueueLen
<1> DEFINE Taken == Waiting \cup InHand
           Places == {OpIn(s) : s \in Taken}
<1>1. IsFiniteSet(Slots) /\ Cardinality(Slots) = QueueLen
  <2>1. 0 \in Int /\ QueueLen - 1 \in Int /\ QueueLen \in Nat /\ QueueLen > 0
    BY QueueAssumption
  <2>2. IsFiniteSet(0 .. QueueLen - 1) /\ Cardinality(0 .. QueueLen - 1) = ((QueueLen - 1) - 0) + 1
    BY <2>1, FS_Interval
  <2> QED
    BY <2>1, <2>2 DEF Slots
<1>2. Taken \subseteq Slots \ {f}
  BY DEF Waiting, InHand, Inv, TypeOK
<1>3. IsFiniteSet(Slots \ {f}) /\ Cardinality(Slots \ {f}) = QueueLen - 1
  BY <1>1, FS_RemoveElement
<1>4. IsFiniteSet(Taken) /\ Cardinality(Taken) <= QueueLen - 1
  BY <1>2, <1>3, FS_Subset
<1>5. IsFiniteSet(Places) /\ Cardinality(Places) <= Cardinality(Taken)
  <2> DEFINE g == [s \in Taken |-> OpIn(s)]
  <2>1. g \in Surjection(Taken, Places)
    BY DEF Surjection
  <2> QED
    BY <1>4, <2>1, FS_Surjection
<1>6. Pending \cup Held = Places
  BY DEF Pending, Held
<1>7. Cardinality(Places) \in Nat /\ Cardinality(Taken) \in Nat /\ QueueLen \in Nat
  BY <1>4, <1>5, FS_CardinalityType, QueueAssumption
<1> QED
  BY <1>4, <1>5, <1>6, <1>7

\* Cardinality there and here.
LEMMA SameCardinality == \A S : AbstractQueue!Cardinality(S) = Cardinality(S)
  BY DEF AbstractQueue!Cardinality, Cardinality

\* Every step of the two threads is a step of ExactlyOnceOps or changes nothing there.
LEMMA StepRefines == Inv /\ Inv' /\ [Next]_vars => [AbstractQueue!Next]_(AbstractQueue!vars)
<1> SUFFICES ASSUME Inv, Inv', [Next]_vars
             PROVE  AbstractQueue!Next \/ UNCHANGED AbstractQueue!vars
  BY DEF AbstractQueue!vars
<1>1. CASE Publish
  <2> DEFINE op == [id |-> ticket'[li], agent |-> qrecord'[li], type |-> qtype'[li]]
  <2>1. Waiting \subseteq Slots /\ li \in Waiting' /\ ticket'[li] = accepted
    BY <1>1, SMT DEF Publish, Inv, TypeOK, Waiting
  <2>2. op \in Op
    <3>1. (Inv => \A s \in Waiting : OpIn(s) \in Op)'
      BY WaitingOps, PTL
    <3> QED
      BY <2>1, <3>1 DEF OpIn
  <2>3. \A s \in Waiting : [id |-> ticket'[s], agent |-> qrecord'[s], type |-> qtype'[s]] = OpIn(s)
    <3> SUFFICES ASSUME NEW s \in Waiting
                 PROVE  ticket'[s] = ticket[s] /\ qrecord'[s] = qrecord[s] /\ qtype'[s] = qtype[s]
      BY DEF OpIn
    <3> QED
      BY <1>1, <2>1, SMT DEF Publish, Inv, TypeOK
  <2>4. Pending' = Pending \cup {op}
    BY <1>1, <2>3 DEF Publish, Pending, OpIn
  <2>5. op \notin Pending \cup executed
    <3>1. accepted \in Nat /\ Tickets
      BY DEF Inv, TypeOK
    <3>2. \A p \in Pending : p.id < accepted
      BY <3>1, SMT DEF Pending, OpIn, Tickets
    <3>3. \A p \in executed : p.id < accepted
      BY <3>1 DEF Tickets
    <3>4. op.id = accepted /\ ~(accepted < accepted)
      BY <2>1, <3>1, SMT
    <3> QED
      BY <3>2, <3>3, <3>4
  <2>6. Cardinality(Pending \cup Held) < QueueLen
    BY <1>1, PlaceLeft DEF Publish
  <2>7. Held' = Held
    <3> SUFFICES ASSUME NEW s \in InHand
                 PROVE  ticket'[s] = ticket[s] /\ qrecord'[s] = qrecord[s] /\ qtype'[s] = qtype[s]
      BY <1>1 DEF Publish, Held, OpIn
    <3>1. s \in Slots /\ s # li
      BY <1>1 DEF Publish, InHand, Inv, TypeOK
    <3> QED
      BY <1>1, <3>1 DEF Publish, Inv, TypeOK
  <2>8. AbstractQueue!Accept(op)
    <3> HIDE DEF op
    <3> QED
      BY <1>1, <2>4, <2>5, <2>6, <2>7, SameCardinality DEF AbstractQueue!Accept, Publish, Pending, Held
  <2> QED
    BY <2>2, <2>8 DEF AbstractQueue!Next
<1>2. CASE CarryOut
  <2>1. OpIn(di) \in Pending /\ OpIn(di) \in Op
    BY <1>2, WaitingOps DEF CarryOut, Pending
  <2>2. Pending' = {OpIn(s) : s \in Waiting \ {di}}
    BY <1>2 DEF CarryOut, Pending, OpIn
  <2>3. \A s \in Waiting \ {di} : OpIn(s) # OpIn(di)
    BY <1>2, SMT DEF CarryOut, Inv, Tickets, OpIn
  <2>4. Pending' = Pending \ {OpIn(di)}
    BY <1>2, <2>2, <2>3 DEF CarryOut, Pending
  <2>5. Held = {} /\ Held' = {OpIn(di)}
    BY <1>2 DEF CarryOut, Held, OpIn
  <2> QED
    BY <1>2, <2>1, <2>4, <2>5 DEF AbstractQueue!Next, AbstractQueue!Execute, CarryOut, Pending, Held
<1>3. CASE Quiet
  <2>1. Pending' = Pending
    BY <1>3 DEF Quiet, Pending, OpIn
  <2>2. Held' = Held \/ Held' = {}
    BY <1>3 DEF Quiet, Held, OpIn
  <2> QED
    BY <1>3, <2>1, <2>2 DEF Quiet, Pending, Held, AbstractQueue!vars, AbstractQueue!Next, AbstractQueue!Release
<1> QED
  BY <1>1, <1>2, <1>3, StepCases

\* The two unsynchronised threads carry out every accepted operation at most
\* once, unchanged, and nothing else: the queue implements ExactlyOnceOps.
THEOREM ImplementsExactlyOnceOps == Spec => ImplementsExactlyOnce
<1>1. Init => AbstractQueue!Init
  BY SMT DEF Init, AbstractQueue!Init, Waiting, InHand, SlotFree
<1> QED
  BY <1>1, StepRefines, Invariant, PTL
  DEF Spec, ImplementsExactlyOnce, AbstractQueue!Spec

-----------------------------------------------------------------------------
(* The cache table catches up. *)

\* No row is newer than the record, and CacheNotStale.
CacheInv == CacheNotStale /\ \A a \in Agents : published[a] <= version[a]

\* No step leaves a row behind the last operation accepted for it, unless one waits.
LEMMA CacheStep == Inv /\ CacheInv /\ [Next]_vars => CacheInv'
<1> SUFFICES ASSUME Inv, CacheInv, [Next]_vars PROVE CacheInv'
  OBVIOUS
<1> USE QueueAssumption, SlotsFacts DEF Inv, TypeOK, SlotOwnership, SlotFree, CacheInv, CacheNotStale
<1>1. ASSUME NEW a \in Agents, FirstReport(a) PROVE CacheInv'
  BY <1>1, SMT DEF FirstReport, dbVars, Waiting
<1>2. ASSUME NEW a \in Agents, NEW commit \in Commit, MergeReport(a, commit)
       PROVE CacheInv'
  BY <1>2, SMT DEF MergeReport, dbVars, Waiting
<1>3. CASE WriteRecord
  <2>1. li \in Waiting' /\ qrecord'[li] = lagent /\ qtype'[li] = ltype
    BY <1>3, SMT DEF WriteRecord, dbVars, Waiting, SecondLook
  <2>2. \A s \in Waiting : s \in Waiting' /\ qrecord'[s] = qrecord[s] /\ qtype'[s] = qtype[s]
    BY <1>3, SMT DEF WriteRecord, dbVars, Waiting
  <2>3. CASE ltype = "CACHE"
    <3>1. \A a \in Agents : published'[a] = IF a = lagent THEN version[lagent] ELSE published[a]
      BY <1>3, <2>3, SMT DEF WriteRecord
    <3>2. version' = version /\ cached' = cached
      BY <1>3 DEF WriteRecord
    <3>3. lagent \in Agents /\ version \in [Agents -> Nat] /\ published \in [Agents -> Nat]
      BY <1>3 DEF WriteRecord
    <3>4. \A a \in Agents : published'[a] <= version'[a]
      BY <3>1, <3>2, <3>3, SMT
    <3>5. ASSUME NEW a \in Agents, \A s \in Waiting' : ~(qrecord'[s] = a /\ qtype'[s] = "CACHE")
          PROVE  cached'[a] >= published'[a]
      <4>1. a # lagent
        BY <2>1, <2>3, <3>5
      <4>2. \A s \in Waiting : ~(qrecord[s] = a /\ qtype[s] = "CACHE")
        BY <2>2, <3>5
      <4> QED
        BY <4>1, <4>2, <3>1, <3>2
    <3> QED
      BY <3>4, <3>5
  <2>4. CASE ltype # "CACHE"
    BY <1>3, <2>2, <2>4, SMT DEF WriteRecord
  <2> QED
    BY <2>3, <2>4
<1>4. CASE DbWriteCache
  <2>1. Waiting' = Waiting \ {di} /\ qrecord[di] \in Agents
    BY <1>4, SMT DEF DbWriteCache, listenerVars, Waiting
  <2> QED
    BY <1>4, <2>1, SMT DEF DbWriteCache, listenerVars
<1>5. CASE DbSnap
  <2>1. Waiting' = Waiting \ {di} /\ qtype[di] # "CACHE"
    BY <1>5, SMT DEF DbSnap, listenerVars, Waiting
  <2> QED
    BY <1>5, <2>1, SMT DEF DbSnap, listenerVars
<1>6. CASE Silent
  <2>1. Quiet /\ UNCHANGED <<version, published, cached>>
    BY <1>6, SilentIsQuiet DEF history
  <2> QED
    BY <2>1, SMT DEF Quiet
<1> QED
  BY <1>1, <1>2, <1>3, <1>4, <1>5, <1>6 DEF Silent, Next, Listener, Database

\* A row of the cache table is never left behind the last operation accepted for
\* its agent once none waits, however the two threads interleave.
THEOREM CacheCorrect == Spec => []CacheNotStale
<1>1. Init => CacheInv
  BY SMT DEF Init, CacheInv, CacheNotStale
<1>2. CacheInv => CacheNotStale
  BY DEF CacheInv
<1> QED
  BY Invariant, <1>1, <1>2, CacheStep, PTL DEF Spec
=============================================================================
