--------------------------- MODULE ExactlyOnceOps ---------------------------
(***************************************************************************)
(* What the master's database operations queue promises its callers: an    *)
(* operation that was accepted is carried out at most once, with the type  *)
(* and for the agent it was accepted with, and nothing else is carried     *)
(* out.  It has a place from its acceptance on until it was carried out    *)
(* and let go, and there are Length places.  No slots, no threads and no   *)
(* order: those belong to DbOpsQueue.                                      *)
(***************************************************************************)
EXTENDS Naturals, FiniteSets

CONSTANTS Ops,          \* every operation that can be accepted
          Length        \* places

VARIABLES pending,      \* accepted, not carried out yet
          held,         \* carried out, still in its place
          executed      \* carried out

vars == <<pending, held, executed>>

Init == pending = {} /\ held = {} /\ executed = {}

Accept(op) ==
  /\ op \notin pending \cup executed
  /\ Cardinality(pending \cup held) < Length
  /\ pending' = pending \cup {op}
  /\ UNCHANGED <<held, executed>>

\* One operation is carried out at a time.
Execute(op) ==
  /\ op \in pending /\ held = {}
  /\ pending' = pending \ {op}
  /\ held' = {op}
  /\ executed' = executed \cup {op}

Release ==
  /\ held # {} /\ held' = {}
  /\ UNCHANGED <<pending, executed>>

Next == Release \/ \E op \in Ops : Accept(op) \/ Execute(op)

Spec == Init /\ [][Next]_vars
=============================================================================
