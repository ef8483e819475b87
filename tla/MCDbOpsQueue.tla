---- MODULE MCDbOpsQueue ----
(* Small instances of DbOpsQueue: two agents, two slots. *)
EXTENDS DbOpsQueue
====
