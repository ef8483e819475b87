---- MODULE MCQueryProtocol ----
(* Small instances of QueryProtocol. *)
EXTENDS QueryProtocol

CONSTANTS c1, c2, h1, h2, bad

Asked(view, ids) == [view |-> view, ids |-> ids]
Stats == Asked("stats", <<>>)
Dump  == Asked("dump", <<>>)
Short == Asked("query", <<h1, bad>>)          \* a malformed uuid after a good one
Torn  == Asked("query", <<h2, h1, bad>>)      \* the answer is longer than one recv
Long  == Asked("query", <<h1, h2, h1, h2>>)   \* the query is longer than the buffer

AllRequests == {Stats, Dump, Short, Torn, Long}

Scenario(how, r1, r2) ==
  [net |-> how, request |-> [c \in Clients |-> IF c = c1 THEN r1 ELSE r2]]

Mixed == {Scenario("whole", Dump, Short), Scenario("whole", Long, Stats),
          Scenario("whole", Torn, Short), Scenario("any", Dump, Stats)}
====
