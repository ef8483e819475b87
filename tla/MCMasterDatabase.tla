---- MODULE MCMasterDatabase ----
(* Small instances of MasterDatabase. *)
EXTENDS MasterDatabase

CONSTANTS a1, a2

Scenario(hosts, outages, runs) == [hosts |-> hosts, outages |-> outages, runs |-> runs]

\* Two agents and an outage; one agent, an outage and a restart.
Wide == {Scenario({a1, a2}, 1, 1), Scenario({a1}, 1, 2)}

\* For liveness: two agents, or one agent and an outage.
Narrow == {Scenario({a1, a2}, 0, 1), Scenario({a1}, 1, 1)}

OneOutage == {Scenario({a1}, 1, 1)}
====
