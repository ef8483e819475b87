---- MODULE MCAgentProcess ----
(* Small instances of AgentProcess. *)
EXTENDS AgentProcess

Names == [iface |-> {"eth1", "eth10"}, iodev |-> {"sda", "sdb"}]
NamesInNames == {<<"eth1", "eth10">>}

Bounds(starts, devs, procs, mnts, dsk) ==
  [k \in Change |-> CASE k = "runs" -> starts [] k = "devices" -> devs [] k = "cpus" -> procs
                      [] k = "mounts" -> mnts [] k = "disk" -> dsk]

Host(named, user, mtab, cpus, left0) ==
  [named |-> named, user |-> user, mtab |-> mtab, cpus |-> cpus, left |-> left0]

Mount(dev, mnt) == [dev |-> dev, mnt |-> mnt]
Root == Mount("root", "/")
Home == Mount("home", "/home")

\* Devices that come and go; cpus; mounts of the same devices again; a disk that
\* fails over several starts; and what the configuration can lack.
Hosts == {Host(TRUE, TRUE, <<Root>>, {0}, Bounds(1, 3, 0, 0, 0)),
          Host(TRUE, TRUE, <<Root>>, {0, 2}, Bounds(1, 0, 3, 0, 0)),
          Host(TRUE, TRUE, <<Root, Home, Mount("root", "/a"), Mount("home", "/b"),
                        Mount("home", "/c")>>, {0},
               Bounds(2, 0, 0, 2, 0)),
          Host(TRUE, TRUE, <<>>, {0}, Bounds(4, 0, 0, 0, 2)),
          Host(FALSE, TRUE, <<>>, {0}, Bounds(2, 0, 0, 0, 1)),
          Host(TRUE, FALSE, <<>>, {0}, Bounds(2, 0, 0, 0, 2))}
====
