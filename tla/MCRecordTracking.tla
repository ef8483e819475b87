---- MODULE MCRecordTracking ----
(* Small instances of RecordTracking. *)
EXTENDS RecordTracking

CONSTANTS a1, a2

CodeDefaults == [cpu |-> 1, iface |-> 1, iodev |-> 1, fs |-> 20, metadata |-> 60]

\* The poll_mult lines of a file that sets everything.
Schedule(rate, fs, meta) ==
  [iodev |-> rate, fs |-> fs, metadata |-> meta, mem |-> 1, sysload |-> 1,
   uptime |-> 1, cpus_static |-> 1]

EvenRates == Schedule(2, 3, 4)   \* each rate section in every report
RareRates == Schedule(3, 1, 1)   \* one of them in every third
NoMemory  == [w \in {"sysload", "uptime", "cpus_static"} |-> 1]

AllFiles == [a \in {a1, a2} |-> IF a = a1 THEN {EvenRates, RareRates, NoMemory} ELSE {EvenRates}]
OneFile  == [a \in {a1} |-> {RareRates}]

\* The first agent polls on, the second comes once.
Polls == [a \in {a1, a2} |-> IF a = a1 THEN 4 ELSE 1]
Polls1 == [a \in {a1} |-> 3]

NoCard   == [s \in DevSection |-> <<>>]
TwoCards == [NoCard EXCEPT !.iface = <<"eth0", "eth1">>]
Hosts    == [a \in {a1, a2} |-> IF a = a1 THEN TwoCards ELSE NoCard]
====
