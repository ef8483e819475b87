----------------------------- MODULE AgentReport -----------------------------
(***************************************************************************)
(* The polling loop of an agent (agent/at_agent.c): where its multipliers  *)
(* come from, which sections a poll puts in its report, and which devices  *)
(* in the sections that are arrays.                                        *)
(* Values are left out: a report is known by the number of its poll, which *)
(* stands for its time stamp.                                              *)
(***************************************************************************)
EXTENDS Integers, Sequences, Lists

CONSTANTS
  Agents,
  Defaults,     \* the multipliers that have a default: switch -> DEFAULT_*_MULT
  Files,        \* agent -> configuration files: the poll_mult lines, switch -> number
  Garbage,      \* what an int on main's stack can hold before it is set
  DevList,      \* agent -> array section -> devices of its host, in the order of its list
  MaxPolls      \* bound: agent -> polls

Switch == {"cpu", "iodev", "iface", "mem", "sysload", "uptime", "fs",
           "cpus_static", "metadata"}

\* The keys of the JSON document and the switch that puts them there.
SwitchOf == [cpus |-> "cpu", cpu_ttls |-> "cpu", iodev |-> "iodev", iface |-> "iface",
             memory |-> "mem", sysload |-> "sysload", misc |-> "uptime", fs |-> "fs",
             cpus_static |-> "cpus_static", meta |-> "metadata"]
Section == DOMAIN SwitchOf

\* The sections that are arrays with counters, one object per device.
DevSection == {"cpus", "iodev", "iface"}

DevsOf(a, s) == {DevList[a][s][i] : i \in DOMAIN DevList[a][s]}

ASSUME AgentAssumption ==
  /\ DOMAIN Defaults \subseteq Switch /\ \A w \in DOMAIN Defaults : Defaults[w] \in Nat \ {0}
  /\ \A a \in Agents : \A f \in Files[a] : DOMAIN f \subseteq Switch /\ \A w \in DOMAIN f : f[w] \in Nat
  /\ Garbage \subseteq Nat
  /\ \A a \in Agents : /\ DOMAIN DevList[a] = DevSection
                        /\ \A s \in DevSection : DevList[a][s] \in Seq(DevsOf(a, s))
  /\ MaxPolls \in [Agents -> Nat]

VARIABLES
  file,         \* agent -> its configuration file
  mult,         \* agent -> switch -> multiplier, in the agent's configuration
  daemon,       \* agent -> "up", or "fault": stopped by a division by zero
  pollcount,    \* agent -> the main loop's counter
  since,        \* agent -> section -> device whose counters have moved -> polls before it
  polls,        \* agent -> polls so far, over all its runs (history)
  run           \* agent -> polls so far in this run (history)

config == <<file, mult>>
agentVars == <<config, daemon, pollcount, since, polls, run>>

AgentTypeOK ==
  /\ \A a \in Agents : file[a] \in Files[a]
  /\ mult \in [Agents -> [Switch -> Nat]]
  /\ daemon \in [Agents -> {"up", "fault"}]
  /\ pollcount \in [Agents -> Nat]
  /\ \A a \in Agents : DOMAIN since[a] = DevSection
  /\ \A a \in Agents, s \in DevSection : DOMAIN since[a][s] \subseteq DevsOf(a, s)
  /\ \A a \in Agents : polls[a] \in 0 .. MaxPolls[a] /\ run[a] \in 0 .. polls[a]

\* The switches whose multiplier the code or the file sets.
SetBy(f) == DOMAIN f \cup DOMAIN Defaults

\* Mutated form of Configured: the file is read before the defaults are set.
Configured_DefaultsLast(f) ==
  {[w \in Switch |-> IF w \in DOMAIN Defaults THEN Defaults[w]
                     ELSE IF w \in DOMAIN f THEN f[w] ELSE g[w]] :
     g \in [Switch \ SetBy(f) -> Garbage]}

\* Mutated form of Configured: no default is set.
Configured_NoDefaults(f) ==
  {[w \in Switch |-> IF w \in DOMAIN f THEN f[w] ELSE g[w]] :
     g \in [Switch \ DOMAIN f -> Garbage]}

\* set_cfg_defaults, then config_handler for each line of the file: what neither
\* sets is not cleared, so it is whatever main's stack holds there.
Configured(f) ==
  {[w \in Switch |-> IF w \in DOMAIN f THEN f[w]
                     ELSE IF w \in DOMAIN Defaults THEN Defaults[w] ELSE g[w]] :
     g \in [Switch \ SetBy(f) -> Garbage]}

\* Processors are always reported; a device only once it has been used.
AgentInit ==
  /\ file \in {f \in [Agents -> UNION {Files[a] : a \in Agents}] : \A a \in Agents : f[a] \in Files[a]}
  /\ mult \in {m \in [Agents -> UNION {Configured(file[a]) : a \in Agents}] :
                \A a \in Agents : m[a] \in Configured(file[a])}
  /\ daemon = [a \in Agents |-> "up"]
  /\ pollcount = [a \in Agents |-> 0]
  /\ since = [a \in Agents |->
                [s \in DevSection |-> [d \in IF s = "cpus" THEN DevsOf(a, s) ELSE {} |-> 0]]]
  /\ polls = [a \in Agents |-> 0] /\ run = [a \in Agents |-> 0]

\* get_poll_bits, for multipliers that are not 0.
PollBits(count, m) == {w \in Switch : count % m[w] = 0}

\* count % 0 raises SIGFPE.
PollFaults(m) == \E w \in Switch : m[w] = 0

\* The devices of a section, in the order of the list, that are among used.
DevsIn(a, s, used) ==
  Selected(DevList[a][s], {i \in DOMAIN DevList[a][s] : DevList[a][s][i] \in used})

\* jsonify: the sections that were polled, in them the devices that are not inactive.
Jsonify(a, bits) ==
  [poll |-> polls[a] + 1,
   sections |-> {s \in Section : SwitchOf[s] \in bits},
   devs |-> [s \in DevSection |-> DevsIn(a, s, DOMAIN since[a][s])]]

\* Mutated form of NextCount: the counter goes up once per turn.
NextCount_Once(count) == count + 1

\* The counter goes up twice per turn: in the head of the loop and at its end.
NextCount(count) == count + 2

\* One turn of the loop, up to its report.
Poll(a) ==
  /\ daemon[a] = "up" /\ ~PollFaults(mult[a])
  /\ polls[a] < MaxPolls[a]
  /\ polls' = [polls EXCEPT ![a] = @ + 1]
  /\ run' = [run EXCEPT ![a] = @ + 1]
  /\ pollcount' = [pollcount EXCEPT ![a] = NextCount(@)]
  /\ UNCHANGED <<config, daemon, since>>

\* A turn of the loop that ends the agent.
PollFault(a) ==
  /\ daemon[a] = "up" /\ PollFaults(mult[a])
  /\ daemon' = [daemon EXCEPT ![a] = "fault"]
  /\ UNCHANGED <<config, pollcount, since, polls, run>>

NextReport(a) == Jsonify(a, PollBits(pollcount[a], mult[a]))

\* A device that was idle since the host booted is used for the first time.
Activate(a, s, d) ==
  /\ d \in DevsOf(a, s) \ DOMAIN since[a][s]
  /\ since' = [since EXCEPT ![a][s] = [e \in DOMAIN @ \cup {d} |->
                                        IF e = d THEN polls[a] ELSE @[e]]]
  /\ UNCHANGED <<config, daemon, pollcount, polls, run>>

\* The agent is stopped and started; the host's counters go on.
RestartAgent(a) ==
  /\ run[a] > 0 \/ daemon[a] = "fault"
  /\ mult' \in {[mult EXCEPT ![a] = m] : m \in Configured(file[a])}
  /\ daemon' = [daemon EXCEPT ![a] = "up"]
  /\ pollcount' = [pollcount EXCEPT ![a] = 0]
  /\ run' = [run EXCEPT ![a] = 0]
  /\ UNCHANGED <<file, since, polls>>
=============================================================================
