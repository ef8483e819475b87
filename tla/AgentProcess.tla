----------------------------- MODULE AgentProcess -----------------------------
(***************************************************************************)
(* An agent's process (main of agent/at_agent.c): its start, its identity  *)
(* on disk, the device lists it takes once from the host and polls in each *)
(* turn (cpuops.c, ifaceops.c, iodevops.c, fsops.c), its signals and ends. *)
(* A device's counters are known by the lines they can be read from.       *)
(* Every turn polls them all; which turns do is the matter of AgentReport. *)
(***************************************************************************)
EXTENDS Integers, Sequences, FiniteSets, SequencesExt, FiniteSetsExt, Lists

CONSTANTS
  Cpus,
  Devices,      \* "iface", "iodev" -> names of devices
  Holds,        \* pairs of names, the first a proper part of the second
  Setups        \* host and bounds: [named, user, mtab, cpus, left], see the assumption

DevKind == {"iface", "iodev"}
Change == {"runs", "devices", "cpus", "mounts", "disk"}
Null == "null"
Nil == 0        \* the uuid of sixteen zeros
NoFile == -2
Empty == -1

ASSUME ProcessAssumption ==
  /\ Cpus \subseteq Nat
  /\ DOMAIN Devices = DevKind /\ \A k \in DevKind : IsFiniteSet(Devices[k])
  /\ \A s \in Setups :
       /\ s.named \in BOOLEAN         \* location, contact and group are configured
       /\ s.user \in BOOLEAN          \* runuser is a user of the host
       /\ s.mtab \in Seq([dev : STRING \ {Null}, mnt : STRING])
       /\ s.cpus \subseteq Cpus /\ IsFiniteSet(s.cpus)
       /\ s.left \in [Change -> Nat]  \* starts of the agent, and changes of the host

VARIABLES
  setup,
  lines,        \* kind -> names in /proc/net/dev or /proc/diskstats, in order
  online,       \* the cpus of /proc/cpuinfo and /proc/stat
  failing,      \* mount points for which statfs fails
  disk,         \* where the identity is kept: "ok", "full" or "readonly"
  idfile,       \* AGENT_HOSTUUID_FILE: the uuid in it, Empty or NoFile
  pc,           \* "down", "id", "write", "net", "loop", "sleep", "exited", or "dead"
  nodes,        \* kind -> the list of devices
  seen,         \* kind -> names that earlier polls of this run have read
  uuid,         \* hostuuid
  on, init_flag,
  left,         \* what is left of the setup's bounds
  made,         \* uuids generated so far (history)
  ids,          \* the uuids that reports have carried (history)
  trouble       \* what happened: "hup", "cpus", "mount" in this run, "disk" ever (history)

hostVars == <<lines, online, failing, disk>>
flags == <<on, init_flag>>
vars == <<setup, hostVars, idfile, pc, nodes, seen, uuid, flags, left, made, ids, trouble>>

ListKind == DevKind \cup {"cpu", "fs"}
Uuid == 0 .. made
Running == pc \in {"loop", "sleep"}

TypeOK ==
  /\ setup \in Setups
  /\ \A k \in DevKind : /\ ToSet(lines[k]) \subseteq Devices[k] /\ IsInjective(lines[k])
                        /\ seen[k] \subseteq Devices[k]
  /\ online \subseteq Cpus
  /\ disk \in {"ok", "full", "readonly"}
  /\ idfile \in {NoFile, Empty} \cup Uuid
  /\ pc \in {"down", "id", "write", "net", "loop", "sleep", "exited", "dead"}
  /\ \A k \in DevKind : \A i \in DOMAIN nodes[k] :
       nodes[k][i].dev \in Devices[k] /\ nodes[k][i].of \subseteq Devices[k]
  /\ \A i \in DOMAIN nodes.cpu : nodes.cpu[i].dev \in Cpus /\ nodes.cpu[i].of \subseteq Cpus
  /\ uuid \in Uuid /\ ids \subseteq Uuid
  /\ on \in BOOLEAN /\ init_flag \in BOOLEAN
  /\ left \in [Change -> Nat]
  /\ trouble \subseteq {"hup", "cpus", "mount", "disk"}

NoLists == [k \in ListKind |-> <<>>]

Init ==
  /\ setup \in Setups
  /\ lines = [k \in DevKind |-> SetToSeq(Devices[k])]
  /\ online = setup.cpus /\ failing = {} /\ disk = "ok" /\ idfile = NoFile
  /\ pc = "down" /\ nodes = NoLists /\ seen = [k \in DevKind |-> {}]
  /\ uuid = Nil /\ on = TRUE /\ init_flag = FALSE
  /\ left = setup.left
  /\ made = 0 /\ ids = {} /\ trouble = {}

-----------------------------------------------------------------------------
(* The host. *)

\* A change of the host of one kind, of which there are only so many.
HostChange(kind) ==
  /\ left[kind] > 0
  /\ left' = [left EXCEPT ![kind] = @ - 1]
  /\ UNCHANGED <<setup, idfile, pc, nodes, seen, uuid, flags, made, ids>>

Unplug(k, d) ==
  /\ HostChange("devices") /\ d \in ToSet(lines[k])
  /\ lines' = [lines EXCEPT ![k] = Selected(@, {i \in DOMAIN lines[k] : lines[k][i] # d})]
  /\ UNCHANGED <<online, failing, disk, trouble>>

\* A device that comes back comes after the others.
Plug(k, d) ==
  /\ HostChange("devices") /\ d \notin ToSet(lines[k])
  /\ lines' = [lines EXCEPT ![k] = Append(@, d)]
  /\ UNCHANGED <<online, failing, disk, trouble>>

CpuOff(c) ==
  /\ HostChange("cpus") /\ Cardinality(online) > 1
  /\ c \in online /\ online' = online \ {c}
  /\ trouble' = trouble \cup {"cpus"}
  /\ UNCHANGED <<lines, failing, disk>>

CpuOn(c) ==
  /\ HostChange("cpus") /\ c \notin online /\ online' = online \cup {c}
  /\ UNCHANGED <<lines, failing, disk, trouble>>

MountFails(mnt) ==
  /\ HostChange("mounts") /\ failing' = failing \cup {mnt}
  /\ UNCHANGED <<lines, online, disk, trouble>>

DiskTurns(how) ==
  /\ HostChange("disk") /\ disk' = how
  /\ UNCHANGED <<lines, online, failing, trouble>>

-----------------------------------------------------------------------------
(* The lists: init_hostdata. *)

Node(d) == [dev |-> d, of |-> {}, fresh |-> FALSE]

\* push_cpu, push_iface, push_iodev: no second node for a name, unless it is the last.
InitList(names) ==
  LET N == 1 .. Len(names)
      at == Linked(Len(names), {p \in N \X N : names[p[1]] = names[p[2]]})
  IN [i \in DOMAIN at |-> Node(names[at[i]])]

\* The c with i - 1 others below it comes as the i-th.
Ascending(S) ==
  [i \in 1 .. Cardinality(S) |-> CHOOSE c \in S : Cardinality({d \in S : d < c}) = i - 1]

MtabPairs == (1 .. Len(setup.mtab)) \X (1 .. Len(setup.mtab))

\* Mutated form of Stops: the mount points are compared.
Stops_Mounts == {p \in MtabPairs : setup.mtab[p[1]].mnt = setup.mtab[p[2]].mnt}

\* Lines of mtab, the first with a node at which push_fs stops for the second: the same
\* device, or a node that is linked before statfs is asked, and stays without a device
\* to compare with when that fails.
Stops ==
  {p \in MtabPairs : \/ setup.mtab[p[1]].mnt \in failing
                     \/ setup.mtab[p[1]].dev = setup.mtab[p[2]].dev}

InitFs ==
  LET at == Linked(Len(setup.mtab), Stops) IN
  [i \in DOMAIN at |-> [dev |-> IF setup.mtab[at[i]].mnt \in failing THEN Null
                                ELSE setup.mtab[at[i]].dev]]

\* strcmp with a node that has no device, at the n-th line of mtab.
PushFaults(n) ==
  LET list == Linked(n - 1, Stops)
      at == {i \in 1 .. Len(list) - 1 : <<list[i], n>> \in Stops}
  IN at # {} /\ setup.mtab[list[Min(at)]].mnt \in failing

HungMount == \E i \in DOMAIN setup.mtab : setup.mtab[i].mnt \in failing

\* main up to profile_uuid.  The process is new: only the identity on disk is old.
Start ==
  /\ pc \in {"down", "exited", "dead"} /\ left.runs > 0
  /\ left' = [left EXCEPT !.runs = @ - 1]
  /\ nodes' = [cpu |-> InitList(Ascending(online)), fs |-> InitFs,
               iface |-> InitList(lines.iface), iodev |-> InitList(lines.iodev)]
  /\ pc' = IF \E n \in DOMAIN setup.mtab : PushFaults(n) THEN "dead" ELSE "id"
  /\ uuid' = Nil /\ on' = TRUE /\ init_flag' = FALSE
  /\ seen' = [k \in DevKind |-> {}]
  /\ trouble' = (trouble \cap {"disk"}) \cup (IF HungMount THEN {"mount"} ELSE {})
  /\ UNCHANGED <<setup, hostVars, idfile, made, ids>>

-----------------------------------------------------------------------------
(* The identity: profile_uuid. *)

restOfId == <<setup, hostVars, nodes, seen, flags, left, ids>>

\* Mutated form of HasId: an identity on disk is not used again.
HasId_Never == FALSE

\* Mutated form of HasId: the result of uuid_parse is not looked at.
HasId_Unparsed == idfile # NoFile

HasId == idfile \notin {NoFile, Empty}

\* At its end the files are given to the user, who has to be there.
ReadId ==
  /\ pc = "id" /\ HasId
  /\ uuid' = idfile
  /\ pc' = IF setup.user THEN "net" ELSE "dead"
  /\ UNCHANGED <<restOfId, idfile, made, trouble>>

\* A file without a uuid is removed and profile_uuid called again, without end when
\* it cannot be removed.
DropId ==
  /\ pc = "id" /\ ~HasId /\ idfile # NoFile
  /\ IF disk = "readonly" THEN /\ pc' = "dead" /\ trouble' = trouble \cup {"disk"}
                               /\ UNCHANGED idfile
                          ELSE idfile' = NoFile /\ UNCHANGED <<pc, trouble>>
  /\ UNCHANGED <<restOfId, uuid, made>>

\* The file is created, empty; the user is asked before that.
CreateId ==
  /\ pc = "id" /\ idfile = NoFile /\ disk # "readonly"
  /\ IF setup.user THEN pc' = "write" /\ idfile' = Empty
                   ELSE pc' = "dead" /\ UNCHANGED idfile
  /\ UNCHANGED <<restOfId, uuid, made, trouble>>

\* Neither directory nor file can be made: "can't get host ID, exiting".  main does
\* not look at the result and goes on without one.
NoId ==
  /\ pc = "id" /\ idfile = NoFile /\ disk = "readonly"
  /\ pc' \in IF setup.user THEN {"net"} ELSE {"net", "dead"}
  /\ trouble' = trouble \cup {"disk"}
  /\ UNCHANGED <<restOfId, uuid, idfile, made>>

\* A new uuid.  It reaches the file when that is closed, which can fail unnoticed.
WriteId ==
  /\ pc = "write" /\ pc' = "net"
  /\ made' = made + 1 /\ uuid' = made + 1
  /\ IF disk = "ok" THEN idfile' = made + 1 /\ UNCHANGED trouble
                    ELSE trouble' = trouble \cup {"disk"} /\ UNCHANGED idfile
  /\ UNCHANGED restOfId

\* netsock: main gives up when the master's name is not found.
Connect ==
  /\ pc = "net" /\ pc' \in {"loop", "down"}
  /\ UNCHANGED <<restOfId, idfile, uuid, made, trouble>>

-----------------------------------------------------------------------------
(* A turn of the main loop. *)

\* The lines in which strstr finds a device's name.
Finds(d, names) == {n \in names : n = d \/ <<d, n>> \in Holds}

\* Mutated form of LineOf: the last line that holds the name.
LineOf_Last(d, file) == SelectLastInSeq(file, LAMBDA n : n = d \/ <<d, n>> \in Holds)

\* The first of them in the file, or 0.
LineOf(d, file) == SelectInSeq(file, LAMBDA n : n = d \/ <<d, n>> \in Holds)

\* Mutated form of Reach: the first device is passed over.
Reach_NotFirst(list, names) ==
  {i \in DOMAIN list : i > 1 /\ \A j \in 1 .. i : Finds(list[j].dev, names) # {}}

\* poll_iface and poll_iodev go down the list to the first device not found.
Reach(list, names) ==
  {i \in DOMAIN list : \A j \in 1 .. i : Finds(list[j].dev, names) # {}}

\* The buffer is not cleared: behind the file, old can be there from earlier polls.
PolledDevs(list, file, old) ==
  [i \in DOMAIN list |->
     LET d == list[i].dev
         at == LineOf(d, file) IN
     CASE i \notin Reach(list, ToSet(file) \cup old) -> [list[i] EXCEPT !.fresh = FALSE]
       [] i \in Reach(list, ToSet(file) \cup old) /\ at # 0 ->
            [dev |-> d, of |-> {file[at]}, fresh |-> TRUE]
       [] OTHER -> [dev |-> d, of |-> Finds(d, old), fresh |-> FALSE]]

\* Mutated form of PastCpus: one line more than there are nodes is read.
PastCpus_OneMore(list) == Len(list) >= Cardinality(online)

\* poll_cpus reads as many lines of /proc/stat as it has nodes; when that takes in
\* the line of the interrupts, they are not found after it.
PastCpus(list) == Len(list) > Cardinality(online)

\* "CPUs are the first lines of /proc/stat, assuming that position".
PolledCpus(list) ==
  [i \in DOMAIN list |-> [list[i] EXCEPT !.of = {Ascending(online)[i]}, !.fresh = TRUE]]

\* jsonify is given no string for what is not configured or not known.
JsonFaults == ~setup.named \/ \E i \in DOMAIN nodes.fs : nodes.fs[i].dev = Null

restOfTurn == <<setup, hostVars, idfile, uuid, flags, left, made, trouble>>

\* Poll, jsonify and report.
Turn ==
  /\ pc = "loop" /\ ~PastCpus(nodes.cpu) /\ ~JsonFaults
  /\ \E old \in [DevKind -> SUBSET UNION {seen[k] : k \in DevKind}] :
       /\ \A k \in DevKind : old[k] \subseteq seen[k]
       /\ nodes' = [nodes EXCEPT !.cpu = PolledCpus(@),
                                 !.iface = PolledDevs(@, lines.iface, old.iface),
                                 !.iodev = PolledDevs(@, lines.iodev, old.iodev)]
  /\ seen' = [k \in DevKind |-> seen[k] \cup ToSet(lines[k])]
  /\ ids' = ids \cup {uuid}
  /\ pc' = "sleep"
  /\ UNCHANGED restOfTurn

\* A turn that ends in a null pointer.
TurnFaults ==
  /\ pc = "loop" /\ (PastCpus(nodes.cpu) \/ JsonFaults)
  /\ pc' = "dead"
  /\ UNCHANGED <<restOfTurn, nodes, seen, ids>>

\* Mutated form of Wake: usleep is given a rate that has overflowed.
Wake_Oversleeps ==
  /\ pc = "sleep" /\ ~init_flag /\ ~on
  /\ pc' = "exited" /\ nodes' = NoLists
  /\ UNCHANGED <<restOfTurn, seen, ids>>

\* After usleep; cleanup frees the lists.
Wake ==
  /\ pc = "sleep" /\ ~init_flag
  /\ IF on THEN pc' = "loop" /\ UNCHANGED nodes
           ELSE pc' = "exited" /\ nodes' = NoLists
  /\ UNCHANGED <<restOfTurn, seen, ids>>

\* The re-initialisation copies the string optarg, which getopt has left at NULL.
Reinit ==
  /\ pc = "sleep" /\ init_flag
  /\ pc' = "dead"
  /\ UNCHANGED <<restOfTurn, nodes, seen, ids>>

\* The signal handlers quitit and reinit.
Quitit ==
  /\ Running /\ on /\ on' = FALSE
  /\ UNCHANGED <<setup, hostVars, idfile, pc, nodes, seen, uuid, init_flag, left, made, ids, trouble>>

Hangup ==
  /\ Running /\ ~init_flag /\ init_flag' = TRUE
  /\ trouble' = trouble \cup {"hup"}
  /\ UNCHANGED <<setup, hostVars, idfile, pc, nodes, seen, uuid, on, left, made, ids>>

\* SIGKILL at any time, or any signal before the handlers are there.
Kill ==
  /\ pc \in {"id", "write", "net", "loop", "sleep"} /\ pc' = "down"
  /\ UNCHANGED <<restOfTurn, nodes, seen, ids>>

Next ==
  \/ \E k \in DevKind : \E d \in Devices[k] : Unplug(k, d) \/ Plug(k, d)
  \/ \E c \in Cpus : CpuOff(c) \/ CpuOn(c)
  \/ \E i \in DOMAIN setup.mtab : MountFails(setup.mtab[i].mnt)
  \/ \E how \in {"ok", "full", "readonly"} : DiskTurns(how)
  \/ Start \/ ReadId \/ DropId \/ CreateId \/ NoId \/ WriteId \/ Connect
  \/ Turn \/ TurnFaults \/ Wake \/ Reinit
  \/ Quitit \/ Hangup \/ Kill

Spec == Init /\ [][Next]_vars

\* A loop of its own process, with a bounded sleep.
FairSpec == Spec /\ WF_vars(Turn \/ TurnFaults) /\ WF_vars(Wake \/ Reinit)

-----------------------------------------------------------------------------
(* Properties. *)

\* On a host with its metadata and user configured, the agent ends only of its
\* signals, of a cpu that was taken away, or of a mount or disk that failed.
SurvivesSoundHosts ==
  pc = "dead" /\ setup.named /\ setup.user => trouble # {}

\* The agent's reports carry one identity, over all its runs and wherever it was
\* killed, unless the file could not be written.
IdentityKept ==
  "disk" \notin trouble => Cardinality(ids) <= 1 /\ Nil \notin ids

\* Every device of a mount that answers is listed, and at most twice: push_fs does
\* not compare a device with the last of the list.
MountsListed ==
  Running => \A i \in DOMAIN setup.mtab :
    LET dev == setup.mtab[i].dev
        at == {j \in DOMAIN nodes.fs : nodes.fs[j].dev = dev} IN
    "mount" \notin trouble => at # {} /\ Max(at) <= Min(at) + 1

\* No line in front of a device's own holds its name.
FirstLine(d, file) ==
  \E i \in DOMAIN file : file[i] = d /\ \A j \in 1 .. i - 1 : <<d, file[j]>> \notin Holds

\* No cpu in front of the i-th of the list came or went.
InPosition(i) ==
  /\ nodes.cpu[i].dev \in online
  /\ {c \in online : c < nodes.cpu[i].dev} = {nodes.cpu[j].dev : j \in 1 .. i - 1}

\* What a turn reads for a device is the device's own, unless a name that holds its
\* name is in front of it, or the cpus in front of it are others than at the start.
OwnCounters ==
  [][Turn => /\ \A k \in DevKind : \A i \in DOMAIN nodes[k] :
                  FirstLine(nodes[k][i].dev, lines[k]) /\ nodes'[k][i].fresh =>
                    nodes'[k][i].of = {nodes[k][i].dev}
             /\ \A i \in DOMAIN nodes.cpu :
                  InPosition(i) => nodes'.cpu[i].of = {nodes.cpu[i].dev}]_vars

\* Counters are left as they were only behind a device that is gone: the loops end
\* at the first name they do not find.
StaleBehindMissing ==
  [][Turn => \A k \in DevKind : \A i \in DOMAIN nodes[k] :
       ~nodes'[k][i].fresh => \E j \in 1 .. i : nodes[k][j].dev \notin ToSet(lines[k])]_vars

\* Once the listed devices are all there again, they are all polled again.
CountersResume ==
  \A k \in DevKind :
    LET Complete == \A i \in DOMAIN nodes[k] : nodes[k][i].dev \in ToSet(lines[k]) IN
    (Running /\ Complete) ~> (~Running \/ ~Complete \/ \A i \in DOMAIN nodes[k] : nodes[k][i].fresh)
=============================================================================
