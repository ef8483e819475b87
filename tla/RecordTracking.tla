--------------------------- MODULE RecordTracking ---------------------------
(***************************************************************************)
(* What the master makes of the agents' reports (apply_assmb_buf and       *)
(* master/mstr_dataops.c): a record per agent that every report is merged  *)
(* into, and rates between the standing counters and the incoming ones.    *)
(* Between the agents of AgentReport and the record there is a channel     *)
(* that can lose and double whole reports: what ReportAssembly makes of    *)
(* lost and doubled packets.  The operations on the database that follow   *)
(* an update are published in DbOpsQueue, which takes from here only       *)
(* whether a snapshot is due.                                              *)
(***************************************************************************)
EXTENDS AgentReport, FiniteSets

CONSTANTS
  CommitRate,   \* cfg->def_commit_rate
  Capacity,     \* DATA_STRUCT_AR_SIZE
  MaxTime,      \* bound: the master's clock
  MaxTrouble    \* bound: reports lost, reports applied twice and restarts, together

ASSUME RecordAssumption ==
  /\ CommitRate \in Nat /\ Capacity \in Nat /\ MaxTime \in Nat
  /\ MaxTrouble \in Nat

VARIABLES
  net,          \* agent -> reports assembled by the master, to be applied in order
  record,       \* agent -> its obj_rec: at[section] is the poll that set it, 0 if none did
  last_commit,  \* agent -> time of the last snapshot operation
  now,          \* the master's clock
  master,       \* "up" or "crashed"
  lost, doubled, restarts

vars == <<agentVars, net, record, last_commit, now, master, lost, doubled, restarts>>

NoDevs == [s \in DevSection |-> <<>>]
NoRecord == [ts |-> 0, at |-> [s \in Section |-> 0], devs |-> NoDevs, rates |-> {}]

Known == {a \in Agents : record[a] # NoRecord}

\* CALC_RATE_KEYS
RateKeys == {"cpus", "cpu_ttls", "iodev", "iface"}

TypeOK ==
  /\ AgentTypeOK
  /\ \A a \in Agents :
       /\ \A i \in DOMAIN net[a] : net[a][i].poll \in 1 .. polls[a]
       /\ record[a].ts \in 0 .. polls[a] /\ record[a].at \in [Section -> 0 .. record[a].ts]
       /\ last_commit[a] \in 0 .. now
  /\ Cardinality(Known) <= Capacity
  /\ now \in 0 .. MaxTime /\ master \in {"up", "crashed"}
  /\ lost \in Nat /\ doubled \in Nat /\ restarts \in Nat /\ lost + doubled + restarts <= MaxTrouble

Init ==
  /\ AgentInit
  /\ net = [a \in Agents |-> <<>>]
  /\ record = [a \in Agents |-> NoRecord]
  /\ last_commit = [a \in Agents |-> 0]
  /\ now = 0 /\ master = "up"
  /\ lost = 0 /\ doubled = 0 /\ restarts = 0

-----------------------------------------------------------------------------
(* The agents and the channel. *)

recordVars == <<record, last_commit, master>>

Trouble == lost + doubled + restarts < MaxTrouble

SendReport(a) ==
  /\ Poll(a)
  /\ \/ net' = [net EXCEPT ![a] = Append(@, NextReport(a))] /\ UNCHANGED <<lost, doubled>>
     \/ Trouble /\ lost' = lost + 1 /\ UNCHANGED <<net, doubled>>
     \/ /\ Trouble /\ doubled' = doubled + 1
        /\ net' = [net EXCEPT ![a] = @ \o <<NextReport(a), NextReport(a)>>]
        /\ UNCHANGED lost
  /\ UNCHANGED <<recordVars, now, restarts>>

FailPoll(a) ==
  /\ PollFault(a)
  /\ UNCHANGED <<net, recordVars, now, lost, doubled, restarts>>

UseDevice(a) ==
  /\ \E s \in DevSection : \E d \in DevsOf(a, s) : Activate(a, s, d)
  /\ UNCHANGED <<net, recordVars, now, lost, doubled, restarts>>

Restart(a) ==
  /\ Trouble /\ restarts' = restarts + 1
  /\ RestartAgent(a)
  /\ UNCHANGED <<net, recordVars, now, lost, doubled>>

Tick ==
  /\ now < MaxTime /\ now' = now + 1
  /\ UNCHANGED <<agentVars, net, recordVars, lost, doubled, restarts>>

-----------------------------------------------------------------------------
(* The record. *)

\* Mutated form of AddRecord: the capacity is compared off by one.
AddRecord_OneMore(a, rpt) ==
  /\ Cardinality(Known) <= Capacity
  /\ record' = [record EXCEPT ![a] =
                  [ts |-> rpt.poll,
                   at |-> [s \in Section |-> IF s \in rpt.sections THEN rpt.poll ELSE 0],
                   devs |-> NoDevs, rates |-> {}]]
  /\ last_commit' = [last_commit EXCEPT ![a] = now]

\* add_obj_rec, for an agent without a record; with the array full it fails, and
\* the caller takes no notice: the report is forgotten.
AddRecord(a, rpt) ==
  IF Cardinality(Known) < Capacity
    THEN /\ record' = [record EXCEPT ![a] =
                         [ts |-> rpt.poll,
                          at |-> [s \in Section |-> IF s \in rpt.sections THEN rpt.poll ELSE 0],
                          devs |-> [s \in DevSection |->
                                      IF s \in rpt.sections THEN rpt.devs[s] ELSE <<>>],
                          rates |-> {}]]
         /\ last_commit' = [last_commit EXCEPT ![a] = now]
    ELSE UNCHANGED <<record, last_commit>>

\* json_object_get finds no such key, and json_typeof follows the NULL it returns.
RateKeyMissing(rec, rpt) ==
  \E k \in RateKeys : rec.at[k] = 0 \/ k \notin rpt.sections

\* get_these_rates: arrays are matched by position, the difference is divided by
\* the time between the two reports; over no time there is no JSON number.
Rates(rec, rpt) ==
  IF rpt.poll = rec.ts THEN {}
  ELSE UNION {{[section |-> k, of |-> rec.devs[k][i], to |-> rpt.devs[k][i],
                sampled |-> rpt.poll - rec.at[k], over |-> rpt.poll - rec.ts] :
                 i \in DOMAIN rec.devs[k] \cap DOMAIN rpt.devs[k]} :
              k \in RateKeys \cap DevSection}

\* Mutated form of Merge: the record keeps its first time stamp.
Merge_OldTime(rec, rpt) ==
  [ts |-> rec.ts,
   at |-> [s \in Section |-> IF s \in rpt.sections THEN rpt.poll ELSE rec.at[s]],
   devs |-> rpt.devs,
   rates |-> Rates(rec, rpt)]

\* Mutated form of Merge: the arrays of the first report are kept.
Merge_OldDevs(rec, rpt) ==
  [ts |-> rpt.poll,
   at |-> [s \in Section |-> IF s \in rpt.sections THEN rpt.poll ELSE rec.at[s]],
   devs |-> rec.devs,
   rates |-> Rates(rec, rpt)]

\* json_object_update replaces the keys the report has and keeps the others.
Merge(rec, rpt) ==
  [ts |-> rpt.poll,
   at |-> [s \in Section |-> IF s \in rpt.sections THEN rpt.poll ELSE rec.at[s]],
   devs |-> [s \in DevSection |-> IF s \in rpt.sections THEN rpt.devs[s] ELSE rec.devs[s]],
   rates |-> Rates(rec, rpt)]

CommitDue(a) == now - last_commit[a] >= CommitRate

UpdateRecord(a, rpt) ==
  /\ record' = [record EXCEPT ![a] = Merge(@, rpt)]
  /\ last_commit' = IF CommitDue(a) THEN [last_commit EXCEPT ![a] = now] ELSE last_commit

\* apply_assmb_buf
ApplyReport(a) ==
  LET rpt == Head(net[a]) IN
  /\ master = "up" /\ net[a] # <<>>
  /\ net' = [net EXCEPT ![a] = Tail(@)]
  /\ \/ a \notin Known /\ AddRecord(a, rpt) /\ UNCHANGED master
     \/ /\ a \in Known /\ RateKeyMissing(record[a], rpt)
        /\ master' = "crashed" /\ UNCHANGED <<record, last_commit>>
     \/ /\ a \in Known /\ ~RateKeyMissing(record[a], rpt)
        /\ UpdateRecord(a, rpt) /\ UNCHANGED master
  /\ UNCHANGED <<agentVars, now, lost, doubled, restarts>>

Next ==
  \/ \E a \in Agents : SendReport(a) \/ FailPoll(a) \/ UseDevice(a) \/ Restart(a) \/ ApplyReport(a)
  \/ Tick

Spec == Init /\ [][Next]_vars

-----------------------------------------------------------------------------
(* Properties. *)

\* Sections whose multiplier the code or the file sets.
Scheduled(a) == {s \in Section : SwitchOf[s] \in SetBy(file[a])}

\* The multiplier that the file asks for, or else the default.
Asked(a, w) == IF w \in DOMAIN file[a] THEN file[a][w] ELSE Defaults[w]

\* Polls between two reports of a section, as the loop counts them.
Period(a, s) ==
  LET m == Asked(a, SwitchOf[s]) IN IF m % 2 = 0 THEN m \div 2 ELSE m

\* No section of a record is older than its schedule allows: however the reports
\* were merged, doubled and interrupted by restarts of the agent, section s comes
\* from one of the last Period polls, and each lost report adds one period.
SectionsFresh ==
  \A a \in Known : \A s \in Scheduled(a) :
    record[a].ts - record[a].at[s] < Period(a, s) * (lost + 1)

\* Only a multiplier that is 0 in the file, or that is in no file and has no
\* default, can stop an agent (get_poll_bits divides by all of them).
FaultNeedsUnset ==
  \A a \in Agents : daemon[a] = "fault" =>
    \E w \in Switch : w \notin SetBy(file[a]) \/ Asked(a, w) = 0

\* The master survives every report that its agents' schedules can produce, lost,
\* doubled and after restarts, while each rate section is due at every poll of
\* every agent, which multipliers of 1 and 2 make it.
SurvivesRegular ==
  (\A a \in Agents, k \in RateKeys : k \in Scheduled(a) /\ Asked(a, SwitchOf[k]) \in 1 .. 2)
    => master = "up"

\* The master survives every report of its agents (get_rates in mstr_dataops.c).
MasterSurvives == master = "up"

\* A rate divides the change of a device's counters by the time in which they
\* changed, not by the time between two other reports.
RateOverItsInterval ==
  \A a \in Agents : \A r \in record[a].rates : r.sampled = r.over

\* get_these_rates matches arrays by position: a rate compares a device with
\* itself unless a device before it in the list was first used between the two
\* reports that the rate is taken from.
RateOfOneDevice ==
  \A a \in Agents : \A r \in record[a].rates : r.of = r.to \/
    \E i, j \in DOMAIN DevList[a][r.section] :
      /\ i < j /\ DevList[a][r.section][j] = r.of
      /\ DevList[a][r.section][i] \in DOMAIN since[a][r.section]
      /\ since[a][r.section][DevList[a][r.section][i]]
           \in record[a].ts - r.sampled .. record[a].ts - 1
=============================================================================
