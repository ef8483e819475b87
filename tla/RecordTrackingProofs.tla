------------------------ MODULE RecordTrackingProofs ------------------------
(***************************************************************************)
(* Theorems about RecordTracking, for any agents, configuration files,     *)
(* devices and capacity, and any number of polls, lost or doubled reports  *)
(* and restarts.                                                           *)
(***************************************************************************)
EXTENDS RecordTracking, ListLemmas

Device == UNION {DevsOf(a, s) : a \in Agents, s \in DevSection}
Report == [poll : Nat \ {0}, sections : SUBSET Section, devs : [DevSection -> Seq(Device)]]
Rate == [section : RateKeys \cap DevSection, of : Device, to : Device, sampled : Int, over : Int]
Record == [ts : Nat, at : [Section -> Nat], devs : [DevSection -> Seq(Device)],
           rates : SUBSET Rate]

\* What each variable is, apart from the bounds.
ConfigShape ==
  /\ file \in [Agents -> UNION {Files[a] : a \in Agents}]
  /\ \A a \in Agents : file[a] \in Files[a]
  /\ mult \in [Agents -> [Switch -> Nat]]
CounterShape ==
  /\ daemon \in [Agents -> {"up", "fault"}]
  /\ pollcount \in [Agents -> Nat] /\ polls \in [Agents -> Nat] /\ run \in [Agents -> Nat]
SinceShape ==
  /\ DOMAIN since = Agents
  /\ \A a \in Agents : DOMAIN since[a] = DevSection
  /\ \A a \in Agents, s \in DevSection :
       DOMAIN since[a][s] \subseteq DevsOf(a, s) /\ \A d \in DOMAIN since[a][s] : since[a][s][d] \in 0 .. polls[a]
NetShape == net \in [Agents -> Seq(Report)]
RecordShape ==
  /\ record \in [Agents -> Record]
  /\ last_commit \in [Agents -> Nat]
  /\ now \in Nat /\ master \in {"up", "crashed"}
  /\ lost \in Nat /\ doubled \in Nat /\ restarts \in Nat

Shape == ConfigShape /\ CounterShape /\ SinceShape /\ NetShape /\ RecordShape

\* A multiplier that the code or the file sets is the one that was asked for.
AsAsked == \A a \in Agents : \A w \in SetBy(file[a]) : mult[a][w] = Asked(a, w)

\* The counter of the loop goes up by two in each turn.
Counted == \A a \in Agents : pollcount[a] = 2 * run[a]

-----------------------------------------------------------------------------
(* What the operators give. *)

\* The records of set operators have the fields that the types ask for.
LEMMA ConfiguredType ==
  ASSUME NEW a \in Agents, NEW f \in Files[a], NEW m \in Configured(f)
  PROVE  /\ m \in [Switch -> Nat]
         /\ \A w \in SetBy(f) : m[w] = IF w \in DOMAIN f THEN f[w] ELSE Defaults[w]
<1>1. PICK g \in [Switch \ SetBy(f) -> Garbage] :
             m = [w \in Switch |-> IF w \in DOMAIN f THEN f[w]
                                   ELSE IF w \in DOMAIN Defaults THEN Defaults[w] ELSE g[w]]
  BY DEF Configured
<1>2. /\ DOMAIN f \subseteq Switch /\ \A w \in DOMAIN f : f[w] \in Nat
      /\ DOMAIN Defaults \subseteq Switch /\ \A w \in DOMAIN Defaults : Defaults[w] \in Nat
      /\ Garbage \subseteq Nat
  BY AgentAssumption
<1>3. \A w \in Switch : m[w] \in Nat
  BY <1>1, <1>2 DEF SetBy
<1>. QED  BY <1>1, <1>2, <1>3 DEF SetBy

\* An agent lists devices of its own only.
LEMMA DevsInType ==
  ASSUME NEW a \in Agents, NEW s \in DevSection, NEW used
  PROVE  DevsIn(a, s, used) \in Seq(Device)
<1>1. DevList[a][s] \in Seq(DevsOf(a, s))
  BY AgentAssumption
<1>2. DevsIn(a, s, used) \in Seq(DevsOf(a, s))
  BY <1>1, SelectedFacts DEF DevsIn
<1>3. DevsOf(a, s) \subseteq Device
  BY DEF Device
<1>. QED  BY <1>2, <1>3, SeqMonotonic

\* The report of an agent's next poll.
LEMMA NextReportType ==
  ASSUME Shape, NEW a \in Agents
  PROVE  /\ NextReport(a) \in Report
         /\ NextReport(a).poll = polls[a] + 1
         /\ NextReport(a).sections = {s \in Section : SwitchOf[s] \in PollBits(pollcount[a], mult[a])}
         /\ \A s \in DevSection : NextReport(a).devs[s] = DevsIn(a, s, DOMAIN since[a][s])
<1>1. \A s \in DevSection : DevsIn(a, s, DOMAIN since[a][s]) \in Seq(Device)
  BY DevsInType
<1>2. polls[a] + 1 \in Nat \ {0}
  BY DEF Shape, CounterShape
<1>. DEFINE secs == {s \in Section : SwitchOf[s] \in PollBits(pollcount[a], mult[a])}
            devs == [s \in DevSection |-> DevsIn(a, s, DOMAIN since[a][s])]
<1>3. NextReport(a) = [poll |-> polls[a] + 1, sections |-> secs, devs |-> devs]
  BY DEF NextReport, Jsonify
<1>4. devs \in [DevSection -> Seq(Device)] /\ secs \in SUBSET Section
  BY <1>1
<1>5. \A s \in DevSection : devs[s] = DevsIn(a, s, DOMAIN since[a][s])
  OBVIOUS
<1>. HIDE DEF secs, devs
<1>6. NextReport(a) \in Report /\ NextReport(a).poll = polls[a] + 1
  BY <1>2, <1>3, <1>4 DEF Report
<1>. QED  BY <1>3, <1>5, <1>6 DEF secs

\* The record after a first report, and after a later one.
Added(rpt) ==
  [ts |-> rpt.poll,
   at |-> [s \in Section |-> IF s \in rpt.sections THEN rpt.poll ELSE 0],
   devs |-> [s \in DevSection |-> IF s \in rpt.sections THEN rpt.devs[s] ELSE <<>>],
   rates |-> {}]

\* Both are records, and neither is NoRecord.
LEMMA RecordType ==
  ASSUME NEW rpt \in Report, NEW rec \in Record
  PROVE  /\ NoRecord \in Record
         /\ Added(rpt) \in Record /\ Added(rpt) # NoRecord
         /\ Merge(rec, rpt) \in Record /\ Merge(rec, rpt) # NoRecord
<1>1. rpt.poll \in Nat \ {0} /\ rpt.devs \in [DevSection -> Seq(Device)]
  BY DEF Report
<1>2. rec.ts \in Nat /\ rec.at \in [Section -> Nat] /\ rec.devs \in [DevSection -> Seq(Device)]
  BY DEF Record
<1>3. <<>> \in Seq(Device)
  OBVIOUS
<1>4. NoRecord \in Record
  BY <1>3 DEF NoRecord, NoDevs, Record
<1>5. Added(rpt) \in Record
  BY <1>1, <1>3 DEF Added, Record
<1>6. Rates(rec, rpt) \subseteq Rate
  <2>1. ASSUME NEW k \in RateKeys \cap DevSection, NEW i \in DOMAIN rec.devs[k] \cap DOMAIN rpt.devs[k]
        PROVE  [section |-> k, of |-> rec.devs[k][i], to |-> rpt.devs[k][i],
                sampled |-> rpt.poll - rec.at[k], over |-> rpt.poll - rec.ts] \in Rate
    <3>1. rec.devs[k][i] \in Device /\ rpt.devs[k][i] \in Device
      BY <1>1, <1>2
    <3>2. k \in Section
      BY DEF RateKeys, Section, SwitchOf
    <3>3. rpt.poll - rec.at[k] \in Int /\ rpt.poll - rec.ts \in Int
      BY <1>1, <1>2, <3>2
    <3>. QED  BY <3>1, <3>3 DEF Rate
  <2>. QED  BY <2>1 DEF Rates
<1>7. Merge(rec, rpt) \in Record
  BY <1>1, <1>2, <1>6 DEF Merge, Record
<1>8. Added(rpt).ts # NoRecord.ts /\ Merge(rec, rpt).ts # NoRecord.ts
  BY <1>1 DEF Added, Merge, NoRecord
<1>. QED  BY <1>4, <1>5, <1>7, <1>8

-----------------------------------------------------------------------------
(* The steps. *)

\* apply_assmb_buf: the first report of an agent is its record, unless the array is
\* full; a later one is merged, unless that ends the master.
LEMMA ApplyCases ==
  ASSUME Shape, NEW a \in Agents, ApplyReport(a), NEW rpt, rpt = Head(net[a])
  PROVE  /\ rpt \in Report /\ net[a] # <<>> /\ master = "up"
         /\ net' = [net EXCEPT ![a] = Tail(@)]
         /\ UNCHANGED <<agentVars, now, lost, doubled, restarts>>
         /\ \/ /\ a \notin Known /\ Cardinality(Known) < Capacity
               /\ record' = [record EXCEPT ![a] = Added(rpt)]
               /\ last_commit' = [last_commit EXCEPT ![a] = now]
               /\ master' = master
            \/ /\ a \notin Known /\ ~(Cardinality(Known) < Capacity)
               /\ UNCHANGED <<record, last_commit, master>>
            \/ /\ a \in Known /\ RateKeyMissing(record[a], rpt)
               /\ master' = "crashed" /\ UNCHANGED <<record, last_commit>>
            \/ /\ a \in Known /\ ~RateKeyMissing(record[a], rpt)
               /\ record' = [record EXCEPT ![a] = Merge(@, rpt)]
               /\ last_commit' \in {last_commit, [last_commit EXCEPT ![a] = now]}
               /\ master' = master
<1>1. net[a] # <<>> /\ rpt \in Report
  <2>1. net[a] # <<>> /\ net[a] \in Seq(Report)
    BY DEF ApplyReport, Shape, NetShape
  <2>. QED  BY <2>1, HeadTailProperties
<1>. QED  BY <1>1 DEF ApplyReport, AddRecord, UpdateRecord, Added

\* A report on its way is one of those before, or the agent's next; and its place
\* among the others is as it was.
LEMMA SendCases ==
  ASSUME Shape, NEW a \in Agents, SendReport(a)
  PROVE  /\ ~PollFaults(mult[a])
         /\ polls[a] < MaxPolls[a]
         /\ polls' = [polls EXCEPT ![a] = @ + 1]
         /\ run' = [run EXCEPT ![a] = @ + 1]
         /\ pollcount' = [pollcount EXCEPT ![a] = @ + 2]
         /\ UNCHANGED <<config, daemon, since, record, last_commit, master, now, restarts>>
         /\ \/ /\ net' = [net EXCEPT ![a] = Append(@, NextReport(a))]
               /\ lost' = lost /\ doubled' = doubled
            \/ /\ net' = net /\ Trouble /\ lost' = lost + 1 /\ doubled' = doubled
            \/ /\ net' = [net EXCEPT ![a] = Append(Append(@, NextReport(a)), NextReport(a))]
               /\ Trouble /\ lost' = lost /\ doubled' = doubled + 1
<1>1. \A q \in Seq(Report), r \in Report : q \o <<r, r>> = Append(Append(q, r), r)
  OBVIOUS
<1>2. net[a] \in Seq(Report) /\ NextReport(a) \in Report
  BY NextReportType DEF Shape, NetShape
<1>. QED  BY <1>1, <1>2 DEF SendReport, Poll, NextCount, recordVars

\* Shape holds in every state.
LEMMA ShapeInit == Init => Shape
<1>. SUFFICES ASSUME Init PROVE Shape
  OBVIOUS
<1>1. /\ file \in [Agents -> UNION {Files[a] : a \in Agents}]
      /\ \A a \in Agents : file[a] \in Files[a]
  BY DEF Init, AgentInit
<1>2. mult \in [Agents -> [Switch -> Nat]]
  <2>1. mult \in [Agents -> UNION {Configured(file[a]) : a \in Agents}]
        /\ \A a \in Agents : mult[a] \in Configured(file[a])
    BY DEF Init, AgentInit
  <2>2. \A a \in Agents : mult[a] \in [Switch -> Nat]
    BY <1>1, <2>1, ConfiguredType
  <2>. QED  BY <2>1, <2>2
<1>3. net \in [Agents -> Seq(Report)] /\ record \in [Agents -> Record]
  <2>1. NoRecord \in Record
    <3>1. <<>> \in Seq(Device)
      OBVIOUS
    <3>. QED  BY <3>1 DEF NoRecord, NoDevs, Record
  <2>2. <<>> \in Seq(Report)
    OBVIOUS
  <2>. QED  BY <2>1, <2>2 DEF Init
<1>4. /\ DOMAIN since = Agents
      /\ \A a \in Agents : DOMAIN since[a] = DevSection
      /\ \A a \in Agents, s \in DevSection :
           /\ DOMAIN since[a][s] \subseteq DevsOf(a, s)
           /\ \A d \in DOMAIN since[a][s] : since[a][s][d] \in 0 .. polls[a]
  BY DEF Init, AgentInit
<1>. QED  BY <1>1, <1>2, <1>3, <1>4 DEF Init, AgentInit, Shape,
     ConfigShape, CounterShape, SinceShape, NetShape, RecordShape

\* And it is kept by every step.
LEMMA ShapeStep == Shape /\ [Next]_vars => Shape'
<1>. SUFFICES ASSUME Shape, [Next]_vars PROVE Shape'
  OBVIOUS
<1>. USE DEF Shape
<1>1. ASSUME NEW a \in Agents, SendReport(a) PROVE Shape'
  <2>0. NetShape
    OBVIOUS
  <2>1. NetShape'
    <3>1. NextReport(a) \in Report /\ net[a] \in Seq(Report)
      BY NextReportType DEF NetShape
    <3>2. /\ Append(net[a], NextReport(a)) \in Seq(Report)
          /\ Append(Append(net[a], NextReport(a)), NextReport(a)) \in Seq(Report)
      BY <3>1
    <3>3. \/ net' = net
          \/ net' = [net EXCEPT ![a] = Append(@, NextReport(a))]
          \/ net' = [net EXCEPT ![a] = Append(Append(@, NextReport(a)), NextReport(a))]
      BY <1>1, SendCases
    <3>. HIDE DEF Shape
    <3>. QED  BY <2>0, <3>2, <3>3 DEF NetShape
  <2>2. CounterShape'
    <3>1. /\ daemon' = daemon /\ polls' = [polls EXCEPT ![a] = @ + 1]
          /\ run' = [run EXCEPT ![a] = @ + 1] /\ pollcount' = [pollcount EXCEPT ![a] = @ + 2]
      BY <1>1, SendCases
    <3>. QED  BY <3>1 DEF CounterShape
  <2>3. SinceShape'
    <3>1. UNCHANGED since /\ polls' = [polls EXCEPT ![a] = @ + 1]
      BY <1>1, SendCases
    <3>2. \A b \in Agents : polls[b] \in Nat /\ polls'[b] \in Nat /\ polls[b] <= polls'[b]
      BY <3>1 DEF CounterShape
    <3>. QED  BY <3>1, <3>2 DEF SinceShape
  <2>4. ConfigShape'
    BY <1>1, SendCases DEF ConfigShape, config
  <2>5. RecordShape'
    BY <1>1, SendCases DEF RecordShape
  <2>. QED  BY <2>1, <2>2, <2>3, <2>4, <2>5
<1>2. ASSUME NEW a \in Agents, FailPoll(a) PROVE Shape'
  <2>1. UNCHANGED <<file, mult, pollcount, polls, run, since, net, record, last_commit, master, now,
                    lost, doubled, restarts>> /\ daemon' = [daemon EXCEPT ![a] = "fault"]
    BY <1>2 DEF FailPoll, PollFault, config, recordVars
  <2>. QED  BY <2>1 DEF ConfigShape, CounterShape, SinceShape, NetShape, RecordShape
<1>3. ASSUME NEW a \in Agents, UseDevice(a) PROVE Shape'
  <2>1. PICK s \in DevSection : \E d \in DevsOf(a, s) : Activate(a, s, d)
    BY <1>3 DEF UseDevice
  <2>2. PICK d \in DevsOf(a, s) : Activate(a, s, d)
    BY <2>1
  <2>3. UNCHANGED <<file, mult, daemon, pollcount, polls, run, net, record, last_commit, master, now,
                    lost, doubled, restarts>>
    BY <1>3, <2>2 DEF UseDevice, Activate, config, recordVars
  <2>4. SinceShape'
    <3>1. PICK f : /\ f = [e \in DOMAIN since[a][s] \cup {d} |-> IF e = d THEN polls[a] ELSE since[a][s][e]]
                   /\ since' = [since EXCEPT ![a][s] = f]
      BY <2>2 DEF Activate
    <3>2. DOMAIN f \subseteq DevsOf(a, s) /\ \A e \in DOMAIN f : f[e] \in 0 .. polls[a]
      BY <3>1 DEF SinceShape, CounterShape
    <3>. QED  BY <2>3, <3>1, <3>2, ZenonT(30) DEF SinceShape
  <2>. QED  BY <2>3, <2>4 DEF ConfigShape, CounterShape, NetShape, RecordShape
<1>4. ASSUME NEW a \in Agents, Restart(a) PROVE Shape'
  <2>1. PICK m \in Configured(file[a]) : mult' = [mult EXCEPT ![a] = m]
    BY <1>4 DEF Restart, RestartAgent
  <2>2. m \in [Switch -> Nat]
    BY <2>1, ConfiguredType DEF ConfigShape
  <2>3. /\ UNCHANGED <<file, polls, since, net, record, last_commit, master, now, lost, doubled>>
        /\ daemon' = [daemon EXCEPT ![a] = "up"] /\ pollcount' = [pollcount EXCEPT ![a] = 0]
        /\ run' = [run EXCEPT ![a] = 0] /\ restarts' = restarts + 1
    BY <1>4 DEF Restart, RestartAgent, recordVars
  <2>4. ConfigShape'
    BY <2>1, <2>2, <2>3 DEF ConfigShape
  <2>. QED  BY <2>3, <2>4 DEF CounterShape, SinceShape, NetShape, RecordShape
<1>5. ASSUME NEW a \in Agents, ApplyReport(a) PROVE Shape'
  <2>. DEFINE rpt == Head(net[a])
  <2>1. rpt \in Report /\ record[a] \in Record
    BY <1>5, ApplyCases DEF RecordShape
  <2>2. Added(rpt) \in Record /\ Merge(record[a], rpt) \in Record
    BY <2>1, RecordType
  <2>3. /\ UNCHANGED <<file, mult, daemon, pollcount, polls, run, since, now, lost, doubled, restarts>>
        /\ net[a] # <<>> /\ net' = [net EXCEPT ![a] = Tail(@)]
    BY <1>5, ApplyCases DEF agentVars, config
  <2>4. NetShape'
    <3>1. Tail(net[a]) \in Seq(Report)
      BY <2>3, HeadTailProperties DEF NetShape
    <3>. QED  BY <2>3, <3>1 DEF NetShape
  <2>5. /\ record' = record \/ record' = [record EXCEPT ![a] = Added(rpt)]
             \/ record' = [record EXCEPT ![a] = Merge(@, rpt)]
        /\ last_commit' = last_commit \/ last_commit' = [last_commit EXCEPT ![a] = now]
        /\ master' = master \/ master' = "crashed"
    BY <1>5, ApplyCases
  <2>. HIDE DEF rpt
  <2>6. RecordShape'
    <3>1. record' \in [Agents -> Record]
      BY <2>2, <2>5 DEF RecordShape
    <3>2. last_commit' \in [Agents -> Nat]
      BY <2>5 DEF RecordShape
    <3>. QED  BY <2>3, <2>5, <3>1, <3>2 DEF RecordShape
  <2>. QED  BY <2>3, <2>4, <2>6 DEF ConfigShape, CounterShape, SinceShape
<1>6. CASE Tick
  <2>1. /\ UNCHANGED <<file, mult, daemon, pollcount, polls, run, since, net, record, last_commit, master,
                       lost, doubled, restarts>>
        /\ now' = now + 1
    BY <1>6 DEF Tick, agentVars, config, recordVars
  <2>2. ConfigShape' /\ CounterShape' /\ SinceShape' /\ NetShape'
    BY <2>1 DEF ConfigShape, CounterShape, SinceShape, NetShape
  <2>. QED  BY <2>1, <2>2 DEF RecordShape
<1>7. CASE UNCHANGED vars
  <2>1. UNCHANGED <<file, mult, daemon, pollcount, polls, run, since, net, record, last_commit, master, now,
                    lost, doubled, restarts>>
    BY <1>7 DEF vars, agentVars, config
  <2>. QED  BY <2>1 DEF ConfigShape, CounterShape, SinceShape, NetShape, RecordShape
<1>. QED  BY <1>1, <1>2, <1>3, <1>4, <1>5, <1>6, <1>7 DEF Next

-----------------------------------------------------------------------------
(* What a step does to one agent: the invariants below are about one agent  *)
(* at a time, and follow from these.                                        *)

SameConfig(a) == file'[a] = file[a] /\ mult'[a] = mult[a]
SameCounters(a) == pollcount'[a] = pollcount[a] /\ polls'[a] = polls[a] /\ run'[a] = run[a]
SameRecord(a) == record'[a] = record[a]

\* Nothing, or nothing but last_commit.
Idle(a) ==
  /\ SameConfig(a) /\ SameCounters(a) /\ SameRecord(a)
  /\ daemon'[a] = daemon[a] /\ since'[a] = since[a] /\ net'[a] = net[a]

\* A poll: its report is lost, or sent, perhaps twice.
Sent(a) ==
  /\ ~PollFaults(mult[a]) /\ polls[a] < MaxPolls[a]
  /\ polls'[a] = polls[a] + 1 /\ run'[a] = run[a] + 1 /\ pollcount'[a] = pollcount[a] + 2
  /\ SameConfig(a) /\ SameRecord(a) /\ daemon'[a] = daemon[a] /\ since'[a] = since[a]
  /\ Len(net[a]) <= Len(net'[a])
  /\ \A i \in 1 .. Len(net[a]) : net'[a][i] = net[a][i]
  /\ \A i \in Len(net[a]) + 1 .. Len(net'[a]) : net'[a][i] = NextReport(a)
  /\ (lost' = lost /\ Len(net[a]) < Len(net'[a])) \/ lost' = lost + 1
  /\ master' = master

\* get_poll_bits divides by 0.
Failed(a) ==
  /\ PollFaults(mult[a]) /\ daemon'[a] = "fault"
  /\ SameConfig(a) /\ SameCounters(a) /\ SameRecord(a) /\ since'[a] = since[a] /\ net'[a] = net[a]

\* A device of the agent is used for the first time.
Used(a) ==
  /\ \E s \in DevSection : \E d \in DevsOf(a, s) \ DOMAIN since[a][s] :
       since'[a] = [since[a] EXCEPT ![s] = [e \in DOMAIN @ \cup {d} |-> IF e = d THEN polls[a] ELSE @[e]]]
  /\ SameConfig(a) /\ SameCounters(a) /\ SameRecord(a) /\ daemon'[a] = daemon[a] /\ net'[a] = net[a]

\* The agent starts again and reads its file.
Restarted(a) ==
  /\ mult'[a] \in Configured(file[a]) /\ file'[a] = file[a] /\ daemon'[a] = "up"
  /\ pollcount'[a] = 0 /\ run'[a] = 0 /\ polls'[a] = polls[a]
  /\ SameRecord(a) /\ since'[a] = since[a] /\ net'[a] = net[a]

\* The first report is taken off the channel; what the master makes of it.
Applied(a) ==
  /\ SameConfig(a) /\ SameCounters(a) /\ daemon'[a] = daemon[a] /\ since'[a] = since[a]
  /\ master = "up" /\ net[a] # <<>> /\ net[a][1] \in Report
  /\ Len(net'[a]) = Len(net[a]) - 1
  /\ \A i \in 1 .. Len(net'[a]) : net'[a][i] = net[a][i + 1]
  /\ \/ /\ record[a] = NoRecord /\ master' = "up"
        /\ \/ Cardinality(Known) < Capacity /\ record'[a] = Added(net[a][1])
           \/ ~(Cardinality(Known) < Capacity) /\ record'[a] = NoRecord
     \/ /\ record[a] # NoRecord /\ RateKeyMissing(record[a], net[a][1])
        /\ master' = "crashed" /\ SameRecord(a)
     \/ /\ record[a] # NoRecord /\ ~RateKeyMissing(record[a], net[a][1])
        /\ master' = "up" /\ record'[a] = Merge(record[a], net[a][1])

AgentStep(a) == Idle(a) \/ Sent(a) \/ Failed(a) \/ Used(a) \/ Restarted(a) \/ Applied(a)

\* A poll is a step of one agent: it counts, and its report joins the end of the
\* channel or is lost.
LEMMA SentStep ==
  ASSUME Shape, NEW a \in Agents, SendReport(a)
  PROVE  Sent(a) /\ \A b \in Agents \ {a} : Idle(b)
<1>1. /\ ~PollFaults(mult[a]) /\ polls[a] < MaxPolls[a] /\ master' = master
      /\ polls' = [polls EXCEPT ![a] = @ + 1] /\ run' = [run EXCEPT ![a] = @ + 1]
      /\ pollcount' = [pollcount EXCEPT ![a] = @ + 2]
      /\ UNCHANGED <<file, mult, daemon, since, record>>
  BY SendCases DEF config
<1>2. \/ net' = [net EXCEPT ![a] = Append(@, NextReport(a))] /\ lost' = lost
      \/ net' = net /\ lost' = lost + 1
      \/ net' = [net EXCEPT ![a] = Append(Append(@, NextReport(a)), NextReport(a))] /\ lost' = lost
  BY SendCases
<1>3. /\ net \in [Agents -> Seq(Report)] /\ NextReport(a) \in Report
      /\ polls \in [Agents -> Nat] /\ run \in [Agents -> Nat] /\ pollcount \in [Agents -> Nat]
  BY NextReportType DEF Shape, NetShape, CounterShape
<1>4. \A b \in Agents \ {a} : net'[b] = net[b]
  BY <1>2, <1>3
<1>5. /\ Len(net[a]) <= Len(net'[a])
      /\ \A i \in 1 .. Len(net[a]) : net'[a][i] = net[a][i]
      /\ \A i \in Len(net[a]) + 1 .. Len(net'[a]) : net'[a][i] = NextReport(a)
      /\ (lost' = lost /\ Len(net[a]) < Len(net'[a])) \/ lost' = lost + 1
  <2>1. PICK q \in Seq(Report), r \in Report : q = net[a] /\ r = NextReport(a)
    BY <1>3
  <2>2. CASE net'[a] = Append(q, r) /\ lost' = lost
    BY <2>1, <2>2
  <2>3. CASE net'[a] = q /\ lost' = lost + 1
    BY <2>1, <2>3
  <2>4. CASE net'[a] = Append(Append(q, r), r) /\ lost' = lost
    BY <2>1, <2>4
  <2>. QED  BY <1>2, <1>3, <2>1, <2>2, <2>3, <2>4
<1>6. Sent(a)
  BY <1>1, <1>3, <1>5 DEF Sent, SameConfig, SameRecord
<1>7. \A b \in Agents \ {a} : Idle(b)
  BY <1>1, <1>3, <1>4 DEF Idle, SameConfig, SameCounters, SameRecord
<1>. QED  BY <1>6, <1>7

\* apply_assmb_buf is a step of one agent: the first report leaves the channel for
\* the record, unless there is no room for the record or get_rates ends the master.
LEMMA AppliedStep ==
  ASSUME Shape, NEW a \in Agents, ApplyReport(a)
  PROVE  Applied(a) /\ \A b \in Agents \ {a} : Idle(b)
<1>1. PICK rpt : rpt = Head(net[a])
  OBVIOUS
<1>2. /\ net[a] # <<>> /\ net' = [net EXCEPT ![a] = Tail(@)] /\ master = "up" /\ rpt \in Report
      /\ UNCHANGED <<file, mult, daemon, pollcount, polls, run, since>>
  BY <1>1, ApplyCases DEF agentVars, config
<1>3. net \in [Agents -> Seq(Report)] /\ record \in [Agents -> Record]
  BY DEF Shape, NetShape, RecordShape
<1>4. /\ net[a][1] = rpt /\ Len(net'[a]) = Len(net[a]) - 1
      /\ \A i \in 1 .. Len(net'[a]) : net'[a][i] = net[a][i + 1]
  <2>1. PICK q \in Seq(Report) : q = net[a] /\ q # <<>> /\ net'[a] = Tail(q)
    BY <1>2, <1>3
  <2>2. Head(q) = q[1] /\ Len(Tail(q)) = Len(q) - 1 /\ \A i \in 1 .. Len(q) - 1 : Tail(q)[i] = q[i + 1]
    BY <2>1, HeadTailProperties
  <2>. QED  BY <1>1, <2>1, <2>2
<1>5. \A b \in Agents \ {a} : net'[b] = net[b]
  BY <1>2, <1>3
<1>6. /\ \A b \in Agents \ {a} : record'[b] = record[b]
      /\ \/ /\ record[a] = NoRecord /\ master' = "up"
            /\ \/ Cardinality(Known) < Capacity /\ record'[a] = Added(rpt)
               \/ ~(Cardinality(Known) < Capacity) /\ record'[a] = NoRecord
         \/ /\ record[a] # NoRecord /\ RateKeyMissing(record[a], rpt)
            /\ master' = "crashed" /\ record'[a] = record[a]
         \/ /\ record[a] # NoRecord /\ ~RateKeyMissing(record[a], rpt)
            /\ master' = "up" /\ record'[a] = Merge(record[a], rpt)
  <2>0. a \in Known <=> record[a] # NoRecord
    BY DEF Known
  <2>. DEFINE full == ~(Cardinality(Known) < Capacity)
  <2>1. \/ /\ record[a] = NoRecord /\ ~full /\ record' = [record EXCEPT ![a] = Added(rpt)] /\ master' = master
        \/ /\ record[a] = NoRecord /\ full /\ record' = record /\ master' = master
        \/ /\ record[a] # NoRecord /\ RateKeyMissing(record[a], rpt)
           /\ master' = "crashed" /\ record' = record
        \/ /\ record[a] # NoRecord /\ ~RateKeyMissing(record[a], rpt)
           /\ record' = [record EXCEPT ![a] = Merge(record[a], rpt)] /\ master' = master
    BY <1>1, <2>0, ApplyCases
  <2>. HIDE DEF full
  <2>2. \/ /\ record[a] = NoRecord /\ ~full /\ record'[a] = Added(rpt) /\ master' = master
        \/ /\ record[a] = NoRecord /\ full /\ record'[a] = record[a] /\ master' = master
        \/ /\ record[a] # NoRecord /\ RateKeyMissing(record[a], rpt)
           /\ master' = "crashed" /\ record'[a] = record[a]
        \/ /\ record[a] # NoRecord /\ ~RateKeyMissing(record[a], rpt)
           /\ record'[a] = Merge(record[a], rpt) /\ master' = master
    BY <1>3, <2>1
  <2>3. \A b \in Agents \ {a} : record'[b] = record[b]
    BY <1>3, <2>1
  <2>. QED  BY <1>2, <2>2, <2>3 DEF full
<1>7. Applied(a)
  BY <1>2, <1>4, <1>6 DEF Applied, SameConfig, SameCounters, SameRecord
<1>8. \A b \in Agents \ {a} : Idle(b)
  BY <1>2, <1>5, <1>6 DEF Idle, SameConfig, SameCounters, SameRecord
<1>. QED  BY <1>7, <1>8

\* Every step is one of these to every agent; no report is found again.
LEMMA AgentSteps ==
  ASSUME Shape, [Next]_vars
  PROVE  (\A a \in Agents : AgentStep(a)) /\ lost <= lost'
<1>. USE DEF Shape
<1>1. ASSUME NEW a \in Agents, SendReport(a) PROVE (\A b \in Agents : AgentStep(b)) /\ lost <= lost'
  BY <1>1, SentStep DEF AgentStep, Sent, RecordShape
<1>2. ASSUME NEW a \in Agents, FailPoll(a) PROVE (\A b \in Agents : AgentStep(b)) /\ lost <= lost'
  <2>1. /\ UNCHANGED <<file, mult, pollcount, polls, run, since, net, record, lost>>
        /\ daemon' = [daemon EXCEPT ![a] = "fault"] /\ PollFaults(mult[a])
    BY <1>2 DEF FailPoll, PollFault, config, recordVars
  <2>2. Failed(a)
    BY <2>1 DEF Failed, SameConfig, SameCounters, SameRecord, CounterShape
  <2>3. \A b \in Agents \ {a} : Idle(b)
    BY <2>1 DEF Idle, SameConfig, SameCounters, SameRecord, CounterShape
  <2>. QED  BY <2>1, <2>2, <2>3 DEF AgentStep, RecordShape
<1>3. ASSUME NEW a \in Agents, UseDevice(a) PROVE (\A b \in Agents : AgentStep(b)) /\ lost <= lost'
  <2>1. PICK s \in DevSection : \E d \in DevsOf(a, s) : Activate(a, s, d)
    BY <1>3 DEF UseDevice
  <2>2. PICK d \in DevsOf(a, s) : Activate(a, s, d)
    BY <2>1
  <2>3. UNCHANGED <<file, mult, daemon, pollcount, polls, run, net, record, lost>>
    BY <1>3, <2>2 DEF UseDevice, Activate, config, recordVars
  <2>4. PICK f : /\ f = [e \in DOMAIN since[a][s] \cup {d} |-> IF e = d THEN polls[a] ELSE since[a][s][e]]
                 /\ since' = [since EXCEPT ![a][s] = f]
    BY <2>2 DEF Activate
  <2>5. /\ since'[a] = [since[a] EXCEPT ![s] = f]
        /\ \A b \in Agents \ {a} : since'[b] = since[b]
    BY <2>4 DEF SinceShape
  <2>6. d \in DevsOf(a, s) \ DOMAIN since[a][s]
    BY <2>2 DEF Activate
  <2>7. Used(a)
    BY <2>3, <2>4, <2>5, <2>6, ZenonT(30) DEF Used, SameConfig, SameCounters, SameRecord
  <2>8. \A b \in Agents \ {a} : Idle(b)
    BY <2>3, <2>5 DEF Idle, SameConfig, SameCounters, SameRecord
  <2>. QED  BY <2>3, <2>7, <2>8 DEF AgentStep, RecordShape
<1>4. ASSUME NEW a \in Agents, Restart(a) PROVE (\A b \in Agents : AgentStep(b)) /\ lost <= lost'
  <2>1. PICK m \in Configured(file[a]) : mult' = [mult EXCEPT ![a] = m]
    BY <1>4 DEF Restart, RestartAgent
  <2>2. /\ UNCHANGED <<file, polls, since, net, record, lost>>
        /\ daemon' = [daemon EXCEPT ![a] = "up"] /\ pollcount' = [pollcount EXCEPT ![a] = 0]
        /\ run' = [run EXCEPT ![a] = 0]
    BY <1>4 DEF Restart, RestartAgent, recordVars
  <2>3. Restarted(a)
    BY <2>1, <2>2 DEF Restarted, SameRecord, CounterShape, ConfigShape
  <2>4. \A b \in Agents \ {a} : Idle(b)
    BY <2>1, <2>2 DEF Idle, SameConfig, SameCounters, SameRecord, CounterShape, ConfigShape
  <2>. QED  BY <2>2, <2>3, <2>4 DEF AgentStep, RecordShape
<1>5. ASSUME NEW a \in Agents, ApplyReport(a) PROVE (\A b \in Agents : AgentStep(b)) /\ lost <= lost'
  BY <1>5, AppliedStep, ApplyCases DEF AgentStep, RecordShape
<1>6. CASE Tick
  BY <1>6 DEF Tick, agentVars, config, recordVars, AgentStep, Idle, SameConfig, SameCounters, SameRecord, RecordShape
<1>7. CASE UNCHANGED vars
  BY <1>7 DEF vars, agentVars, config, AgentStep, Idle, SameConfig, SameCounters, SameRecord, RecordShape
<1>. QED  BY <1>1, <1>2, <1>3, <1>4, <1>5, <1>6, <1>7 DEF Next

-----------------------------------------------------------------------------
(* Invariants about one agent. *)

\* The reports on the channel are in the order of their polls, none is older than
\* the record, and no section of the record is younger than the record.
Ordered(a) ==
  /\ record[a].ts <= polls[a]
  /\ \A s \in Section : record[a].at[s] <= record[a].ts
  /\ \A i \in 1 .. Len(net[a]) : record[a].ts <= net[a][i].poll /\ net[a][i].poll <= polls[a]
  /\ \A i, j \in 1 .. Len(net[a]) : i <= j => net[a][i].poll <= net[a][j].poll

\* A record has the sections that rates are taken from either from its last report
\* or not at all; its rates were taken from such sections.
InStep(a) ==
  /\ \A k \in RateKeys : record[a].at[k] \in {0, record[a].ts}
  /\ \A r \in record[a].rates : r.sampled = r.over

\* What the fields of an agent's state are.
LEMMA Fields ==
  ASSUME Shape, NEW a \in Agents
  PROVE  /\ polls[a] \in Nat /\ run[a] \in Nat /\ pollcount[a] \in Nat
         /\ record[a] \in Record /\ record[a].ts \in Nat
         /\ record[a].at \in [Section -> Nat]
         /\ \A s \in Section : record[a].at[s] \in Nat
         /\ net[a] \in Seq(Report) /\ Len(net[a]) \in Nat
         /\ \A i \in 1 .. Len(net[a]) : net[a][i] \in Report /\ net[a][i].poll \in Nat \ {0}
<1>1. /\ polls[a] \in Nat /\ run[a] \in Nat /\ pollcount[a] \in Nat
      /\ record[a] \in Record /\ net[a] \in Seq(Report)
  BY DEF Shape, CounterShape, NetShape, RecordShape
<1>2. record[a].ts \in Nat /\ record[a].at \in [Section -> Nat]
  BY <1>1 DEF Record
<1>3. Len(net[a]) \in Nat /\ \A i \in 1 .. Len(net[a]) : net[a][i] \in Report
  BY <1>1
<1>4. \A i \in 1 .. Len(net[a]) : net[a][i].poll \in Nat \ {0}
  BY <1>3 DEF Report
<1>. QED  BY <1>1, <1>2, <1>3, <1>4

\* The same of the next state.
LEMMA FieldsNext ==
  ASSUME Shape', NEW a \in Agents
  PROVE  /\ polls'[a] \in Nat /\ run'[a] \in Nat
         /\ record'[a] \in Record /\ record'[a].ts \in Nat
         /\ \A s \in Section : record'[a].at[s] \in Nat
         /\ net'[a] \in Seq(Report) /\ Len(net'[a]) \in Nat
         /\ \A i \in 1 .. Len(net'[a]) : net'[a][i] \in Report /\ net'[a][i].poll \in Nat \ {0}
<1>1. /\ polls'[a] \in Nat /\ run'[a] \in Nat
      /\ record'[a] \in Record /\ net'[a] \in Seq(Report)
  BY DEF Shape, CounterShape, NetShape, RecordShape
<1>2. record'[a].ts \in Nat /\ \A s \in Section : record'[a].at[s] \in Nat
  BY <1>1 DEF Record
<1>3. Len(net'[a]) \in Nat /\ \A i \in 1 .. Len(net'[a]) : net'[a][i] \in Report
  BY <1>1
<1>4. \A i \in 1 .. Len(net'[a]) : net'[a][i].poll \in Nat \ {0}
  BY <1>3 DEF Report
<1>. QED  BY <1>1, <1>2, <1>3, <1>4

\* The rate sections are sections.
LEMMA RateKeysInSection == RateKeys \subseteq Section
BY DEF RateKeys, Section, SwitchOf

\* Ordered is kept by every step.
LEMMA OrderedStep ==
  ASSUME Shape, Shape', NEW a \in Agents, AgentStep(a), Ordered(a)
  PROVE  Ordered(a)'
<1>. USE Fields
<1>1. CASE Idle(a) \/ Failed(a) \/ Used(a) \/ Restarted(a)
  <2>1. UNCHANGED <<record[a], polls[a], net[a]>>
    BY <1>1 DEF Idle, Failed, Used, Restarted, SameRecord, SameCounters
  <2>. QED  BY <2>1 DEF Ordered
<1>2. CASE Sent(a)
  <2>1. NextReport(a).poll = polls[a] + 1
    BY NextReportType
  <2>2. /\ polls'[a] = polls[a] + 1 /\ record'[a] = record[a] /\ Len(net[a]) <= Len(net'[a])
        /\ \A i \in 1 .. Len(net[a]) : net'[a][i] = net[a][i]
        /\ \A i \in Len(net[a]) + 1 .. Len(net'[a]) : net'[a][i] = NextReport(a)
    BY <1>2 DEF Sent, SameRecord
  <2>3. Len(net[a]) \in Nat /\ Len(net'[a]) \in Nat
    OBVIOUS
  <2>4. \A i \in 1 .. Len(net'[a]) :
          \/ i <= Len(net[a]) /\ net'[a][i].poll = net[a][i].poll
          \/ i > Len(net[a]) /\ net'[a][i].poll = polls[a] + 1
    <3>. TAKE i \in 1 .. Len(net'[a])
    <3>1. \/ i \in 1 .. Len(net[a]) /\ i <= Len(net[a])
          \/ i \in Len(net[a]) + 1 .. Len(net'[a]) /\ i > Len(net[a])
      BY <2>3
    <3>. QED  BY <2>1, <2>2, <3>1
  <2>5. \A i \in 1 .. Len(net'[a]) : record[a].ts <= net'[a][i].poll /\ net'[a][i].poll <= polls[a] + 1
    <3>. TAKE i \in 1 .. Len(net'[a])
    <3>1. CASE i <= Len(net[a])
      <4>1. i \in 1 .. Len(net[a]) /\ net'[a][i].poll = net[a][i].poll
        BY <2>3, <2>4, <3>1
      <4>2. record[a].ts <= net[a][i].poll /\ net[a][i].poll <= polls[a]
        BY <4>1 DEF Ordered
      <4>. QED  BY <4>1, <4>2
    <3>2. CASE i > Len(net[a])
      BY <2>3, <2>4, <3>2, SMTT(30) DEF Ordered
    <3>. QED  BY <2>3, <3>1, <3>2
  <2>6. \A i, j \in 1 .. Len(net'[a]) : i <= j => net'[a][i].poll <= net'[a][j].poll
    <3>. TAKE i, j \in 1 .. Len(net'[a])
    <3>1. CASE i <= Len(net[a]) /\ j <= Len(net[a])
      <4>1. i \in 1 .. Len(net[a]) /\ j \in 1 .. Len(net[a])
        BY <2>3, <3>1
      <4>2. net'[a][i].poll = net[a][i].poll /\ net'[a][j].poll = net[a][j].poll
        BY <2>2, <4>1
      <4>. QED  BY <4>1, <4>2 DEF Ordered
    <3>2. CASE i <= Len(net[a]) /\ j > Len(net[a])
      <4>1. i \in 1 .. Len(net[a])
        BY <2>3, <3>2
      <4>2. net'[a][i].poll <= polls[a] /\ net'[a][j].poll = polls[a] + 1
        BY <2>2, <2>3, <2>4, <3>2, <4>1, SMTT(30) DEF Ordered
      <4>. QED  BY <2>2, <4>1, <4>2, SMTT(30)
    <3>3. CASE i > Len(net[a])
      BY <2>3, <2>4, <3>3
    <3>. QED  BY <2>3, <3>1, <3>2, <3>3
  <2>7. record[a].ts <= polls[a] + 1
    BY DEF Ordered
  <2>. QED  BY <2>2, <2>5, <2>6, <2>7 DEF Ordered
<1>3. CASE Applied(a)
  <2>. DEFINE rpt == net[a][1]
  <2>1. /\ polls'[a] = polls[a] /\ Len(net'[a]) = Len(net[a]) - 1 /\ net[a] # <<>>
        /\ \A i \in 1 .. Len(net'[a]) : net'[a][i] = net[a][i + 1]
    BY <1>3 DEF Applied, SameCounters
  <2>2. Len(net[a]) \in Nat \ {0}
    BY <2>1, Fields, EmptySeq
  <2>3. record[a].ts <= rpt.poll /\ rpt.poll <= polls[a]
        /\ \A i \in 1 .. Len(net'[a]) : rpt.poll <= net'[a][i].poll /\ net'[a][i].poll <= polls[a]
    BY <2>1, <2>2, SMTT(30) DEF Ordered
  <2>4. \A i, j \in 1 .. Len(net'[a]) : i <= j => net'[a][i].poll <= net'[a][j].poll
    <3>1. ASSUME NEW i \in 1 .. Len(net'[a]), NEW j \in 1 .. Len(net'[a]), i <= j
          PROVE  net'[a][i].poll <= net'[a][j].poll
      <4>1. i + 1 \in 1 .. Len(net[a]) /\ j + 1 \in 1 .. Len(net[a]) /\ i + 1 <= j + 1
        BY <2>1, <2>2, <3>1
      <4>2. net[a][i + 1].poll <= net[a][j + 1].poll
        BY <4>1 DEF Ordered
      <4>. QED  BY <2>1, <4>2
    <3>. QED  BY <3>1
  <2>5. record'[a] = record[a] \/ record'[a] = Added(rpt) \/ record'[a] = Merge(record[a], rpt)
    BY <1>3 DEF Applied, SameRecord
  <2>6. CASE record'[a] = record[a]
    BY <2>1, <2>3, <2>4, <2>6 DEF Ordered
  <2>7. CASE record'[a] = Added(rpt)
    <3>1. record'[a].ts = rpt.poll /\ \A s \in Section : record'[a].at[s] \in {0, rpt.poll}
      BY <2>7 DEF Added
    <3>2. record'[a].ts <= polls'[a]
      BY <2>1, <2>3, <3>1
    <3>3. \A s \in Section : record'[a].at[s] <= record'[a].ts
      <4>. TAKE s \in Section
      <4>1. record[a].at[s] <= record[a].ts
        BY DEF Ordered
      <4>2. record[a].at[s] \in Nat /\ record[a].ts \in Nat /\ rpt.poll \in Nat /\ record[a].ts <= rpt.poll
        BY <2>1, <2>2, <2>3
      <4>. HIDE DEF rpt
      <4>. QED  BY <3>1, <4>1, <4>2
    <3>4. \A i \in 1 .. Len(net'[a]) : record'[a].ts <= net'[a][i].poll /\ net'[a][i].poll <= polls'[a]
      BY <2>1, <2>3, <3>1
    <3>. QED  BY <2>4, <3>2, <3>3, <3>4 DEF Ordered
  <2>8. CASE record'[a] = Merge(record[a], rpt)
    <3>1. record'[a].ts = rpt.poll /\ \A s \in Section : record'[a].at[s] \in {record[a].at[s], rpt.poll}
      BY <2>8 DEF Merge
    <3>2. record'[a].ts <= polls'[a]
      BY <2>1, <2>3, <3>1
    <3>3. \A s \in Section : record'[a].at[s] <= record'[a].ts
      <4>. TAKE s \in Section
      <4>1. record[a].at[s] <= record[a].ts
        BY DEF Ordered
      <4>2. record[a].at[s] \in Nat /\ record[a].ts \in Nat /\ rpt.poll \in Nat /\ record[a].ts <= rpt.poll
        BY <2>1, <2>2, <2>3
      <4>. HIDE DEF rpt
      <4>. QED  BY <3>1, <4>1, <4>2
    <3>4. \A i \in 1 .. Len(net'[a]) : record'[a].ts <= net'[a][i].poll /\ net'[a][i].poll <= polls'[a]
      BY <2>1, <2>3, <3>1
    <3>. QED  BY <2>4, <3>2, <3>3, <3>4 DEF Ordered
  <2>. QED  BY <2>5, <2>6, <2>7, <2>8
<1>. QED  BY <1>1, <1>2, <1>3 DEF AgentStep

\* InStep is kept by every step: where a rate section is missing, get_rates does not
\* return.
LEMMA InStepStep ==
  ASSUME Shape, Shape', NEW a \in Agents, AgentStep(a), InStep(a)
  PROVE  InStep(a)'
<1>. USE Fields, RateKeysInSection
<1>1. CASE record'[a] = record[a]
  BY <1>1 DEF InStep
<1>2. CASE record'[a] # record[a]
  <2>. DEFINE rpt == net[a][1]
  <2>1. \/ record'[a] = Added(rpt)
        \/ ~RateKeyMissing(record[a], rpt) /\ record'[a] = Merge(record[a], rpt)
    BY <1>2 DEF AgentStep, Idle, Sent, Failed, Used, Restarted, SameRecord, Applied
  <2>2. CASE record'[a] = Added(rpt)
    <3>1. /\ record'[a].ts = rpt.poll /\ record'[a].rates = {}
          /\ \A s \in Section : record'[a].at[s] \in {0, rpt.poll}
      BY <2>2 DEF Added
    <3>. QED  BY <3>1 DEF InStep
  <2>3. CASE ~RateKeyMissing(record[a], rpt) /\ record'[a] = Merge(record[a], rpt)
    <3>1. \A k \in RateKeys : record[a].at[k] = record[a].ts /\ k \in rpt.sections
      BY <2>3 DEF RateKeyMissing, InStep
    <3>2. /\ record'[a].ts = rpt.poll /\ record'[a].rates = Rates(record[a], rpt)
          /\ \A k \in RateKeys : record'[a].at[k] = rpt.poll
      BY <2>3, <3>1 DEF Merge
    <3>3. \A r \in Rates(record[a], rpt) : r.sampled = r.over
      BY <3>1 DEF Rates
    <3>. QED  BY <3>2, <3>3 DEF InStep
  <2>. QED  BY <2>1, <2>2, <2>3
<1>. QED  BY <1>1, <1>2

-----------------------------------------------------------------------------
(* Freshness. *)

\* Division with remainder.
LEMMA Remainder ==
  ASSUME NEW r \in Nat, NEW P \in Nat \ {0}
  PROVE  (r % P) \in 0 .. P - 1 /\ \E q \in Nat : r = (P * q) + (r % P)
<1>1. r = (P * (r \div P)) + (r % P)
  OBVIOUS
<1>2. r \div P \in Nat /\ (r % P) \in 0 .. P - 1
  OBVIOUS
<1>. QED  BY <1>1, <1>2

\* And back.
LEMMA RemainderIs ==
  ASSUME NEW P \in Nat \ {0}, NEW q \in Int, NEW b \in 0 .. P - 1
  PROVE  (P * q + b) % P = b
OBVIOUS

\* A number that is not a multiple has the next remainder.
LEMMA RemainderStep ==
  ASSUME NEW r \in Nat, NEW P \in Nat \ {0}, r % P # 0
  PROVE  r >= 1 /\ r % P = ((r - 1) % P) + 1
<1>1. PICK q \in Nat, b \in 0 .. P - 1 : b = r % P /\ r = (P * q) + b
  BY Remainder
<1>2. r - 1 = (P * q) + (b - 1) /\ b - 1 \in 0 .. P - 1 /\ r >= 1
  BY <1>1
<1>3. (r - 1) % P = b - 1
  BY <1>2, RemainderIs
<1>. QED  BY <1>1, <1>2, <1>3

\* The remainder of a multiple.
LEMMA Multiple == ASSUME NEW q \in Int, NEW m \in Nat \ {0}  PROVE (m * q) % m = 0
OBVIOUS

\* Twice a multiple of a number, or of half of it.
LEMMA TwiceMultiple ==
  ASSUME NEW r \in Nat, NEW m \in Nat \ {0}, NEW P \in Nat \ {0}, 2 * P = m \/ P = m, r % P = 0
  PROVE  (2 * r) % m = 0
<1>1. PICK q \in Nat : r = (P * q) + (r % P)
  BY Remainder, Zenon
<1>2. r = P * q
  <2>2. (P * q) + 0 = P * q
    OBVIOUS
  <2>. QED  BY <1>1, <2>2, Zenon
<1>3. 2 * r = (2 * P) * q /\ 2 * r = P * (2 * q)
  <2>1. 2 * (P * q) = (2 * P) * q /\ 2 * (P * q) = P * (2 * q)
    OBVIOUS
  <2>. QED  BY <1>2, <2>1, Zenon
<1>5. 2 * r = m * q \/ 2 * r = m * (2 * q)
  BY <1>3, Zenon
<1>4. (m * q) % m = 0 /\ (m * (2 * q)) % m = 0
  BY Multiple
<1>. QED  BY <1>4, <1>5, Zenon


\* What a lost report more adds.
LEMMA Products ==
  ASSUME NEW P \in Nat, NEW l \in Nat, NEW k \in Nat, l <= k
  PROVE  P * l \in Nat /\ P * k \in Nat /\ P * l <= P * k /\ P * (l + 1) = (P * l) + P
OBVIOUS

\* What is younger is not older than d polls either.
LEMMA Younger ==
  ASSUME NEW p \in Nat, NEW x \in Nat, NEW y \in Nat, NEW d \in Int, x <= y, p - x <= d
  PROVE  p - y <= d
OBVIOUS

\* The master follows the agent, or has a place left for it.
Tracked(a) == a \in Known \/ Cardinality(Known) < Capacity

\* Section s is at most d polls older than poll p, in one of the first n reports q on
\* the channel or in the record rec.
Near(q, rec, s, p, n, d) ==
  \/ \E j \in 1 .. n : s \in q[j].sections /\ p - q[j].poll <= d
  \/ p - rec.at[s] <= d

\* The polls of this run since section s was due.
Age(a, s) == IF run[a] = 0 THEN Period(a, s) - 1 ELSE (run[a] - 1) % Period(a, s)

\* A period for each lost report.
Slack(a, s) == Period(a, s) * lost

FreshOn(a, s) ==
  /\ a \in Known => record[a].ts - record[a].at[s] <= (Slack(a, s) + Period(a, s)) - 1
  /\ master = "up" =>
       /\ \A i \in 1 .. Len(net[a]) :
            Near(net[a], record[a], s, net[a][i].poll, i, (Slack(a, s) + Period(a, s)) - 1)
       /\ Near(net[a], record[a], s, polls[a], Len(net[a]), Slack(a, s) + Age(a, s))

\* A multiplier of 0 stops the agent before its first poll.
Fresh(a) ==
  /\ Tracked(a) => \A s \in Scheduled(a) : Asked(a, SwitchOf[s]) >= 1 => FreshOn(a, s)
  /\ \A s \in Scheduled(a) : Asked(a, SwitchOf[s]) = 0 => polls[a] = 0 /\ record[a] = NoRecord

\* What a file asks for.
LEMMA AskedType ==
  ASSUME Shape, NEW a \in Agents, NEW s \in Scheduled(a)
  PROVE  /\ s \in Section /\ SwitchOf[s] \in Switch /\ SwitchOf[s] \in SetBy(file[a])
         /\ Asked(a, SwitchOf[s]) \in Nat
         /\ Asked(a, SwitchOf[s]) >= 1 =>
              /\ Period(a, s) \in Nat \ {0}
              /\ 2 * Period(a, s) = Asked(a, SwitchOf[s]) \/ Period(a, s) = Asked(a, SwitchOf[s])
<1>1. s \in Section /\ SwitchOf[s] \in SetBy(file[a])
  BY DEF Scheduled
<1>2. SwitchOf[s] \in Switch
  BY <1>1 DEF Section, SwitchOf, Switch
<1>3. Asked(a, SwitchOf[s]) \in Nat
  BY <1>1, AgentAssumption DEF Asked, SetBy, Shape, ConfigShape
<1>4. PICK m \in Nat : m = Asked(a, SwitchOf[s])
  BY <1>3
<1>5. m >= 1 => LET p == IF m % 2 = 0 THEN m \div 2 ELSE m
                IN p \in Nat \ {0} /\ (2 * p = m \/ p = m)
  OBVIOUS
<1>6. Period(a, s) = IF m % 2 = 0 THEN m \div 2 ELSE m
  BY <1>4 DEF Period
<1>. QED  BY <1>1, <1>2, <1>3, <1>4, <1>5, <1>6

\* A section is in the report of each poll that its period divides.
LEMMA DueSent ==
  ASSUME Shape, AsAsked, Counted, NEW a \in Agents, NEW s \in Scheduled(a), ~PollFaults(mult[a]),
         run[a] % Period(a, s) = 0
  PROVE  s \in NextReport(a).sections
<1>. DEFINE m == Asked(a, SwitchOf[s])
<1>1. m \in Nat /\ mult[a][SwitchOf[s]] = m /\ SwitchOf[s] \in Switch /\ s \in Section
  BY AskedType DEF AsAsked
<1>2. m >= 1
  BY <1>1 DEF PollFaults
<1>3. Period(a, s) \in Nat \ {0} /\ (2 * Period(a, s) = m \/ Period(a, s) = m)
  BY <1>2, AskedType
<1>4. (2 * run[a]) % m = 0
  BY <1>1, <1>2, <1>3, Fields, TwiceMultiple
<1>5. SwitchOf[s] \in PollBits(pollcount[a], mult[a])
  BY <1>1, <1>4 DEF PollBits, Counted
<1>. QED  BY <1>1, <1>5, NextReportType

\* A section stays as near while its reports and the record do, and d grows.
LEMMA NearKept ==
  ASSUME NEW q \in Seq(Report), NEW r \in Seq(Report), NEW rec \in Record, NEW new \in Record,
         NEW s \in Section, NEW p \in Nat, NEW n \in Nat, NEW k \in Nat,
         NEW d \in Int, NEW e \in Int, Near(q, rec, s, p, n, d), n <= k, d <= e, n <= Len(q),
         \A i \in 1 .. n : r[i] = q[i], new.at[s] = rec.at[s]
  PROVE  Near(r, new, s, p, k, e)
<1>1. CASE \E j \in 1 .. n : s \in q[j].sections /\ p - q[j].poll <= d
  <2>1. PICK j \in 1 .. n : s \in q[j].sections /\ p - q[j].poll <= d
    BY <1>1
  <2>2. j \in 1 .. k /\ r[j] = q[j] /\ q[j] \in Report
    BY <2>1
  <2>3. q[j].poll \in Nat
    BY <2>2 DEF Report
  <2>4. p - r[j].poll <= e
    BY <2>1, <2>2, <2>3
  <2>. QED  BY <2>1, <2>2, <2>4 DEF Near
<1>2. CASE p - rec.at[s] <= d
  <2>1. rec.at[s] \in Nat
    BY DEF Record
  <2>2. p - new.at[s] <= e
    BY <1>2, <2>1
  <2>. QED  BY <2>2 DEF Near
<1>. QED  BY <1>1, <1>2 DEF Near

\* The record takes up the report.
Absorbed(a) ==
  \/ record[a] = NoRecord /\ record'[a] = Added(net[a][1])
  \/ record'[a] = Merge(record[a], net[a][1])

\* A report that the master applies moves a section from the channel to the record.
LEMMA NearApplied ==
  ASSUME Shape, Shape', NEW a \in Agents, Ordered(a), NEW s \in Section, NEW p \in Nat, NEW n \in Nat,
         NEW d \in Int, Near(net[a], record[a], s, p, n + 1, d), n + 1 <= Len(net[a]),
         Applied(a), Absorbed(a)
  PROVE  Near(net'[a], record'[a], s, p, n, d)
<1>. DEFINE rpt == net[a][1]
<1>1. /\ rpt \in Report /\ rpt.poll \in Nat /\ record[a].at[s] \in Nat /\ record'[a].at[s] \in Nat
      /\ Len(net'[a]) = Len(net[a]) - 1 /\ \A i \in 1 .. Len(net'[a]) : net'[a][i] = net[a][i + 1]
      /\ Len(net[a]) \in Nat /\ \A i \in 1 .. Len(net[a]) : net[a][i].poll \in Nat
  <2>1. rpt \in Report
    BY DEF Applied
  <2>2. rpt.poll \in Nat
    BY <2>1 DEF Report
  <2>. QED  BY <2>1, <2>2, Fields, FieldsNext DEF Applied
<1>2. record[a].at[s] <= record'[a].at[s] /\ (s \in rpt.sections => record'[a].at[s] = rpt.poll)
  <2>1. \/ record[a] = NoRecord /\ record'[a] = Added(rpt)
        \/ record'[a] = Merge(record[a], rpt)
    BY DEF Absorbed
  <2>2. CASE record[a] = NoRecord /\ record'[a] = Added(rpt)
    BY <1>1, <2>2 DEF NoRecord, Added
  <2>3. CASE record'[a] = Merge(record[a], rpt)
    <3>1. record[a].at[s] <= rpt.poll
      <4>1. record[a].at[s] <= record[a].ts /\ record[a].ts \in Nat
        BY Fields DEF Ordered
      <4>2. record[a].ts <= rpt.poll
        BY Fields DEF Ordered
      <4>3. record[a].at[s] \in Nat /\ rpt.poll \in Nat
        BY <1>1
      <4>. QED  BY <4>1, <4>2, <4>3
    <3>. QED  BY <1>1, <2>3, <3>1 DEF Merge
  <2>. QED  BY <2>1, <2>2, <2>3
<1>3. CASE p - record[a].at[s] <= d
  <2>1. p - record'[a].at[s] <= d
    BY <1>1, <1>2, <1>3, Younger, Zenon
  <2>. QED  BY <2>1 DEF Near
<1>4. CASE \E j \in 1 .. n + 1 : s \in net[a][j].sections /\ p - net[a][j].poll <= d
  <2>1. PICK j \in 1 .. n + 1 : s \in net[a][j].sections /\ p - net[a][j].poll <= d
    BY <1>4
  <2>2. CASE j = 1
    BY <1>1, <1>2, <2>1, <2>2 DEF Near
  <2>3. CASE j # 1
    <3>1. j - 1 \in 1 .. n /\ j - 1 \in 1 .. Len(net'[a]) /\ net'[a][j - 1] = net[a][j]
      <4>1. j - 1 \in 1 .. n /\ j - 1 \in 1 .. Len(net'[a]) /\ (j - 1) + 1 = j
        BY <1>1, <2>1, <2>3, SMTT(30)
      <4>2. net'[a][j - 1] = net[a][(j - 1) + 1]
        BY <1>1, <4>1, Zenon
      <4>. QED  BY <4>1, <4>2, Zenon
    <3>. QED  BY <2>1, <3>1 DEF Near
  <2>. QED  BY <2>2, <2>3
<1>. QED  BY <1>3, <1>4 DEF Near

\* What is asked for does not change, for the file does not.
LEMMA AskedSame ==
  ASSUME NEW a \in Agents, AgentStep(a)
  PROVE  /\ Scheduled(a)' = Scheduled(a)
         /\ \A w : Asked(a, w)' = Asked(a, w)
         /\ \A s : Period(a, s)' = Period(a, s)
<1>1. file'[a] = file[a]
  BY DEF AgentStep, Idle, Sent, Failed, Used, Restarted, Applied, SameConfig
<1>2. Scheduled(a)' = Scheduled(a) /\ \A w : Asked(a, w)' = Asked(a, w)
  BY <1>1 DEF Scheduled, Asked
<1>. QED  BY <1>2 DEF Period

\* The period and what is added to it, before and after a step; how a poll's own
\* distance from the last poll the section was due at changes.
LEMMA SlackStep ==
  ASSUME Shape, Shape', NEW a \in Agents, NEW s \in Scheduled(a), Asked(a, SwitchOf[s]) >= 1,
         AgentStep(a), lost <= lost'
  PROVE  \E P \in Nat \ {0}, L \in Nat, M \in Nat :
           /\ P = Period(a, s) /\ P = Period(a, s)' /\ L = Slack(a, s) /\ M = Slack(a, s)'
           /\ L <= M /\ (lost' = lost + 1 => M = L + P)
<1>1. PICK P \in Nat \ {0} : P = Period(a, s) /\ P = Period(a, s)'
  BY AskedType, AskedSame
<1>2. PICK l \in Nat, k \in Nat : l = lost /\ k = lost' /\ l <= k
  BY DEF Shape, RecordShape
<1>3. P * l \in Nat /\ P * k \in Nat /\ P * l <= P * k /\ P * (l + 1) = (P * l) + P
  <2>1. P \in Nat /\ l \in Nat /\ k \in Nat
    OBVIOUS
  <2>2. l <= k
    BY <1>2
  <2>. QED  BY <2>1, <2>2, Products, Zenon
<1>4. Slack(a, s) = P * l /\ Slack(a, s)' = P * k
  BY <1>1, <1>2 DEF Slack
<1>5. lost' = lost + 1 => Slack(a, s)' = Slack(a, s) + P
  BY <1>2, <1>3, <1>4
<1>. QED  BY <1>1, <1>3, <1>4, <1>5

\* A section is never a whole period old.
LEMMA AgeType ==
  ASSUME Shape, NEW a \in Agents, NEW s \in Scheduled(a), Asked(a, SwitchOf[s]) >= 1
  PROVE  Age(a, s) \in 0 .. Period(a, s) - 1
<1>1. PICK P \in Nat \ {0}, r \in Nat : P = Period(a, s) /\ r = run[a]
  BY AskedType, Fields
<1>2. r # 0 => r - 1 \in Nat
  OBVIOUS
<1>3. r # 0 => (r - 1) % P \in 0 .. P - 1
  BY <1>2, Remainder
<1>. QED  BY <1>1, <1>3 DEF Age

\* A poll makes a section one poll older, unless its report has the section.
LEMMA AgeStep ==
  ASSUME Shape, AsAsked, Counted, NEW a \in Agents, NEW s \in Scheduled(a),
         Asked(a, SwitchOf[s]) >= 1, AgentStep(a), Sent(a)
  PROVE  /\ Age(a, s)' \in 0 .. Period(a, s) - 1
         /\ \/ s \in NextReport(a).sections /\ Age(a, s)' = 0
            \/ Age(a, s)' = Age(a, s) + 1
<1>1. PICK P \in Nat \ {0} : P = Period(a, s) /\ P = Period(a, s)'
  BY AskedType, AskedSame
<1>2. PICK r \in Nat : r = run[a] /\ run'[a] = r + 1
  BY Fields DEF Sent
<1>3. Age(a, s)' = r % P
  <2>1. r + 1 # 0 /\ (r + 1) - 1 = r
    OBVIOUS
  <2>. QED  BY <1>1, <1>2, <2>1 DEF Age
<1>6. r % P \in 0 .. P - 1
  BY Remainder
<1>4. CASE r % P = 0
  <2>1. s \in NextReport(a).sections
    BY <1>1, <1>2, <1>4, DueSent DEF Sent
  <2>2. Age(a, s)' = 0
    BY <1>3, <1>4
  <2>. QED  BY <1>1, <2>1, <2>2
<1>5. CASE r % P # 0
  <2>1. r >= 1 /\ r % P = ((r - 1) % P) + 1
    BY <1>5, RemainderStep
  <2>2. Age(a, s) = (r - 1) % P
    BY <1>1, <1>2, <2>1 DEF Age
  <2>3. Age(a, s)' = Age(a, s) + 1
    BY <1>3, <2>1, <2>2, Zenon
  <2>4. Age(a, s)' \in 0 .. Period(a, s) - 1
    BY <1>1, <1>3, <1>6, Zenon
  <2>. QED  BY <2>3, <2>4
<1>. QED  BY <1>1, <1>3, <1>4, <1>5, <1>6

\* A poll keeps a section fresh: it is due, or it was due less than a period ago.
LEMMA FreshOnSent ==
  ASSUME Shape, Shape', AsAsked, Counted, NEW a \in Agents, NEW s \in Scheduled(a), s \in Scheduled(a)',
         Asked(a, SwitchOf[s]) >= 1, AgentStep(a), Sent(a), FreshOn(a, s), lost <= lost'
  PROVE  FreshOn(a, s)'
<1>1. PICK P \in Nat \ {0}, L \in Nat, M \in Nat :
           /\ P = Period(a, s) /\ P = Period(a, s)' /\ L = Slack(a, s) /\ M = Slack(a, s)'
           /\ L <= M /\ (lost' = lost + 1 => M = L + P)
  BY SlackStep
<1>2. PICK A \in 0 .. P - 1, c \in 0 .. P - 1 :
           /\ A = Age(a, s) /\ c = Age(a, s)'
           /\ (s \in NextReport(a).sections /\ c = 0) \/ c = A + 1
  BY <1>1, AgeType, AgeStep
<1>7. /\ s \in Section /\ polls[a] \in Nat /\ polls'[a] = polls[a] + 1 /\ record'[a] = record[a]
      /\ NextReport(a).poll = polls[a] + 1 /\ NextReport(a) \in Report
      /\ Len(net[a]) \in Nat /\ Len(net'[a]) \in Nat /\ Len(net[a]) <= Len(net'[a])
      /\ \A i \in 1 .. Len(net[a]) : net'[a][i] = net[a][i] /\ net[a][i].poll \in Nat
      /\ \A i \in Len(net[a]) + 1 .. Len(net'[a]) : net'[a][i] = NextReport(a)
      /\ record[a].ts \in Nat /\ record[a].at[s] \in Nat
      /\ (lost' = lost /\ Len(net[a]) < Len(net'[a])) \/ lost' = lost + 1
      /\ master' = master
  BY AskedType, Fields, FieldsNext, NextReportType DEF Sent, SameRecord
<1>3. /\ (L + P) - 1 \in Int /\ (M + P) - 1 \in Int /\ (L + P) - 1 <= (M + P) - 1
      /\ L + A \in Int /\ M + c \in Int /\ M + c <= (M + P) - 1 /\ 0 <= M + c
      /\ c = A + 1 => (L + A) + 1 <= M + c
      /\ lost' = lost + 1 => (L + A) + 1 <= M + c
  BY <1>1, <1>2
<1>8. a \in Known' => record'[a].ts - record'[a].at[s] <= (M + P) - 1
  <2>1. a \in Known' => a \in Known
    BY <1>7 DEF Known
  <2>2. a \in Known => record[a].ts - record[a].at[s] <= (L + P) - 1
    BY <1>1 DEF FreshOn
  <2>3. record[a].ts - record[a].at[s] \in Int /\ record'[a] = record[a]
    BY <1>7
  <2>4. \A x \in Int : x <= (L + P) - 1 => x <= (M + P) - 1
    BY <1>3
  <2>. QED  BY <2>1, <2>2, <2>3, <2>4
\* At the new poll, the section is at most this far away in the old reports.
<1>9. ASSUME master' = "up", (L + A) + 1 <= M + c, NEW k \in Nat, Len(net[a]) <= k
      PROVE  Near(net'[a], record'[a], s, polls[a] + 1, k, M + c)
  <2>1. Near(net[a], record[a], s, polls[a], Len(net[a]), L + A)
    BY <1>1, <1>2, <1>7, <1>9 DEF FreshOn
  <2>2. Near(net[a], record[a], s, polls[a] + 1, Len(net[a]), (L + A) + 1)
    <3>1. \A x \in Nat : polls[a] - x <= L + A => (polls[a] + 1) - x <= (L + A) + 1
      BY <1>3, <1>7
    <3>. QED  BY <1>7, <2>1, <3>1 DEF Near
  <2>3. polls[a] + 1 \in Nat /\ (L + A) + 1 \in Int
    BY <1>3, <1>7, SMTT(30)
  <2>4. /\ net[a] \in Seq(Report) /\ net'[a] \in Seq(Report) /\ record[a] \in Record /\ record'[a] \in Record
        /\ Len(net[a]) \in Nat /\ \A i \in 1 .. Len(net[a]) : net'[a][i] = net[a][i]
        /\ record'[a].at[s] = record[a].at[s] /\ s \in Section /\ M + c \in Int
    BY <1>3, <1>7, Fields, FieldsNext
  <2>5. Len(net[a]) <= Len(net[a])
    BY <1>7
  <2>. QED  BY <1>9, <2>2, <2>3, <2>4, <2>5, NearKept, ZenonT(30)
<1>10. ASSUME master' = "up", NEW i \in 1 .. Len(net'[a])
       PROVE  Near(net'[a], record'[a], s, net'[a][i].poll, i, (M + P) - 1)
  <2>1. CASE i <= Len(net[a])
    <3>1. i \in 1 .. Len(net[a]) /\ i \in Nat
      BY <1>7, <2>1
    <3>2. PICK p \in Nat : p = net[a][i].poll /\ p = net'[a][i].poll
      BY <1>7, <3>1
    <3>3. Near(net[a], record[a], s, p, i, (L + P) - 1)
      BY <1>1, <1>7, <1>10, <3>1, <3>2 DEF FreshOn
    <3>4. Near(net'[a], record'[a], s, p, i, (M + P) - 1)
      <4>1. /\ net[a] \in Seq(Report) /\ net'[a] \in Seq(Report) /\ record[a] \in Record /\ record'[a] \in Record
            /\ \A j \in 1 .. i : net'[a][j] = net[a][j]
            /\ record'[a].at[s] = record[a].at[s] /\ s \in Section
        BY <1>7, <2>1, <3>1, Fields, FieldsNext
      <4>2. \A x \in Nat : p - x <= (L + P) - 1 => p - x <= (M + P) - 1
        BY <1>3
      <4>3. \A j \in 1 .. i : net[a][j].poll \in Nat
        BY <1>7, <2>1, <3>1
      <4>. QED  BY <1>7, <3>3, <4>1, <4>2, <4>3 DEF Near
    <3>. QED  BY <3>2, <3>4
  <2>2. CASE i > Len(net[a])
    <3>1. net'[a][i] = NextReport(a) /\ i \in Nat /\ Len(net[a]) <= i /\ i \in 1 .. i
      BY <1>7, <2>2
    <3>2. CASE c = A + 1
      <4>1. Near(net'[a], record'[a], s, polls[a] + 1, i, M + c)
        BY <1>3, <1>9, <1>10, <3>1, <3>2
      <4>2. net'[a][i].poll = polls[a] + 1
        BY <1>7, <3>1
      <4>3. \A x \in Nat : (polls[a] + 1) - x <= M + c => (polls[a] + 1) - x <= (M + P) - 1
        BY <1>3, <1>7
      <4>4. record'[a].at[s] \in Nat /\ \A j \in 1 .. i : net'[a][j].poll \in Nat
        <5>1. \A j \in 1 .. i : j \in 1 .. Len(net'[a])
          BY <1>7
        <5>. QED  BY <1>7, <5>1, FieldsNext
      <4>. QED  BY <4>1, <4>2, <4>3, <4>4 DEF Near
    <3>3. CASE s \in NextReport(a).sections
      <4>1. PICK x \in Nat : x = net'[a][i].poll
        BY <1>7, <3>1
      <4>2. 0 <= (M + P) - 1 /\ x - x = 0
        BY <1>3
      <4>3. net'[a][i].poll - net'[a][i].poll <= (M + P) - 1
        BY <4>1, <4>2
      <4>. QED  BY <3>1, <3>3, <4>3 DEF Near
    <3>. QED  BY <1>2, <3>2, <3>3
  <2>3. i \in Nat /\ Len(net[a]) \in Nat
    BY <1>7
  <2>4. i <= Len(net[a]) \/ i > Len(net[a])
    BY <2>3
  <2>. QED  BY <2>1, <2>2, <2>4
<1>11. ASSUME master' = "up"
       PROVE  Near(net'[a], record'[a], s, polls'[a], Len(net'[a]), M + c)
  <2>1. CASE (L + A) + 1 <= M + c
    BY <1>7, <1>9, <1>11, <2>1
  <2>2. CASE ~((L + A) + 1 <= M + c)
    <3>1. s \in NextReport(a).sections /\ Len(net[a]) < Len(net'[a])
      BY <1>2, <1>3, <1>7, <2>2
    <3>2. PICK i \in 1 .. Len(net'[a]) : i = Len(net'[a]) /\ net'[a][i] = NextReport(a)
      <4>1. Len(net'[a]) \in 1 .. Len(net'[a]) /\ Len(net'[a]) \in Len(net[a]) + 1 .. Len(net'[a])
        BY <1>7, <3>1
      <4>. QED  BY <1>7, <4>1
    <3>3. polls'[a] - net'[a][i].poll <= M + c
      BY <1>3, <1>7, <3>2
    <3>. QED  BY <3>1, <3>2, <3>3 DEF Near
  <2>. QED  BY <2>1, <2>2
<1>12. /\ a \in Known' => record'[a].ts - record'[a].at[s] <= (Slack(a, s)' + Period(a, s)') - 1
       /\ master' = "up" =>
            /\ \A i \in 1 .. Len(net'[a]) :
                 Near(net'[a], record'[a], s, net'[a][i].poll, i, (Slack(a, s)' + Period(a, s)') - 1)
            /\ Near(net'[a], record'[a], s, polls'[a], Len(net'[a]), Slack(a, s)' + Age(a, s)')
  BY <1>1, <1>2, <1>8, <1>10, <1>11, Zenon
<1>. QED  BY <1>12, Zenon DEF FreshOn

\* The array of records does not overflow, and an agent that the master does not
\* follow, with the array full, is never followed.
Bounded == IsFiniteSet(Known) /\ Cardinality(Known) <= Capacity

\* Bounded is kept by every step, a record stays, and an agent followed after a step
\* was followed before it.
LEMMA KnownStep ==
  ASSUME Shape, [Next]_vars, Bounded
  PROVE  /\ Bounded' /\ (master' = "up" => master = "up")
         /\ \A a \in Agents : a \in Known => a \in Known'
         /\ \A a \in Agents : Tracked(a)' => Tracked(a)
<1>1. CASE UNCHANGED <<record, master>>
  <2>1. Known' = Known
    BY <1>1 DEF Known
  <2>. QED  BY <1>1, <2>1 DEF Bounded, Tracked
<1>2. ASSUME NEW a \in Agents, ApplyReport(a), record' # record
      PROVE  /\ Bounded' /\ (master' = "up" => master = "up")
             /\ \A b \in Agents : b \in Known => b \in Known'
             /\ \A b \in Agents : Tracked(b)' => Tracked(b)
  <2>. DEFINE rpt == Head(net[a])
  <2>1. /\ rpt \in Report /\ master = "up"
        /\ \/ /\ a \notin Known /\ Cardinality(Known) < Capacity
              /\ record' = [record EXCEPT ![a] = Added(rpt)]
           \/ /\ a \in Known /\ record' = [record EXCEPT ![a] = Merge(@, rpt)]
    BY <1>2, ApplyCases
  <2>2. Added(rpt) # NoRecord /\ Merge(record[a], rpt) # NoRecord
    BY <2>1, RecordType, Fields
  <2>3. record \in [Agents -> Record]
    BY DEF Shape, RecordShape
  <2>4. \A b \in Agents : b # a => record'[b] = record[b]
    BY <2>1, <2>3
  <2>5. record'[a] # NoRecord
    BY <2>1, <2>2, <2>3
  <2>6. Known' = Known \cup {a}
    BY <2>4, <2>5 DEF Known
  <2>7. CASE a \in Known
    <3>1. Known' = Known
      BY <2>6, <2>7
    <3>. QED  BY <2>1, <3>1 DEF Bounded, Tracked
  <2>8. CASE a \notin Known
    <3>1. IsFiniteSet(Known') /\ Cardinality(Known') = Cardinality(Known) + 1 /\ Cardinality(Known) \in Nat
      BY <2>6, <2>8, FS_AddElement, FS_CardinalityType DEF Bounded
    <3>2. Cardinality(Known) < Capacity
      BY <2>1, <2>8
    <3>3. Bounded'
      BY <3>1, <3>2, RecordAssumption DEF Bounded
    <3>. QED  BY <2>1, <2>6, <3>2, <3>3 DEF Tracked
  <2>. QED  BY <2>7, <2>8
<1>3. ASSUME NEW a \in Agents, ApplyReport(a), record' = record
      PROVE  /\ Bounded' /\ (master' = "up" => master = "up")
             /\ \A b \in Agents : b \in Known => b \in Known'
             /\ \A b \in Agents : Tracked(b)' => Tracked(b)
  <2>1. Known' = Known
    BY <1>3 DEF Known
  <2>. QED  BY <1>3, <2>1 DEF Bounded, Tracked, ApplyReport
<1>4. ASSUME NEW a \in Agents, SendReport(a) \/ FailPoll(a) \/ UseDevice(a) \/ Restart(a)
      PROVE  UNCHANGED <<record, master>>
  BY <1>4 DEF SendReport, FailPoll, UseDevice, Restart, recordVars
<1>5. Tick => UNCHANGED <<record, master>>
  BY DEF Tick, recordVars
<1>6. UNCHANGED vars => UNCHANGED <<record, master>>
  BY DEF vars
<1>. QED  BY <1>1, <1>2, <1>3, <1>4, <1>5, <1>6 DEF Next

\* A section stays fresh while nothing is polled or applied.
LEMMA FreshOnOther ==
  ASSUME Shape, Shape', NEW a \in Agents, NEW s \in Scheduled(a), Asked(a, SwitchOf[s]) >= 1,
         AgentStep(a), FreshOn(a, s), lost <= lost', master' = "up" => master = "up",
         Idle(a) \/ Failed(a) \/ Used(a) \/ Restarted(a)
  PROVE  FreshOn(a, s)'
<1>1. PICK P \in Nat \ {0}, L \in Nat, M \in Nat :
           P = Period(a, s) /\ P = Period(a, s)' /\ L = Slack(a, s) /\ M = Slack(a, s)' /\ L <= M
  BY SlackStep
<1>2. PICK A \in 0 .. P - 1, c \in 0 .. P - 1 : A = Age(a, s) /\ c = Age(a, s)' /\ A <= c
  <2>1. Age(a, s) \in 0 .. P - 1
    BY <1>1, AgeType
  <2>2. CASE run'[a] = run[a]
    BY <1>1, <2>1, <2>2 DEF Age
  <2>3. CASE run'[a] = 0
    <3>1. Age(a, s)' = P - 1
      BY <1>1, <2>3 DEF Age
    <3>. QED  BY <2>1, <3>1
  <2>. QED  BY <2>2, <2>3 DEF Idle, Failed, Used, Restarted, SameCounters
<1>3. net'[a] = net[a] /\ record'[a] = record[a] /\ polls'[a] = polls[a]
  BY DEF Idle, Failed, Used, Restarted, SameCounters, SameRecord
<1>4. /\ s \in Section /\ Len(net[a]) \in Nat /\ polls[a] \in Nat
      /\ record[a].ts \in Nat /\ record[a].at[s] \in Nat
      /\ \A i \in 1 .. Len(net[a]) : net[a][i].poll \in Nat
  BY AskedType, Fields
<1>5. /\ \A x \in Int : x <= (L + P) - 1 => x <= (M + P) - 1
      /\ \A x \in Int : x <= L + A => x <= M + c
  BY <1>1, <1>2
<1>6. a \in Known' => record'[a].ts - record'[a].at[s] <= (M + P) - 1
  <2>1. a \in Known' => a \in Known
    BY <1>3 DEF Known
  <2>2. a \in Known => record[a].ts - record[a].at[s] <= (L + P) - 1
    BY <1>1 DEF FreshOn
  <2>3. record[a].ts - record[a].at[s] \in Int
    BY <1>4
  <2>. QED  BY <1>3, <1>5, <2>1, <2>2, <2>3
<1>7. ASSUME master' = "up", NEW i \in 1 .. Len(net'[a])
      PROVE  Near(net'[a], record'[a], s, net'[a][i].poll, i, (M + P) - 1)
  <2>1. Near(net[a], record[a], s, net[a][i].poll, i, (L + P) - 1)
    BY <1>1, <1>3, <1>7 DEF FreshOn
  <2>2. i \in 1 .. Len(net[a]) /\ \A j \in 1 .. i : j \in 1 .. Len(net[a])
    BY <1>3, <1>4
  <2>3. \A j \in 1 .. i : net[a][i].poll - net[a][j].poll \in Int
    <3>1. \A x, y \in Nat : x - y \in Int
      OBVIOUS
    <3>. QED  BY <1>4, <2>2, <3>1, Zenon
  <2>4. net[a][i].poll - record[a].at[s] \in Int
    BY <1>4, <2>2
  <2>. QED  BY <1>3, <1>5, <2>1, <2>3, <2>4 DEF Near
<1>8. ASSUME master' = "up"
      PROVE  Near(net'[a], record'[a], s, polls'[a], Len(net'[a]), M + c)
  <2>1. Near(net[a], record[a], s, polls[a], Len(net[a]), L + A)
    BY <1>1, <1>2, <1>8 DEF FreshOn
  <2>2. /\ \A j \in 1 .. Len(net[a]) : polls[a] - net[a][j].poll \in Int
        /\ polls[a] - record[a].at[s] \in Int
    <3>1. \A x, y \in Nat : x - y \in Int
      OBVIOUS
    <3>. QED  BY <1>4, <3>1, Zenon
  <2>. QED  BY <1>3, <1>5, <2>1, <2>2 DEF Near
<1>12. /\ a \in Known' => record'[a].ts - record'[a].at[s] <= (Slack(a, s)' + Period(a, s)') - 1
       /\ master' = "up" =>
            /\ \A i \in 1 .. Len(net'[a]) :
                 Near(net'[a], record'[a], s, net'[a][i].poll, i, (Slack(a, s)' + Period(a, s)') - 1)
            /\ Near(net'[a], record'[a], s, polls'[a], Len(net'[a]), Slack(a, s)' + Age(a, s)')
  BY <1>1, <1>2, <1>6, <1>7, <1>8, Zenon
<1>. QED  BY <1>12, Zenon DEF FreshOn

\* It stays fresh when a report is applied.
LEMMA FreshOnApplied ==
  ASSUME Shape, Shape', NEW a \in Agents, NEW s \in Scheduled(a), Asked(a, SwitchOf[s]) >= 1,
         AgentStep(a), Ordered(a), FreshOn(a, s), lost <= lost', Applied(a),
         Tracked(a) /\ (a \in Known' \/ Cardinality(Known) < Capacity)
  PROVE  FreshOn(a, s)'
<1>1. PICK P \in Nat \ {0}, L \in Nat, M \in Nat :
           P = Period(a, s) /\ P = Period(a, s)' /\ L = Slack(a, s) /\ M = Slack(a, s)' /\ L <= M
  BY SlackStep
<1>2. PICK A \in 0 .. P - 1 : A = Age(a, s) /\ A = Age(a, s)'
  BY <1>1, AgeType DEF Age, Applied, SameCounters
<1>3. /\ Len(net[a]) \in Nat \ {0} /\ Len(net'[a]) = Len(net[a]) - 1 /\ polls'[a] = polls[a] /\ polls[a] \in Nat
      /\ \A i \in 1 .. Len(net'[a]) : net'[a][i] = net[a][i + 1]
      /\ s \in Section /\ record[a].ts \in Nat /\ record[a].at[s] \in Nat /\ master = "up"
      /\ record'[a].at[s] \in Nat /\ net[a][1].poll \in Nat
      /\ \A i \in 1 .. Len(net[a]) : net[a][i].poll \in Nat
      /\ \A i \in 1 .. Len(net'[a]) : net'[a][i].poll \in Nat
  <2>1. Len(net[a]) \in Nat \ {0}
    BY Fields, EmptySeq DEF Applied
  <2>2. /\ Len(net'[a]) = Len(net[a]) - 1 /\ polls'[a] = polls[a] /\ master = "up"
        /\ \A i \in 1 .. Len(net'[a]) : net'[a][i] = net[a][i + 1]
    BY DEF Applied, SameCounters
  <2>3. /\ s \in Section /\ polls[a] \in Nat /\ record[a].ts \in Nat /\ record[a].at[s] \in Nat
        /\ \A i \in 1 .. Len(net[a]) : net[a][i].poll \in Nat
    BY AskedType, Fields
  <2>4. record'[a].at[s] \in Nat /\ \A i \in 1 .. Len(net'[a]) : net'[a][i].poll \in Nat
    BY <2>3, FieldsNext
  <2>5. net[a][1].poll \in Nat
    BY <2>1, <2>3
  <2>. QED  BY <2>1, <2>2, <2>3, <2>4, <2>5
<1>4. /\ \A x \in Int : x <= (L + P) - 1 => x <= (M + P) - 1
      /\ \A x \in Int : x <= L + A => x <= M + A
      /\ (L + P) - 1 \in Int /\ L + A \in Int
  BY <1>1, <1>2
<1>5. \A x, y \in Nat : x - y \in Int
  OBVIOUS
<1>6. a \in Known' => record'[a].ts - record'[a].at[s] <= (M + P) - 1
  <2>. SUFFICES ASSUME a \in Known' PROVE record'[a].ts - record'[a].at[s] <= (M + P) - 1
    OBVIOUS
  <2>1. CASE record'[a] = record[a]
    <3>1. a \in Known
      BY <2>1 DEF Known
    <3>2. record[a].ts - record[a].at[s] <= (L + P) - 1
      BY <1>1, <3>1 DEF FreshOn
    <3>. QED  BY <1>3, <1>4, <1>5, <2>1, <3>2
  <2>2. CASE Absorbed(a)
    <3>1. Near(net[a], record[a], s, net[a][1].poll, 1, (L + P) - 1)
      <4>1. \A i \in 1 .. Len(net[a]) : Near(net[a], record[a], s, net[a][i].poll, i, (L + P) - 1)
        BY <1>1, <1>3 DEF FreshOn
      <4>2. 1 \in 1 .. Len(net[a])
        BY <1>3
      <4>. QED  BY <4>1, <4>2
    <3>2. Near(net'[a], record'[a], s, net[a][1].poll, 0, (L + P) - 1)
      <4>1. PICK p \in Nat, n \in Nat, d \in Int :
              p = net[a][1].poll /\ n = 0 /\ n + 1 = 1 /\ d = (L + P) - 1
        BY <1>3, <1>4
      <4>2. Near(net[a], record[a], s, p, n + 1, d)
        BY <3>1, <4>1
      <4>3. s \in Section /\ n + 1 <= Len(net[a])
        BY <1>3, <4>1
      <4>4. Near(net'[a], record'[a], s, p, n, d)
        BY <2>2, <4>2, <4>3, NearApplied
      <4>. QED  BY <4>1, <4>4
    <3>3. net[a][1].poll - record'[a].at[s] <= (L + P) - 1
      BY <3>2 DEF Near
    <3>4. record'[a].ts = net[a][1].poll
      BY <2>2 DEF Absorbed, Added, Merge
    <3>. QED  BY <1>3, <1>4, <1>5, <3>3, <3>4
  <2>3. record'[a] = record[a] \/ Absorbed(a)
    BY DEF Applied, SameRecord, Absorbed
  <2>. QED  BY <2>1, <2>2, <2>3
<1>7. master' = "up" => Absorbed(a)
  <2>1. a \in Known => record[a] # NoRecord
    BY DEF Known
  <2>2. a \in Known' => record'[a] # NoRecord
    BY DEF Known
  <2>. QED  BY <2>1, <2>2 DEF Applied, Absorbed
<1>8. ASSUME master' = "up", NEW i \in 1 .. Len(net'[a])
      PROVE  Near(net'[a], record'[a], s, net'[a][i].poll, i, (M + P) - 1)
  <2>1. i \in Nat /\ i + 1 \in 1 .. Len(net[a]) /\ net'[a][i] = net[a][i + 1]
    <3>1. Len(net[a]) \in Nat /\ Len(net'[a]) = Len(net[a]) - 1 /\ net'[a][i] = net[a][i + 1]
      BY <1>3
    <3>. QED  BY <3>1
  <2>2. PICK p \in Nat : p = net'[a][i].poll /\ p = net[a][i + 1].poll
    BY <1>3, <2>1
  <2>3. Near(net[a], record[a], s, p, i + 1, (L + P) - 1)
    BY <1>1, <1>3, <2>1, <2>2 DEF FreshOn
  <2>4. Near(net'[a], record'[a], s, p, i, (L + P) - 1)
    BY <1>3, <1>4, <1>7, <1>8, <2>1, <2>3, NearApplied
  <2>5. \A j \in 1 .. i : p - net'[a][j].poll \in Int
    <3>1. \A j \in 1 .. i : j \in 1 .. Len(net'[a])
      BY <1>3
    <3>. QED  BY <1>3, <1>5, <3>1
  <2>6. p - record'[a].at[s] \in Int
    BY <1>3, <1>5
  <2>. QED  BY <1>4, <2>2, <2>4, <2>5, <2>6 DEF Near
<1>9. ASSUME master' = "up"
      PROVE  Near(net'[a], record'[a], s, polls'[a], Len(net'[a]), M + A)
  <2>1. Near(net[a], record[a], s, polls[a], Len(net[a]), L + A)
    BY <1>1, <1>2, <1>3 DEF FreshOn
  <2>2. PICK n \in Nat : n = Len(net'[a]) /\ n + 1 = Len(net[a])
    BY <1>3
  <2>3. Near(net'[a], record'[a], s, polls[a], n, L + A)
    BY <1>3, <1>4, <1>7, <1>9, <2>1, <2>2, NearApplied
  <2>4. \A j \in 1 .. n : polls[a] - net'[a][j].poll \in Int
    BY <1>3, <1>5, <2>2
  <2>5. polls[a] - record'[a].at[s] \in Int
    BY <1>3, <1>5
  <2>. QED  BY <1>3, <1>4, <2>2, <2>3, <2>4, <2>5 DEF Near
<1>12. /\ a \in Known' => record'[a].ts - record'[a].at[s] <= (Slack(a, s)' + Period(a, s)') - 1
       /\ master' = "up" =>
            /\ \A i \in 1 .. Len(net'[a]) :
                 Near(net'[a], record'[a], s, net'[a][i].poll, i, (Slack(a, s)' + Period(a, s)') - 1)
            /\ Near(net'[a], record'[a], s, polls'[a], Len(net'[a]), Slack(a, s)' + Age(a, s)')
  BY <1>1, <1>2, <1>6, <1>8, <1>9, Zenon
<1>. QED  BY <1>12, Zenon DEF FreshOn

\* Fresh is kept by every step.
LEMMA FreshStep ==
  ASSUME Shape, Shape', AsAsked, Counted, NEW a \in Agents, AgentStep(a), Ordered(a), Fresh(a),
         lost <= lost', master' = "up" => master = "up", Tracked(a)' => Tracked(a)
  PROVE  Fresh(a)'
<1>1. Scheduled(a)' = Scheduled(a) /\ \A w : Asked(a, w)' = Asked(a, w)
  BY AskedSame
<1>2. ASSUME Tracked(a)', NEW s \in Scheduled(a), Asked(a, SwitchOf[s]) >= 1 PROVE FreshOn(a, s)'
  <2>1. FreshOn(a, s) /\ Tracked(a)
    BY <1>2 DEF Fresh
  <2>2. CASE Sent(a)
    BY <1>1, <1>2, <2>1, <2>2, FreshOnSent
  <2>3. CASE Applied(a)
    <3>1. a \in Known' \/ Cardinality(Known) < Capacity
      <4>1. CASE a \in Known
        <5>1. record[a] # NoRecord /\ record[a] \in Record
          BY <4>1, Fields DEF Known
        <5>2. net[a][1] \in Report
          BY <2>3 DEF Applied
        <5>3. record'[a] # NoRecord
          BY <2>3, <5>1, <5>2, RecordType DEF Applied, SameRecord
        <5>. QED  BY <5>3 DEF Known
      <4>. QED  BY <2>1, <4>1 DEF Tracked
    <3>. QED  BY <1>2, <2>1, <2>3, <3>1, FreshOnApplied
  <2>4. CASE Idle(a) \/ Failed(a) \/ Used(a) \/ Restarted(a)
    BY <1>2, <2>1, <2>4, FreshOnOther
  <2>. QED  BY <2>2, <2>3, <2>4 DEF AgentStep
<1>3. ASSUME NEW s \in Scheduled(a), Asked(a, SwitchOf[s]) = 0
      PROVE  polls'[a] = 0 /\ record'[a] = NoRecord
  <2>1. polls[a] = 0 /\ record[a] = NoRecord
    BY <1>3 DEF Fresh
  <2>2. ~Sent(a)
    <3>1. mult[a][SwitchOf[s]] = 0 /\ SwitchOf[s] \in Switch
      BY <1>3, AskedType DEF AsAsked
    <3>. QED  BY <3>1 DEF Sent, PollFaults
  <2>3. ~Applied(a)
    <3>1. SUFFICES ASSUME net[a] # <<>> PROVE FALSE
      BY DEF Applied
    <3>2. 1 \in 1 .. Len(net[a])
      BY <3>1, Fields, EmptySeq
    <3>. QED  BY <2>1, <3>2, Fields DEF Ordered
  <2>. QED  BY <2>1, <2>2, <2>3 DEF AgentStep, Idle, Failed, Used, Restarted, SameRecord, SameCounters
<1>4. /\ Tracked(a)' => \A s \in Scheduled(a) : Asked(a, SwitchOf[s]) >= 1 => FreshOn(a, s)'
      /\ \A s \in Scheduled(a) : Asked(a, SwitchOf[s]) = 0 => polls'[a] = 0 /\ record'[a] = NoRecord
  BY <1>2, <1>3
<1>. QED  BY <1>1, <1>4, Zenon DEF Fresh

\* The multipliers stay as the file and the defaults give them, through restarts
\* too, and pollcount is twice the polls of the present run.
LEMMA AsAskedStep ==
  ASSUME Shape, [Next]_vars, AsAsked, Counted
  PROVE  AsAsked' /\ Counted'
<1>1. ASSUME NEW a \in Agents
      PROVE  /\ \A w \in SetBy(file'[a]) : mult'[a][w] = (IF w \in DOMAIN file'[a] THEN file'[a][w] ELSE Defaults[w])
             /\ pollcount'[a] = 2 * run'[a]
  <2>1. AgentStep(a) /\ file[a] \in Files[a] /\ pollcount[a] = 2 * run[a] /\ run[a] \in Nat
    BY AgentSteps, Fields DEF Shape, ConfigShape, Counted
  <2>2. \A w \in SetBy(file[a]) : mult[a][w] = (IF w \in DOMAIN file[a] THEN file[a][w] ELSE Defaults[w])
    BY DEF AsAsked, Asked
  <2>3. CASE mult'[a] \in Configured(file[a]) /\ file'[a] = file[a] /\ run'[a] = 0 /\ pollcount'[a] = 0
    BY <2>1, <2>3, ConfiguredType
  <2>4. CASE Sent(a)
    BY <2>1, <2>2, <2>4 DEF Sent, SameConfig
  <2>5. CASE Idle(a) \/ Failed(a) \/ Used(a) \/ Applied(a)
    BY <2>1, <2>2, <2>5 DEF Idle, Failed, Used, Applied, SameConfig, SameCounters
  <2>. QED  BY <2>1, <2>3, <2>4, <2>5 DEF AgentStep, Restarted
<1>. QED  BY <1>1 DEF AsAsked, Counted, Asked

-----------------------------------------------------------------------------
(* Agents that stop, and the master that does. *)

\* An agent that has stopped divides by 0 in its present configuration.
Faulted == \A a \in Agents : daemon[a] = "fault" => PollFaults(mult[a])

\* Faulted is kept by every step: a restart reads the file again, and nothing else
\* changes a configuration.
LEMMA FaultedStep ==
  ASSUME Shape, [Next]_vars, Faulted
  PROVE  Faulted'
<1>1. ASSUME NEW a \in Agents, daemon'[a] = "fault" PROVE \E w \in Switch : mult'[a][w] = 0
  <2>1. AgentStep(a) /\ (daemon[a] = "fault" => \E w \in Switch : mult[a][w] = 0)
    BY AgentSteps DEF Faulted, PollFaults
  <2>. QED  BY <1>1, <2>1 DEF AgentStep, Idle, Sent, Failed, Used, Restarted, Applied, SameConfig, PollFaults
<1>. QED  BY <1>1 DEF Faulted, PollFaults

\* Each poll of the agent is a turn of all the rate sections.
EveryPoll(a) == \A k \in RateKeys : k \in Scheduled(a) /\ Asked(a, SwitchOf[k]) \in 1 .. 2

\* All the reports on the channel and the record have the rate sections.
Regular(a) ==
  EveryPoll(a) =>
    /\ \A i \in 1 .. Len(net[a]) : RateKeys \subseteq net[a][i].sections
    /\ record[a] # NoRecord => \A k \in RateKeys : record[a].at[k] # 0

\* Regular is kept by every step: the loop counts by two, so that a section with a
\* multiplier of 1 or 2 is due at each poll.
LEMMA RegularStep ==
  ASSUME Shape, Shape', AsAsked, Counted, NEW a \in Agents, AgentStep(a), Regular(a)
  PROVE  Regular(a)'
<1>1. Scheduled(a)' = Scheduled(a) /\ \A w : Asked(a, w)' = Asked(a, w)
  BY AskedSame
<1>2. SUFFICES ASSUME EveryPoll(a)
               PROVE  /\ \A i \in 1 .. Len(net'[a]) : RateKeys \subseteq net'[a][i].sections
                      /\ record'[a] # NoRecord => \A k \in RateKeys : record'[a].at[k] # 0
  BY <1>1 DEF Regular, EveryPoll
<1>3. /\ \A i \in 1 .. Len(net[a]) : RateKeys \subseteq net[a][i].sections
      /\ record[a] # NoRecord => \A k \in RateKeys : record[a].at[k] # 0
  BY <1>2 DEF Regular
<1>4. CASE Idle(a) \/ Failed(a) \/ Used(a) \/ Restarted(a)
  <2>1. net'[a] = net[a] /\ record'[a] = record[a]
    BY <1>4 DEF Idle, Failed, Used, Restarted, SameRecord
  <2>. QED  BY <1>3, <2>1
<1>5. CASE Sent(a)
  <2>1. RateKeys \subseteq NextReport(a).sections
    <3>1. ASSUME NEW k \in RateKeys PROVE k \in NextReport(a).sections
      <4>1. k \in Scheduled(a) /\ Asked(a, SwitchOf[k]) \in 1 .. 2
        BY <1>2 DEF EveryPoll
      <4>2. Period(a, k) = 1
        BY <4>1 DEF Period
      <4>3. run[a] % Period(a, k) = 0
        BY <4>2, Fields
      <4>. QED  BY <1>5, <4>1, <4>3, DueSent DEF Sent
    <3>. QED  BY <3>1
  <2>2. \A i \in 1 .. Len(net'[a]) : net'[a][i] = NextReport(a) \/ (i \in 1 .. Len(net[a]) /\ net'[a][i] = net[a][i])
    BY <1>5, Fields, FieldsNext DEF Sent
  <2>. QED  BY <1>3, <1>5, <2>1, <2>2 DEF Sent, SameRecord
<1>6. CASE Applied(a)
  <2>1. Len(net[a]) \in Nat \ {0}
    BY <1>6, Fields, EmptySeq DEF Applied
  <2>2. RateKeys \subseteq net[a][1].sections /\ net[a][1].poll \in Nat \ {0}
    BY <1>3, <2>1, Fields
  <2>3. \A i \in 1 .. Len(net'[a]) : i + 1 \in 1 .. Len(net[a]) /\ net'[a][i] = net[a][i + 1]
    BY <1>6, <2>1 DEF Applied
  <2>4. \A i \in 1 .. Len(net'[a]) : RateKeys \subseteq net'[a][i].sections
    BY <1>3, <2>3
  <2>5. CASE record'[a] = record[a]
    BY <1>3, <2>4, <2>5
  <2>6. CASE record'[a] = Added(net[a][1]) \/ record'[a] = Merge(record[a], net[a][1])
    <3>1. \A k \in RateKeys : record'[a].at[k] = net[a][1].poll
      BY <2>2, <2>6, RateKeysInSection DEF Added, Merge
    <3>. QED  BY <2>2, <2>4, <3>1
  <2>. QED  BY <1>6, <2>5, <2>6 DEF Applied, SameRecord
<1>. QED  BY <1>4, <1>5, <1>6 DEF AgentStep

\* The master goes down only at a report without a rate section, or with a record
\* without one.
LEMMA MasterStep ==
  ASSUME Shape, [Next]_vars, master = "up", master' # "up"
  PROVE  \E a \in Agents : net[a] # <<>> /\ record[a] # NoRecord /\ RateKeyMissing(record[a], net[a][1])
<1>1. ASSUME NEW a \in Agents, SendReport(a) \/ FailPoll(a) \/ UseDevice(a) \/ Restart(a)
      PROVE  master' = master
  BY <1>1 DEF SendReport, FailPoll, UseDevice, Restart, recordVars
<1>2. (Tick => master' = master) /\ (UNCHANGED vars => master' = master)
  BY DEF Tick, recordVars, vars
<1>3. PICK a \in Agents : ApplyReport(a)
  BY <1>1, <1>2 DEF Next
<1>4. Applied(a)
  BY <1>3, AppliedStep
<1>. QED  BY <1>4 DEF Applied

\* With such schedules the master stays up.
Survives == (\A a \in Agents : EveryPoll(a)) => master = "up"

\* Survives is kept by every step.
LEMMA SurvivesStep ==
  ASSUME Shape, [Next]_vars, \A a \in Agents : Regular(a), Survives
  PROVE  Survives'
<1>1. \A a \in Agents : EveryPoll(a)' => EveryPoll(a)
  <2>1. ASSUME NEW a \in Agents PROVE EveryPoll(a)' => EveryPoll(a)
    <3>1. Scheduled(a)' = Scheduled(a) /\ \A w : Asked(a, w)' = Asked(a, w)
      BY AgentSteps, AskedSame
    <3>. QED  BY <3>1 DEF EveryPoll
  <2>. QED  BY <2>1
<1>2. SUFFICES ASSUME \A a \in Agents : EveryPoll(a), master = "up", master' # "up" PROVE FALSE
  BY <1>1 DEF Survives
<1>3. PICK a \in Agents : net[a] # <<>> /\ record[a] # NoRecord /\ RateKeyMissing(record[a], net[a][1])
  BY <1>2, MasterStep
<1>4. 1 \in 1 .. Len(net[a])
  BY <1>3, Fields, EmptySeq
<1>. QED  BY <1>2, <1>3, <1>4 DEF Regular, RateKeyMissing

-----------------------------------------------------------------------------
(* Whose counters a rate compares. *)

\* The devices that had been used before poll p.
Before(used, p) == {d \in DOMAIN used : used[d] < p}

\* An array lists the devices that had been used before its poll.
Listed(a) ==
  /\ \A i \in 1 .. Len(net[a]), s \in DevSection :
       net[a][i].devs[s] = DevsIn(a, s, Before(since[a][s], net[a][i].poll))
  /\ \A s \in DevSection :
       record[a].at[s] # 0 => record[a].devs[s] = DevsIn(a, s, Before(since[a][s], record[a].at[s]))

\* Two arrays match up to the first device that was used between them.
LEMMA Matching ==
  ASSUME NEW a \in Agents, NEW s \in DevSection, NEW U, NEW V, U \subseteq V,
         NEW n \in DOMAIN DevsIn(a, s, U) \cap DOMAIN DevsIn(a, s, V),
         DevsIn(a, s, U)[n] # DevsIn(a, s, V)[n]
  PROVE  \E i, j \in DOMAIN DevList[a][s] :
           i < j /\ DevList[a][s][j] = DevsIn(a, s, U)[n] /\ DevList[a][s][i] \in V \ U
<1>1. PICK Q, q : Q = DevsOf(a, s) /\ q = DevList[a][s] /\ q \in Seq(Q)
  BY AgentAssumption
<1>. DEFINE K == {i \in DOMAIN q : q[i] \in U}
            L == {i \in DOMAIN q : q[i] \in V}
<1>2. DevsIn(a, s, U) = Selected(q, K) /\ DevsIn(a, s, V) = Selected(q, L)
  BY <1>1 DEF DevsIn
<1>3. Len(q) \in Nat /\ DOMAIN q = 1 .. Len(q) /\ K \subseteq L
  BY <1>1
<1>9. \A i \in 1 .. Len(q) : (i \in K <=> q[i] \in U) /\ (i \in L <=> q[i] \in V)
  BY <1>3
<1>. HIDE DEF K, L
<1>4. n \in 1 .. Len(Selected(q, K))
  BY <1>1, <1>2, SelectedFacts
<1>5. PICK j \in 1 .. Len(q) : j \in K /\ Position(K, j) = n /\ Selected(q, K)[n] = q[j]
  BY <1>1, <1>4, SelectedFacts
<1>6. j \in L /\ Selected(q, L)[Position(L, j)] = q[j]
  BY <1>1, <1>3, <1>5, SelectedFacts
<1>7. PICK i \in 1 .. j : i \in L \ K
  <2>1. SUFFICES ASSUME \A i \in 1 .. j : i \notin L \ K PROVE FALSE
    OBVIOUS
  <2>2. K \cap (1 .. j) = L \cap (1 .. j)
    BY <1>3, <2>1
  <2>3. Position(L, j) = n
    BY <1>5, <2>2 DEF Position
  <2>. QED  BY <1>2, <1>5, <1>6, <2>3
<1>8. i < j /\ q[i] \in V \ U
  BY <1>3, <1>5, <1>7, <1>9
<1>. QED  BY <1>1, <1>2, <1>3, <1>5, <1>7, <1>8

\* A device keeps the poll that it was first used before, and one that comes new has
\* the last.
LEMMA SinceStep ==
  ASSUME Shape, NEW a \in Agents, AgentStep(a), NEW s \in DevSection
  PROVE  /\ DOMAIN since[a][s] \subseteq DOMAIN since'[a][s]
         /\ \A d \in DOMAIN since[a][s] : since'[a][s][d] = since[a][s][d]
         /\ \A d \in DOMAIN since'[a][s] \ DOMAIN since[a][s] : since'[a][s][d] = polls[a]
         /\ \A d \in DOMAIN since[a][s] : since[a][s][d] \in 0 .. polls[a]
         /\ Sent(a) => since'[a] = since[a]
<1>1. \A d \in DOMAIN since[a][s] : since[a][s][d] \in 0 .. polls[a]
  BY DEF Shape, SinceShape
<1>2. CASE since'[a] = since[a]
  BY <1>1, <1>2
<1>3. CASE Used(a) /\ since'[a] # since[a]
  <2>1. DOMAIN since[a] = DevSection
    BY DEF Shape, SinceShape
  <2>2. PICK t \in DevSection : \E d \in DevsOf(a, t) \ DOMAIN since[a][t] :
          since'[a] = [since[a] EXCEPT ![t] = [e \in DOMAIN @ \cup {d} |-> IF e = d THEN polls[a] ELSE @[e]]]
    BY <1>3 DEF Used
  <2>3. PICK d \in DevsOf(a, t) \ DOMAIN since[a][t] :
          since'[a] = [since[a] EXCEPT ![t] = [e \in DOMAIN @ \cup {d} |-> IF e = d THEN polls[a] ELSE @[e]]]
    BY <2>2
  <2>4. CASE s = t
    <3>1. since'[a][s] = [e \in DOMAIN since[a][s] \cup {d} |-> IF e = d THEN polls[a] ELSE since[a][s][e]]
      BY <2>1, <2>3, <2>4
    <3>2. d \notin DOMAIN since[a][s]
      BY <2>4
    <3>3. ~Sent(a)
      BY <1>3 DEF Sent
    <3>. QED  BY <1>1, <3>1, <3>2, <3>3
  <2>5. CASE s # t
    <3>1. since'[a][s] = since[a][s]
      BY <2>1, <2>3, <2>5
    <3>2. ~Sent(a)
      BY <1>3 DEF Sent
    <3>. QED  BY <1>1, <3>1, <3>2
  <2>. QED  BY <2>4, <2>5
<1>. QED  BY <1>2, <1>3 DEF AgentStep, Idle, Sent, Failed, Used, Restarted, Applied

\* So what had been used before a poll of the past does not change.
LEMMA BeforeStep ==
  ASSUME Shape, NEW a \in Agents, AgentStep(a), NEW s \in DevSection
  PROVE  /\ \A p \in Nat : p <= polls[a] => Before(since'[a][s], p) = Before(since[a][s], p)
         /\ Before(since[a][s], polls[a] + 1) = DOMAIN since[a][s]
<1>1. polls[a] \in Nat
  BY Fields
<1>. QED  BY <1>1, SinceStep DEF Before

\* The array sections are sections.
LEMMA DevSectionInSection == DevSection \subseteq Section
BY DEF DevSection, Section, SwitchOf

\* Listed is kept by every step: a device used later changes no report of before.
LEMMA ListedStep ==
  ASSUME Shape, Shape', NEW a \in Agents, AgentStep(a), Ordered(a), Listed(a)
  PROVE  Listed(a)'
<1>1. polls[a] \in Nat /\ Len(net[a]) \in Nat /\ Len(net'[a]) \in Nat
  BY Fields, FieldsNext
<1>2. \A i \in 1 .. Len(net[a]), s \in DevSection :
        net[a][i].devs[s] = DevsIn(a, s, Before(since'[a][s], net[a][i].poll))
  <2>1. ASSUME NEW i \in 1 .. Len(net[a]), NEW s \in DevSection
        PROVE  net[a][i].devs[s] = DevsIn(a, s, Before(since'[a][s], net[a][i].poll))
    <3>1. net[a][i].poll \in Nat /\ net[a][i].poll <= polls[a]
      BY Fields DEF Ordered
    <3>2. net[a][i].devs[s] = DevsIn(a, s, Before(since[a][s], net[a][i].poll))
      BY DEF Listed
    <3>. QED  BY <3>1, <3>2, BeforeStep
  <2>. QED  BY <2>1
<1>3. \A s \in DevSection :
        record[a].at[s] # 0 => record[a].devs[s] = DevsIn(a, s, Before(since'[a][s], record[a].at[s]))
  <2>1. ASSUME NEW s \in DevSection, record[a].at[s] # 0
        PROVE  record[a].devs[s] = DevsIn(a, s, Before(since'[a][s], record[a].at[s]))
    <3>1. /\ record[a].at[s] \in Nat /\ record[a].ts \in Nat
          /\ record[a].at[s] <= record[a].ts /\ record[a].ts <= polls[a]
      BY Fields, DevSectionInSection DEF Ordered
    <3>2. record[a].devs[s] = DevsIn(a, s, Before(since[a][s], record[a].at[s]))
      BY <2>1 DEF Listed
    <3>. QED  BY <1>1, <3>1, <3>2, BeforeStep
  <2>. QED  BY <2>1
<1>4. CASE Idle(a) \/ Failed(a) \/ Used(a) \/ Restarted(a)
  <2>1. net'[a] = net[a] /\ record'[a] = record[a]
    BY <1>4 DEF Idle, Failed, Used, Restarted, SameRecord
  <2>. QED  BY <1>2, <1>3, <2>1 DEF Listed
<1>5. CASE Sent(a)
  <2>1. \A s \in DevSection :
          NextReport(a).devs[s] = DevsIn(a, s, Before(since'[a][s], NextReport(a).poll))
    BY <1>5, NextReportType, BeforeStep, SinceStep
  <2>2. \A i \in 1 .. Len(net'[a]) : net'[a][i] = NextReport(a) \/ (i \in 1 .. Len(net[a]) /\ net'[a][i] = net[a][i])
    BY <1>1, <1>5 DEF Sent
  <2>3. record'[a] = record[a]
    BY <1>5 DEF Sent, SameRecord
  <2>. QED  BY <1>2, <1>3, <2>1, <2>2, <2>3 DEF Listed
<1>6. CASE Applied(a)
  <2>. DEFINE rpt == net[a][1]
  <2>1. Len(net[a]) \in Nat \ {0}
    BY <1>6, Fields, EmptySeq DEF Applied
  <2>2. \A i \in 1 .. Len(net'[a]) : i + 1 \in 1 .. Len(net[a]) /\ net'[a][i] = net[a][i + 1]
    BY <1>6, <2>1 DEF Applied
  <2>3. \A i \in 1 .. Len(net'[a]), s \in DevSection :
          net'[a][i].devs[s] = DevsIn(a, s, Before(since'[a][s], net'[a][i].poll))
    BY <1>2, <2>2
  <2>4. \A s \in DevSection : rpt.devs[s] = DevsIn(a, s, Before(since'[a][s], rpt.poll))
    BY <1>2, <2>1
  <2>5. CASE record'[a] = record[a]
    BY <1>3, <2>3, <2>5 DEF Listed
  <2>6. CASE record'[a] = Added(rpt) \/ record'[a] = Merge(record[a], rpt)
    <3>1. ASSUME NEW s \in DevSection, record'[a].at[s] # 0
          PROVE  record'[a].devs[s] = DevsIn(a, s, Before(since'[a][s], record'[a].at[s]))
      <4>1. s \in Section
        BY DevSectionInSection
      <4>2. \/ record'[a].at[s] = rpt.poll /\ record'[a].devs[s] = rpt.devs[s]
            \/ record'[a].at[s] = record[a].at[s] /\ record'[a].devs[s] = record[a].devs[s]
        BY <2>6, <3>1, <4>1 DEF Added, Merge
      <4>. QED  BY <1>3, <2>4, <3>1, <4>2
    <3>. QED  BY <2>3, <3>1 DEF Listed
  <2>. QED  BY <1>6, <2>5, <2>6 DEF Applied, SameRecord
<1>. QED  BY <1>4, <1>5, <1>6 DEF AgentStep

\* What RateOfOneDevice says of one agent's rates.
OfOneDevice(a) ==
  \A r \in record[a].rates : r.of = r.to \/
    \E i, j \in DOMAIN DevList[a][r.section] :
      /\ i < j /\ DevList[a][r.section][j] = r.of
      /\ DevList[a][r.section][i] \in DOMAIN since[a][r.section]
      /\ since[a][r.section][DevList[a][r.section][i]]
           \in record[a].ts - r.sampled .. record[a].ts - 1

\* OfOneDevice is kept by every step: the arrays that a new rate compares list what
\* was used before two polls, and match up to the first device used between them.
LEMMA OfOneDeviceStep ==
  ASSUME Shape, Shape', NEW a \in Agents, AgentStep(a), Ordered(a), Listed(a), OfOneDevice(a)
  PROVE  OfOneDevice(a)'
<1>1. CASE record'[a] = record[a]
  <2>1. \A r \in record[a].rates : r.section \in DevSection
    <3>1. record[a].rates \subseteq Rate
      BY Fields DEF Record
    <3>. QED  BY <3>1 DEF Rate
  <2>2. ASSUME NEW r \in record[a].rates, r.of # r.to
        PROVE  \E i, j \in DOMAIN DevList[a][r.section] :
                 /\ i < j /\ DevList[a][r.section][j] = r.of
                 /\ DevList[a][r.section][i] \in DOMAIN since'[a][r.section]
                 /\ since'[a][r.section][DevList[a][r.section][i]]
                      \in record[a].ts - r.sampled .. record[a].ts - 1
    <3>1. PICK i, j \in DOMAIN DevList[a][r.section] :
            /\ i < j /\ DevList[a][r.section][j] = r.of
            /\ DevList[a][r.section][i] \in DOMAIN since[a][r.section]
            /\ since[a][r.section][DevList[a][r.section][i]]
                 \in record[a].ts - r.sampled .. record[a].ts - 1
      BY <2>2 DEF OfOneDevice
    <3>2. /\ DOMAIN since[a][r.section] \subseteq DOMAIN since'[a][r.section]
          /\ \A d \in DOMAIN since[a][r.section] : since'[a][r.section][d] = since[a][r.section][d]
      BY <2>1, SinceStep
    <3>. QED  BY <3>1, <3>2
  <2>. QED  BY <1>1, <2>2 DEF OfOneDevice
<1>2. CASE record'[a] = Added(net[a][1])
  <2>1. record'[a].rates = {}
    BY <1>2 DEF Added
  <2>. QED  BY <2>1 DEF OfOneDevice
<1>3. CASE ~RateKeyMissing(record[a], net[a][1]) /\ record'[a] = Merge(record[a], net[a][1]) /\ Applied(a)
  <2>. DEFINE rpt == net[a][1]
              rec == record[a]
  <2>1. Len(net[a]) \in Nat \ {0} /\ since'[a] = since[a]
    BY <1>3, Fields, EmptySeq DEF Applied
  <2>2. /\ record'[a].rates = Rates(rec, rpt) /\ record'[a].ts = rpt.poll
        /\ rpt.poll \in Nat /\ rec.ts \in Nat /\ rec.ts <= rpt.poll
        /\ \A k \in RateKeys : rec.at[k] # 0
    BY <1>3, <2>1, Fields DEF Merge, RateKeyMissing, Ordered
  <2>3. ASSUME NEW k \in RateKeys \cap DevSection, NEW n \in DOMAIN rec.devs[k] \cap DOMAIN rpt.devs[k],
               rec.devs[k][n] # rpt.devs[k][n]
        PROVE  \E i, j \in DOMAIN DevList[a][k] :
                 /\ i < j /\ DevList[a][k][j] = rec.devs[k][n]
                 /\ DevList[a][k][i] \in DOMAIN since[a][k]
                 /\ since[a][k][DevList[a][k][i]] \in rec.at[k] .. rpt.poll - 1
    <3>. DEFINE U == Before(since[a][k], rec.at[k])
                V == Before(since[a][k], rpt.poll)
    <3>1. rec.devs[k] = DevsIn(a, k, U) /\ rpt.devs[k] = DevsIn(a, k, V)
      BY <2>1, <2>2 DEF Listed
    <3>2. rec.at[k] \in Nat /\ rec.at[k] <= rpt.poll
      <4>1. k \in Section /\ rec.at[k] \in Nat /\ rec.at[k] <= rec.ts
        BY DevSectionInSection, Fields DEF Ordered
      <4>. QED  BY <2>2, <4>1
    <3>3. \A d \in DOMAIN since[a][k] : since[a][k][d] \in Int
      BY SinceStep, Fields
    <3>4. U \subseteq V
      BY <2>2, <3>2, <3>3 DEF Before
    <3>5. \A d \in V \ U : d \in DOMAIN since[a][k] /\ since[a][k][d] \in rec.at[k] .. rpt.poll - 1
      BY <2>2, <3>2, <3>3 DEF Before
    <3>. HIDE DEF U, V
    <3>6. PICK i, j \in DOMAIN DevList[a][k] :
            i < j /\ DevList[a][k][j] = rec.devs[k][n] /\ DevList[a][k][i] \in V \ U
      BY <2>3, <3>1, <3>4, Matching
    <3>. QED  BY <3>5, <3>6
  <2>4. ASSUME NEW r \in Rates(rec, rpt)
        PROVE  \E k \in RateKeys \cap DevSection : \E n \in DOMAIN rec.devs[k] \cap DOMAIN rpt.devs[k] :
                 /\ r.section = k /\ r.of = rec.devs[k][n] /\ r.to = rpt.devs[k][n]
                 /\ r.sampled = rpt.poll - rec.at[k]
    BY DEF Rates
  <2>5. ASSUME NEW r \in Rates(rec, rpt), r.of # r.to
        PROVE  \E i, j \in DOMAIN DevList[a][r.section] :
                 /\ i < j /\ DevList[a][r.section][j] = r.of
                 /\ DevList[a][r.section][i] \in DOMAIN since[a][r.section]
                 /\ since[a][r.section][DevList[a][r.section][i]] \in rpt.poll - r.sampled .. rpt.poll - 1
    <3>1. PICK k \in RateKeys \cap DevSection : \E n \in DOMAIN rec.devs[k] \cap DOMAIN rpt.devs[k] :
                 /\ r.section = k /\ r.of = rec.devs[k][n] /\ r.to = rpt.devs[k][n]
                 /\ r.sampled = rpt.poll - rec.at[k]
      BY <2>4
    <3>2. PICK n \in DOMAIN rec.devs[k] \cap DOMAIN rpt.devs[k] :
                 /\ r.section = k /\ r.of = rec.devs[k][n] /\ r.to = rpt.devs[k][n]
                 /\ r.sampled = rpt.poll - rec.at[k]
      BY <3>1
    <3>3. k \in Section /\ rec.at[k] \in Nat
      BY DevSectionInSection, Fields
    <3>4. rpt.poll - r.sampled = rec.at[k]
      BY <2>2, <3>2, <3>3
    <3>5. rec.devs[k][n] # rpt.devs[k][n]
      BY <2>5, <3>2
    <3>6. PICK i, j \in DOMAIN DevList[a][k] :
            /\ i < j /\ DevList[a][k][j] = rec.devs[k][n]
            /\ DevList[a][k][i] \in DOMAIN since[a][k]
            /\ since[a][k][DevList[a][k][i]] \in rec.at[k] .. rpt.poll - 1
      BY <2>3, <3>5
    <3>. QED  BY <3>2, <3>4, <3>6
  <2>. QED  BY <2>1, <2>2, <2>5 DEF OfOneDevice
<1>. QED  BY <1>1, <1>2, <1>3 DEF AgentStep, Idle, Sent, Failed, Used, Restarted, Applied, SameRecord,
                                  OfOneDevice, NoRecord

-----------------------------------------------------------------------------
(* The bounds of the model, and the whole invariant. *)

\* The polls stay within their bound.
Polled(a) == polls[a] <= MaxPolls[a] /\ run[a] <= polls[a]

\* The bounds on the polls are kept by every step.
LEMMA PolledStep ==
  ASSUME Shape, NEW a \in Agents, AgentStep(a), Polled(a)
  PROVE  Polled(a)'
<1>1. polls[a] \in Nat /\ run[a] \in Nat /\ MaxPolls[a] \in Nat
  BY Fields, AgentAssumption
<1>. QED  BY <1>1 DEF Polled, AgentStep, Idle, Sent, Failed, Used, Restarted, Applied, SameCounters

\* Time and trouble stay within their bounds.
Limits ==
  /\ \A a \in Agents : last_commit[a] <= now
  /\ now <= MaxTime /\ lost + doubled + restarts <= MaxTrouble

\* Limits is kept by every step.
LEMMA LimitsStep ==
  ASSUME Shape, [Next]_vars, Limits
  PROVE  Limits'
<1>1. /\ last_commit \in [Agents -> Nat] /\ now \in Nat /\ lost \in Nat /\ doubled \in Nat /\ restarts \in Nat
      /\ MaxTime \in Nat /\ MaxTrouble \in Nat
  BY RecordAssumption DEF Shape, RecordShape
<1>2. ASSUME NEW a \in Agents, SendReport(a) PROVE Limits'
  <2>1. /\ last_commit' = last_commit /\ now' = now
        /\ \/ lost' = lost /\ doubled' = doubled /\ restarts' = restarts
           \/ Trouble /\ lost' + doubled' + restarts' = lost + doubled + restarts + 1
    <3>1. /\ UNCHANGED <<last_commit, now, restarts>>
          /\ \/ lost' = lost /\ doubled' = doubled
             \/ Trouble /\ lost' = lost + 1 /\ doubled' = doubled
             \/ Trouble /\ lost' = lost /\ doubled' = doubled + 1
      BY <1>2, SendCases
    <3>. QED  BY <1>1, <3>1
  <2>. QED  BY <1>1, <2>1 DEF Limits, Trouble
<1>3. ASSUME NEW a \in Agents, FailPoll(a) \/ UseDevice(a) PROVE Limits'
  BY <1>3 DEF FailPoll, UseDevice, recordVars, Limits
<1>4. ASSUME NEW a \in Agents, Restart(a) PROVE Limits'
  <2>1. Trouble /\ restarts' = restarts + 1 /\ UNCHANGED <<last_commit, now, lost, doubled>>
    BY <1>4 DEF Restart, recordVars
  <2>. QED  BY <1>1, <2>1 DEF Limits, Trouble
<1>5. ASSUME NEW a \in Agents, ApplyReport(a) PROVE Limits'
  <2>1. /\ UNCHANGED <<now, lost, doubled, restarts>>
        /\ last_commit' = last_commit \/ last_commit' = [last_commit EXCEPT ![a] = now]
    BY <1>5, ApplyCases
  <2>. QED  BY <1>1, <2>1 DEF Limits
<1>6. CASE Tick
  BY <1>1, <1>6 DEF Tick, recordVars, Limits
<1>7. CASE UNCHANGED vars
  BY <1>7 DEF vars, Limits
<1>. QED  BY <1>2, <1>3, <1>4, <1>5, <1>6, <1>7 DEF Next

\* What holds of every agent.
AgentInv(a) ==
  /\ Polled(a) /\ Ordered(a) /\ InStep(a) /\ Fresh(a) /\ Regular(a) /\ Listed(a) /\ OfOneDevice(a)

\* The inductive invariant.
RecordInv ==
  /\ Shape /\ AsAsked /\ Counted /\ Faulted /\ Bounded /\ Survives /\ Limits
  /\ \A a \in Agents : AgentInv(a)

\* The inductive invariant holds at first.
LEMMA RecordInvInit == Init => RecordInv
<1>. SUFFICES ASSUME Init PROVE RecordInv
  OBVIOUS
<1>1. Shape
  BY ShapeInit
<1>2. AsAsked
  <2>1. ASSUME NEW a \in Agents PROVE \A w \in SetBy(file[a]) : mult[a][w] = Asked(a, w)
    <3>1. mult[a] \in Configured(file[a]) /\ file[a] \in Files[a]
      BY <1>1 DEF Init, AgentInit, Shape, ConfigShape
    <3>. QED  BY <3>1, ConfiguredType DEF Asked
  <2>. QED  BY <2>1 DEF AsAsked
<1>3. \A a \in Agents : /\ net[a] = <<>> /\ record[a] = NoRecord /\ last_commit[a] = 0 /\ daemon[a] = "up"
                        /\ polls[a] = 0 /\ run[a] = 0 /\ pollcount[a] = 0
  BY DEF Init, AgentInit
<1>4. Counted /\ Faulted /\ Survives
  BY <1>3 DEF Init, Counted, Faulted, Survives
<1>5. Bounded
  <2>1. Known = {}
    BY <1>3 DEF Known
  <2>2. 0 <= Capacity
    BY RecordAssumption
  <2>. QED  BY <2>1, <2>2, FS_EmptySet DEF Bounded
<1>6. Limits
  BY <1>3, RecordAssumption DEF Init, Limits
<1>7. ASSUME NEW a \in Agents PROVE AgentInv(a)
  <2>1. /\ net[a] = <<>> /\ Len(net[a]) = 0 /\ record[a] = NoRecord /\ polls[a] = 0 /\ run[a] = 0
        /\ record[a].ts = 0 /\ record[a].rates = {} /\ \A s \in Section : record[a].at[s] = 0
    <3>1. Len(net[a]) = 0 /\ record[a] = NoRecord
      BY <1>3
    <3>. QED  BY <1>3, <3>1 DEF NoRecord
  <2>2. Polled(a) /\ Ordered(a) /\ InStep(a)
    BY <2>1, RateKeysInSection, AgentAssumption DEF Polled, Ordered, InStep
  <2>3. Regular(a) /\ Listed(a) /\ OfOneDevice(a)
    BY <2>1, DevSectionInSection DEF Regular, Listed, OfOneDevice
  <2>4. ASSUME NEW s \in Scheduled(a), Asked(a, SwitchOf[s]) >= 1 PROVE FreshOn(a, s)
    <3>1. PICK P \in Nat \ {0} : P = Period(a, s)
      BY <2>4, <1>1, AskedType
    <3>2. lost = 0 /\ s \in Section
      BY <1>1, AskedType DEF Init
    <3>3. Slack(a, s) = 0
      BY <3>1, <3>2 DEF Slack
    <3>4. Age(a, s) = P - 1
      BY <2>1, <3>1 DEF Age
    <3>5. a \notin Known
      BY <2>1 DEF Known
    <3>6. 0 - record[a].at[s] <= 0 + (P - 1)
      BY <2>1, <3>2
    <3>7. Near(net[a], record[a], s, polls[a], Len(net[a]), Slack(a, s) + Age(a, s))
      BY <2>1, <3>3, <3>4, <3>6 DEF Near
    <3>. QED  BY <2>1, <3>5, <3>7 DEF FreshOn
  <2>5. Fresh(a)
    BY <2>1, <2>4 DEF Fresh
  <2>. QED  BY <2>2, <2>3, <2>5 DEF AgentInv
<1>. QED  BY <1>1, <1>2, <1>4, <1>5, <1>6, <1>7 DEF RecordInv

\* It is kept by every step.
LEMMA RecordInvStep == RecordInv /\ [Next]_vars => RecordInv'
<1>. SUFFICES ASSUME RecordInv, [Next]_vars PROVE RecordInv'
  OBVIOUS
<1>1. Shape /\ AsAsked /\ Counted /\ Faulted /\ Bounded /\ Survives /\ Limits
  BY DEF RecordInv
<1>2. Shape' /\ AsAsked' /\ Counted' /\ Faulted' /\ Limits'
  BY <1>1, ShapeStep, AsAskedStep, FaultedStep, LimitsStep
<1>3. /\ Bounded' /\ (master' = "up" => master = "up")
      /\ \A a \in Agents : Tracked(a)' => Tracked(a)
  BY <1>1, KnownStep
<1>4. lost <= lost' /\ \A a \in Agents : AgentStep(a)
  BY <1>1, AgentSteps
<1>5. Survives'
  BY <1>1, SurvivesStep DEF RecordInv, AgentInv
<1>6. ASSUME NEW a \in Agents PROVE AgentInv(a)'
  <2>1. /\ Polled(a) /\ Ordered(a) /\ InStep(a) /\ Fresh(a) /\ Regular(a) /\ Listed(a) /\ OfOneDevice(a)
        /\ AgentStep(a) /\ (Tracked(a)' => Tracked(a))
    BY <1>3, <1>4 DEF RecordInv, AgentInv
  <2>2. Polled(a)' /\ Ordered(a)' /\ InStep(a)'
    BY <1>1, <1>2, <2>1, PolledStep, OrderedStep, InStepStep
  <2>3. Fresh(a)'
    BY <1>1, <1>2, <1>3, <1>4, <2>1, FreshStep
  <2>4. Regular(a)' /\ Listed(a)' /\ OfOneDevice(a)'
    BY <1>1, <1>2, <2>1, RegularStep, ListedStep, OfOneDeviceStep
  <2>. QED  BY <2>2, <2>3, <2>4 DEF AgentInv
<1>. QED  BY <1>2, <1>3, <1>5, <1>6 DEF RecordInv

\* So it holds always: what is on the way to the master, what the master has, and how
\* the two relate to the schedule of the polls.
THEOREM RecordInvCorrect == Spec => []RecordInv
BY RecordInvInit, RecordInvStep, PTL DEF Spec

-----------------------------------------------------------------------------
(* The theorems. *)

\* Every variable has its type: among others the array of records does not overflow,
\* and no record or report is of a poll that was not made.
THEOREM TypeCorrect == Spec => []TypeOK
<1>1. RecordInv => TypeOK
  <2>. SUFFICES ASSUME RecordInv PROVE TypeOK
    OBVIOUS
  <2>1. Shape /\ Limits /\ Bounded /\ \A a \in Agents : Polled(a) /\ Ordered(a)
    BY DEF RecordInv, AgentInv
  <2>2. AgentTypeOK
    <3>1. ASSUME NEW a \in Agents PROVE polls[a] \in 0 .. MaxPolls[a] /\ run[a] \in 0 .. polls[a]
      BY <2>1, Fields, AgentAssumption DEF Polled
    <3>. QED  BY <2>1, <3>1 DEF Shape, ConfigShape, CounterShape, SinceShape, AgentTypeOK
  <2>3. ASSUME NEW a \in Agents
        PROVE  /\ \A i \in DOMAIN net[a] : net[a][i].poll \in 1 .. polls[a]
               /\ record[a].ts \in 0 .. polls[a] /\ record[a].at \in [Section -> 0 .. record[a].ts]
               /\ last_commit[a] \in 0 .. now
    <3>1. \A i \in DOMAIN net[a] : net[a][i].poll \in 1 .. polls[a]
      <4>1. DOMAIN net[a] = 1 .. Len(net[a])
        BY <2>1, Fields
      <4>. QED  BY <2>1, <4>1, Fields DEF Ordered
    <3>2. record[a].ts \in 0 .. polls[a] /\ \A s \in Section : record[a].at[s] \in 0 .. record[a].ts
      BY <2>1, Fields DEF Ordered
    <3>3. record[a].at \in [Section -> 0 .. record[a].ts]
      BY <2>1, <3>2, Fields
    <3>4. last_commit[a] \in 0 .. now
      BY <2>1 DEF Limits, Shape, RecordShape
    <3>. QED  BY <3>1, <3>2, <3>3, <3>4
  <2>4. now \in 0 .. MaxTime
    BY <2>1, RecordAssumption DEF Limits, Shape, RecordShape
  <2>. QED  BY <2>1, <2>2, <2>3, <2>4 DEF TypeOK, Bounded, Limits, Shape, RecordShape
<1>. QED  BY <1>1, RecordInvCorrect, PTL

\* No section of a record is older than its multiplier allows, whatever is lost,
\* doubled, merged or restarted (run_agent, get_poll_bits, merge_obj).
THEOREM FreshCorrect == Spec => []SectionsFresh
<1>1. RecordInv => SectionsFresh
  <2>. SUFFICES ASSUME RecordInv, NEW a \in Known, NEW s \in Scheduled(a)
                PROVE  record[a].ts - record[a].at[s] < Period(a, s) * (lost + 1)
    BY DEF SectionsFresh
  <2>1. a \in Agents /\ record[a] # NoRecord
    BY DEF Known
  <2>2. Shape /\ Fresh(a)
    BY <2>1 DEF RecordInv, AgentInv
  <2>3. Asked(a, SwitchOf[s]) >= 1
    BY <2>1, <2>2, AskedType DEF Fresh
  <2>4. FreshOn(a, s)
    BY <2>2, <2>3 DEF Fresh, Tracked
  <2>5. PICK P \in Nat, l \in Nat, x \in Int :
          P = Period(a, s) /\ l = lost /\ x = record[a].ts - record[a].at[s]
    <3>1. Period(a, s) \in Nat /\ s \in Section
      BY <2>1, <2>2, <2>3, AskedType
    <3>2. lost \in Nat
      BY <2>2 DEF Shape, RecordShape
    <3>3. record[a].ts - record[a].at[s] \in Int
      <4>1. record[a].ts \in Nat /\ record[a].at[s] \in Nat
        BY <2>1, <2>2, <3>1, Fields
      <4>. QED  BY <4>1
    <3>. QED  BY <3>1, <3>2, <3>3
  <2>6. x <= ((P * l) + P) - 1
    BY <2>4, <2>5 DEF FreshOn, Slack
  <2>7. P * (l + 1) = (P * l) + P /\ P * l \in Nat
    <3>1. l <= l
      OBVIOUS
    <3>. QED  BY <3>1, Products, Zenon
  <2>8. \A y \in Nat : x <= (y + P) - 1 => x < y + P
    OBVIOUS
  <2>9. x < P * (l + 1)
    BY <2>6, <2>7, <2>8, Zenon
  <2>. QED  BY <2>5, <2>9, Zenon
<1>. QED  BY <1>1, RecordInvCorrect, PTL

\* An agent stops by a division in get_poll_bits only with a multiplier of 0: from its
\* file, or because neither the file nor the code sets it.
THEOREM FaultCorrect == Spec => []FaultNeedsUnset
<1>1. RecordInv => FaultNeedsUnset
  BY DEF RecordInv, Faulted, PollFaults, AsAsked, FaultNeedsUnset
<1>. QED  BY <1>1, RecordInvCorrect, PTL

\* While multipliers of 1 and 2 put each rate section in every report, get_rates finds
\* all that it looks for, and the master survives.
THEOREM SurvivesCorrect == Spec => []SurvivesRegular
<1>1. RecordInv => SurvivesRegular
  BY DEF RecordInv, Survives, EveryPoll, SurvivesRegular
<1>. QED  BY <1>1, RecordInvCorrect, PTL

\* get_rates divides by the time between the two samples whose counters it compares.
THEOREM IntervalCorrect == Spec => []RateOverItsInterval
<1>1. RecordInv => RateOverItsInterval
  BY DEF RecordInv, AgentInv, InStep, RateOverItsInterval
<1>. QED  BY <1>1, RecordInvCorrect, PTL

\* get_these_rates compares a device with itself, unless a device listed before it was
\* first used between the two reports (active_dsk, active_if).
THEOREM OneDeviceCorrect == Spec => []RateOfOneDevice
<1>1. RecordInv => RateOfOneDevice
  BY DEF RecordInv, AgentInv, OfOneDevice, RateOfOneDevice
<1>. QED  BY <1>1, RecordInvCorrect, PTL
=============================================================================
