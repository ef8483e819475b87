-------------------------- MODULE AgentProcessProofs --------------------------
(***************************************************************************)
(* Proofs about an agent's process.  First, that it keeps its identity:    *)
(* over all runs, wherever each was killed, its reports carry one uuid,    *)
(* unless the file of the identity could not be written (profile_uuid and  *)
(* main of agent/at_agent.c).  Then, what its device lists are from the    *)
(* start of a run on, of which it follows that a run ends only of what     *)
(* happened to it, that each mounted device is listed, and that a turn     *)
(* gives each device the counters that are its own.                        *)
(***************************************************************************)
EXTENDS AgentProcess, ListLemmas

\* The identity file holds nothing, no uuid, or one of those generated; a run that
\* is about to write it has just made it, empty.
FileShape ==
  /\ made \in Nat
  /\ idfile \in {NoFile, Empty} \cup (Nat \ {0})
  /\ pc = "write" => idfile = Empty

\* What was ever reported is what the file holds now: a run that was killed before
\* the file was written has reported nothing.
OneIdentity ==
  "disk" \notin trouble =>
    /\ \A u \in ids : u = idfile /\ u \in Nat \ {0}
    /\ pc \in {"net", "loop", "sleep"} => uuid = idfile /\ idfile \in Nat \ {0}

Inv == FileShape /\ OneIdentity

\* A set whose members are all equal has at most one: what IdentityKept asks of the
\* identities that were reported.
LEMMA AtMostOne ==
  ASSUME NEW S, NEW x, \A u \in S : u = x
  PROVE  Cardinality(S) <= 1
<1>1. CASE S = {}
  BY <1>1, FS_EmptySet
<1>2. CASE S # {}
  <2>1. S = {x}
    BY <1>2
  <2> QED
    BY <2>1, FS_Singleton
<1> QED
  BY <1>1, <1>2

\* The first start finds no file, and nothing has been reported.
LEMMA InitInv == Init => Inv
BY DEF Init, Inv, FileShape, OneIdentity, NoFile, Empty

\* profile_uuid: each of its steps leaves a file in agreement with what was
\* reported, or fails for the disk.
LEMMA IdentityStep ==
  ASSUME Inv, ReadId \/ DropId \/ CreateId \/ NoId \/ WriteId
  PROVE  Inv'
<1> USE DEF Inv, FileShape, OneIdentity, HasId, NoFile, Empty, restOfId
<1>1. CASE ReadId
  BY <1>1 DEF ReadId
<1>2. CASE DropId
  BY <1>2 DEF DropId
<1>3. CASE CreateId
  BY <1>3 DEF CreateId
<1>4. CASE NoId
  BY <1>4 DEF NoId
<1>5. CASE WriteId
  BY <1>5 DEF WriteId
<1> QED
  BY <1>1, <1>2, <1>3, <1>4, <1>5

\* A run from its start to its end, apart from profile_uuid: the file is left alone,
\* and a report carries the uuid that is in it.
LEMMA ProcessStep ==
  ASSUME Inv,
         \/ Start \/ Connect \/ Turn \/ TurnFaults \/ Wake \/ Reinit
         \/ Quitit \/ Hangup \/ Kill
  PROVE  Inv'
<1> USE DEF Inv, FileShape, OneIdentity, restOfId, restOfTurn
<1>1. CASE Start
  BY <1>1 DEF Start
<1>2. CASE Connect
  BY <1>2 DEF Connect
<1>3. CASE Turn
  <2>1. /\ pc = "loop" /\ pc' = "sleep" /\ ids' = ids \cup {uuid}
        /\ UNCHANGED <<made, idfile, uuid, trouble>>
    BY <1>3 DEF Turn
  <2> QED
    BY <2>1
<1>4. CASE TurnFaults
  BY <1>4 DEF TurnFaults
<1>5. CASE Wake
  BY <1>5 DEF Wake
<1>6. CASE Reinit
  BY <1>6 DEF Reinit
<1>7. CASE Quitit \/ Hangup
  BY <1>7 DEF Quitit, Hangup
<1>8. CASE Kill
  BY <1>8 DEF Kill
<1> QED
  BY <1>1, <1>2, <1>3, <1>4, <1>5, <1>6, <1>7, <1>8

\* Nothing that happens to the host touches the identity: a disk that fills up is
\* felt by the next write only.
LEMMA HostStep ==
  ASSUME Inv,
         \/ \E k \in DevKind : \E d \in Devices[k] : Unplug(k, d) \/ Plug(k, d)
         \/ \E c \in Cpus : CpuOff(c) \/ CpuOn(c)
         \/ \E i \in DOMAIN setup.mtab : MountFails(setup.mtab[i].mnt)
         \/ \E how \in {"ok", "full", "readonly"} : DiskTurns(how)
  PROVE  Inv'
<1>1. /\ UNCHANGED <<idfile, pc, uuid, made, ids>>
      /\ trouble' = trouble \/ trouble' = trouble \cup {"cpus"}
  BY DEF Unplug, Plug, CpuOff, CpuOn, MountFails, DiskTurns, HostChange
<1> QED
  BY <1>1 DEF Inv, FileShape, OneIdentity

\* What the file holds and what was reported agree in every reachable state.
THEOREM IdentityInvariant == Spec => []Inv
<1>1. Inv /\ [Next]_vars => Inv'
  <2> SUFFICES ASSUME Inv, [Next]_vars
               PROVE  Inv'
    OBVIOUS
  <2>1. CASE UNCHANGED vars
    BY <2>1 DEF vars, Inv, FileShape, OneIdentity
  <2>2. CASE Next
    BY <2>2, IdentityStep, ProcessStep, HostStep DEF Next
  <2> QED
    BY <2>1, <2>2
<1> QED
  BY <1>1, InitInv, PTL DEF Spec

\* IdentityKept, for every host and any number of starts, kills and changes: the
\* reports of an agent carry one identity, and never the uuid of zeros, unless the
\* file could not be written.
THEOREM IdentityCorrect == Spec => []IdentityKept
<1>1. Inv => IdentityKept
  <2> SUFFICES ASSUME Inv, "disk" \notin trouble
               PROVE  Cardinality(ids) <= 1 /\ Nil \notin ids
    BY DEF IdentityKept
  <2>1. \A u \in ids : u = idfile /\ u \in Nat \ {0}
    BY DEF Inv, OneIdentity
  <2>2. Cardinality(ids) <= 1
    BY <2>1, AtMostOne
  <2>3. Nil \notin ids
    BY <2>1 DEF Nil
  <2> QED
    BY <2>2, <2>3
<1> QED
  BY <1>1, IdentityInvariant, PTL

-----------------------------------------------------------------------------
(* The numbers of a set in ascending order. *)

Rank(S, c) == Cardinality({d \in S : d < c})

\* The ranks of the numbers of a finite set are those from 0, and of a greater number
\* the greater one.
LEMMA Ranks ==
  ASSUME NEW S \in SUBSET Nat, IsFiniteSet(S)
  PROVE  /\ Cardinality(S) \in Nat
         /\ \A c \in S : Rank(S, c) \in 0 .. Cardinality(S) - 1
         /\ \A b, c \in S : b < c => Rank(S, b) < Rank(S, c)
         /\ \A r \in 0 .. Cardinality(S) - 1 : \E c \in S : Rank(S, c) = r
<1>. DEFINE Below(c) == {d \in S : d < c}
            N == Cardinality(S)
<1>1. N \in Nat
  BY FS_CardinalityType
<1>2. \A c \in S : IsFiniteSet(Below(c)) /\ Cardinality(Below(c)) \in Nat
  <2>. TAKE c \in S
  <2>1. Below(c) \subseteq S
    OBVIOUS
  <2>2. IsFiniteSet(Below(c))
    BY <2>1, FS_Subset
  <2>. QED  BY <2>2, FS_CardinalityType
<1>3. ASSUME NEW b \in S, NEW c \in S, b < c
      PROVE  Rank(S, b) < Rank(S, c)
  <2>1. Below(b) \cup {b} \subseteq Below(c)
    <3>1. \A d \in S : d < b => d < c
      <4>1. \A d \in S : d \in Nat
        OBVIOUS
      <4>. QED  BY <1>3, <4>1
    <3>. QED  BY <1>3, <3>1
  <2>2. IsFiniteSet(Below(b) \cup {b}) /\ Cardinality(Below(b) \cup {b}) = Cardinality(Below(b)) + 1
    <3>1. b \notin Below(b)
      OBVIOUS
    <3>. HIDE DEF Below
    <3>. QED  BY <1>2, <3>1, FS_AddElement
  <2>3. Cardinality(Below(b) \cup {b}) <= Cardinality(Below(c))
    <3>. HIDE DEF Below
    <3>. QED  BY <1>2, <2>1, FS_Subset
  <2>4. Cardinality(Below(b)) \in Nat /\ Cardinality(Below(c)) \in Nat
    BY <1>2
  <2>5. Cardinality(Below(b)) < Cardinality(Below(c))
    <3>. HIDE DEF Below
    <3>. QED  BY <2>2, <2>3, <2>4
  <2>. QED  BY <2>5 DEF Rank
<1>4. ASSUME NEW c \in S
      PROVE  Rank(S, c) \in 0 .. N - 1
  <2>1. Below(c) \subseteq S \ {c}
    OBVIOUS
  <2>2. IsFiniteSet(S \ {c}) /\ Cardinality(S \ {c}) = N - 1
    BY FS_RemoveElement
  <2>3. Cardinality(Below(c)) <= Cardinality(S \ {c})
    <3>. HIDE DEF Below
    <3>. QED  BY <2>1, <2>2, FS_Subset
  <2>4. Cardinality(Below(c)) \in 0 .. N - 1
    <3>1. Cardinality(Below(c)) \in Nat
      BY <1>2
    <3>. HIDE DEF Below
    <3>. QED  BY <1>1, <2>2, <2>3, <3>1
  <2>. QED  BY <2>4 DEF Rank
<1>5. ASSUME NEW r \in 0 .. N - 1 PROVE \E c \in S : Rank(S, c) = r
  <2>. DEFINE T == 0 .. N - 1
              f == [c \in S |-> Rank(S, c)]
  <2>1. f \in [S -> T]
    BY <1>4
  <2>2. ASSUME NEW b \in S, NEW c \in S, f[b] = f[c] PROVE b = c
    <3>1. \A d \in S : Rank(S, d) \in Int
      BY <1>4
    <3>2. Rank(S, b) = Rank(S, c)
      BY <2>2
    <3>3. ~(b < c) /\ ~(c < b)
      BY <1>3, <3>1, <3>2
    <3>. QED  BY <3>3
  <2>3. f \in Injection(S, T)
    <3>. HIDE DEF T
    <3>1. DOMAIN f = S
      OBVIOUS
    <3>. HIDE DEF f
    <3>. QED  BY <2>1, <2>2, <3>1 DEF Injection, IsInjective
  <2>4. IsFiniteSet(T) /\ Cardinality(T) = N
    <3>1. \A n \in Nat : 0 \in Int /\ n - 1 \in Int /\ (IF 0 > n - 1 THEN 0 = n ELSE ((n - 1) - 0) + 1 = n)
      OBVIOUS
    <3>. QED  BY <1>1, <3>1, FS_Interval
  <2>5. f \in Surjection(S, T)
    <3>. HIDE DEF T, f
    <3>. QED  BY <2>3, <2>4, FS_Injection
  <2>6. \E c \in S : f[c] = r
    <3>1. r \in T
      OBVIOUS
    <3>. HIDE DEF T, f
    <3>. QED  BY <2>5, <3>1 DEF Surjection
  <2>. QED  BY <2>6
<1>. QED  BY <1>1, <1>3, <1>4, <1>5

\* Ascending lists the numbers of a finite set, each once, by their rank.
LEMMA AscendingFacts ==
  ASSUME NEW S \in SUBSET Nat, IsFiniteSet(S)
  PROVE  /\ Cardinality(S) \in Nat
         /\ Ascending(S) \in Seq(S) /\ Len(Ascending(S)) = Cardinality(S)
         /\ \A c \in S : Rank(S, c) + 1 \in 1 .. Cardinality(S)
                        /\ Ascending(S)[Rank(S, c) + 1] = c
         /\ \A i \in 1 .. Cardinality(S) : Ascending(S)[i] \in S /\ Rank(S, Ascending(S)[i]) = i - 1
<1>1. PICK N \in Nat : N = Cardinality(S)
  BY FS_CardinalityType
<1>2. /\ \A c \in S : Rank(S, c) \in 0 .. N - 1
      /\ \A b, c \in S : b < c => Rank(S, b) < Rank(S, c)
      /\ \A r \in 0 .. N - 1 : \E c \in S : Rank(S, c) = r
  BY <1>1, Ranks
<1>3. Ascending(S) = [i \in 1 .. N |-> CHOOSE c \in S : Rank(S, c) = i - 1]
  BY <1>1 DEF Ascending, Rank
<1>4. ASSUME NEW i \in 1 .. N PROVE Ascending(S)[i] \in S /\ Rank(S, Ascending(S)[i]) = i - 1
  <2>1. i - 1 \in 0 .. N - 1
    OBVIOUS
  <2>2. \E c \in S : Rank(S, c) = i - 1
    BY <1>2, <2>1
  <2>. QED  BY <1>3, <2>2
<1>5. ASSUME NEW b \in S, NEW c \in S, Rank(S, b) = Rank(S, c) PROVE b = c
  <2>1. ~(b < c) /\ ~(c < b)
    BY <1>2, <1>5
  <2>. QED  BY <2>1
<1>6. Ascending(S) \in Seq(S) /\ Len(Ascending(S)) = N
  <2>1. Ascending(S) \in [1 .. N -> S]
    BY <1>3, <1>4
  <2>. QED  BY <2>1
<1>7. ASSUME NEW c \in S
      PROVE  Rank(S, c) + 1 \in 1 .. N /\ Ascending(S)[Rank(S, c) + 1] = c
  <2>1. PICK r \in 0 .. N - 1 : r = Rank(S, c)
    BY <1>2
  <2>2. r + 1 \in 1 .. N /\ (r + 1) - 1 = r
    OBVIOUS
  <2>3. Ascending(S)[r + 1] \in S /\ Rank(S, Ascending(S)[r + 1]) = r
    BY <1>4, <2>2
  <2>. QED  BY <1>5, <2>1, <2>2, <2>3
<1>. QED  BY <1>1, <1>4, <1>6, <1>7

-----------------------------------------------------------------------------
(* Types, and what the lists keep. *)

DeviceNode(S) == [dev : S, of : SUBSET S, fresh : BOOLEAN]

\* The host and its files.
HostTyped ==
  /\ setup \in Setups /\ left \in [Change -> Nat]
  /\ DOMAIN lines = DevKind
  /\ \A k \in DevKind : lines[k] \in Seq(Devices[k]) /\ IsInjective(lines[k])
  /\ online \subseteq Cpus /\ IsFiniteSet(online)
  /\ disk \in {"ok", "full", "readonly"}
  /\ made \in Nat /\ idfile \in {NoFile, Empty} \cup Uuid

\* The process.
ProcessTyped ==
  /\ pc \in {"down", "id", "write", "net", "loop", "sleep", "exited", "dead"}
  /\ uuid \in Uuid /\ ids \subseteq Uuid
  /\ on \in BOOLEAN /\ init_flag \in BOOLEAN
  /\ trouble \subseteq {"hup", "cpus", "mount", "disk"}

\* Its lists, in which each cpu has one node.
ListsTyped ==
  /\ DOMAIN nodes = ListKind
  /\ \A k \in DevKind : nodes[k] \in Seq(DeviceNode(Devices[k])) /\ seen[k] \subseteq Devices[k]
  /\ nodes.cpu \in Seq(DeviceNode(Cpus))
  /\ \A i, j \in DOMAIN nodes.cpu : nodes.cpu[i].dev = nodes.cpu[j].dev => i = j

Typed == HostTyped /\ ProcessTyped /\ ListsTyped

\* No more nodes than cpus, unless one was taken away since the start.
CpusThere ==
  "cpus" \notin trouble => Len(nodes.cpu) <= Cardinality(online)

\* On a host all of whose mounts answered at the start, the list of file systems has all
\* of its devices, and a device again only next to itself.
MountsThere ==
  "mount" \notin trouble =>
    /\ nodes.fs \in Seq([dev : STRING \ {Null}])
    /\ \A m \in DOMAIN setup.mtab : \E i \in DOMAIN nodes.fs : nodes.fs[i].dev = setup.mtab[m].dev
    /\ \A i, j \in DOMAIN nodes.fs : i < j /\ nodes.fs[i].dev = nodes.fs[j].dev => j = i + 1

\* A process that has started and not ended.
Alive == pc \in {"id", "write", "net", "loop", "sleep"}

\* What a run that is alive relies on, and what an end of it comes of.
RunInv ==
  /\ Alive => CpusThere /\ MountsThere
  /\ init_flag => "hup" \in trouble
  /\ SurvivesSoundHosts

AgentInv == Typed /\ RunInv

\* What the assumption says of the constants.
LEMMA Constants ==
  /\ Cpus \subseteq Nat
  /\ \A k \in DevKind : IsFiniteSet(Devices[k])
  /\ \A s \in Setups : /\ s.mtab \in Seq([dev : STRING \ {Null}, mnt : STRING])
                       /\ s.cpus \subseteq Cpus /\ IsFiniteSet(s.cpus)
                       /\ s.left \in [Change -> Nat]
BY ProcessAssumption

\* SetToSeq lists the elements of a finite set, each once.
LEMMA SetToSeqFacts ==
  ASSUME NEW S, IsFiniteSet(S)
  PROVE  SetToSeq(S) \in Seq(S) /\ IsInjective(SetToSeq(S))
<1>1. PICK N \in Nat : N = Cardinality(S) /\ ExistsBijection(1 .. N, S)
  BY FS_CardinalityType
<1>2. \E f \in [1 .. N -> S] : IsInjective(f)
  BY <1>1 DEF ExistsBijection, Bijection, Injection
<1>3. SetToSeq(S) \in [1 .. N -> S] /\ IsInjective(SetToSeq(S))
  BY <1>1, <1>2 DEF SetToSeq
<1>. QED  BY <1>1, <1>3

\* Before its first run an agent has no lists, and nothing has happened to it.
LEMMA InitTyped == Init => AgentInv
<1>. SUFFICES ASSUME Init PROVE AgentInv
  OBVIOUS
<1>1. HostTyped
  <2>1. /\ setup \in Setups /\ left \in [Change -> Nat] /\ online \subseteq Cpus /\ IsFiniteSet(online)
    BY Constants DEF Init
  <2>2. DOMAIN lines = DevKind /\ \A k \in DevKind : lines[k] \in Seq(Devices[k]) /\ IsInjective(lines[k])
    BY Constants, SetToSeqFacts DEF Init
  <2>3. /\ disk \in {"ok", "full", "readonly"}
        /\ made \in Nat /\ idfile \in {NoFile, Empty} \cup Uuid
    BY DEF Init
  <2>. QED  BY <2>1, <2>2, <2>3 DEF HostTyped
<1>2. ProcessTyped
  <2>1. Uuid = 0 .. 0 /\ Nil = 0
    BY DEF Init, Uuid, Nil
  <2>2. 0 \in 0 .. 0 /\ {} \subseteq 0 .. 0
    OBVIOUS
  <2>3. uuid \in Uuid /\ ids \subseteq Uuid
    BY <2>1, <2>2 DEF Init
  <2>. QED  BY <2>3 DEF Init, ProcessTyped
<1>3. ListsTyped
  <2>1. DOMAIN nodes = ListKind /\ \A k \in ListKind : nodes[k] = <<>>
    BY DEF Init, NoLists
  <2>2. \A k \in DevKind : seen[k] = {} /\ k \in ListKind
    BY DEF Init, ListKind
  <2>3. "cpu" \in ListKind
    BY DEF ListKind
  <2>4. \A S : <<>> \in Seq(S) /\ DOMAIN <<>> = {}
    OBVIOUS
  <2>5. /\ \A k \in DevKind : nodes[k] \in Seq(DeviceNode(Devices[k])) /\ seen[k] \subseteq Devices[k]
        /\ nodes.cpu \in Seq(DeviceNode(Cpus))
    BY <2>1, <2>2, <2>3, <2>4
  <2>6. \A i, j \in DOMAIN nodes.cpu : nodes.cpu[i].dev = nodes.cpu[j].dev => i = j
    BY <2>1, <2>3, <2>4
  <2>. QED  BY <2>1, <2>5, <2>6 DEF ListsTyped
<1>4. RunInv
  BY DEF Init, RunInv, Alive, SurvivesSoundHosts
<1>. QED  BY <1>1, <1>2, <1>3, <1>4 DEF AgentInv, Typed

-----------------------------------------------------------------------------
(* The host's steps. *)

\* A list that loses elements does not come to have one twice.
LEMMA SelectedInjective ==
  ASSUME NEW S, NEW s \in Seq(S), IsInjective(s), NEW K
  PROVE  Selected(s, K) \in Seq(S) /\ IsInjective(Selected(s, K))
<1>1. PICK t \in Seq(S) : t = Selected(s, K)
  BY SelectedFacts
<1>2. \A i \in 1 .. Len(t) : \E n \in 1 .. Len(s) : n \in K /\ Position(K, n) = i /\ t[i] = s[n]
  BY <1>1, SelectedFacts
<1>3. DOMAIN t = 1 .. Len(t) /\ DOMAIN s = 1 .. Len(s)
  OBVIOUS
<1>4. ASSUME NEW i \in 1 .. Len(t), NEW j \in 1 .. Len(t), t[i] = t[j] PROVE i = j
  <2>1. PICK m \in 1 .. Len(s) : Position(K, m) = i /\ t[i] = s[m]
    BY <1>2
  <2>2. PICK n \in 1 .. Len(s) : Position(K, n) = j /\ t[j] = s[n]
    BY <1>2
  <2>3. m = n
    BY <1>3, <1>4, <2>1, <2>2 DEF IsInjective
  <2>. QED  BY <2>1, <2>2, <2>3
<1>. QED  BY <1>1, <1>3, <1>4 DEF IsInjective

\* Neither does one that gets an element it has not.
LEMMA AppendedInjective ==
  ASSUME NEW S, NEW s \in Seq(S), IsInjective(s), NEW d \in S, d \notin ToSet(s)
  PROVE  Append(s, d) \in Seq(S) /\ IsInjective(Append(s, d))
<1>1. PICK N \in Nat : N = Len(s) /\ DOMAIN s = 1 .. N
  OBVIOUS
<1>2. PICK t : t = Append(s, d)
  OBVIOUS
<1>3. /\ t \in Seq(S) /\ DOMAIN t = 1 .. N + 1
      /\ t[N + 1] = d /\ \A i \in 1 .. N : t[i] = s[i]
  BY <1>1, <1>2
<1>4. \A i \in 1 .. N : s[i] # d
  BY <1>1 DEF ToSet
<1>5. \A i \in 1 .. N + 1 : i \in 1 .. N \/ i = N + 1
  OBVIOUS
<1>6. ASSUME NEW i \in 1 .. N + 1, NEW j \in 1 .. N + 1, t[i] = t[j] PROVE i = j
  BY <1>1, <1>3, <1>4, <1>5, <1>6 DEF IsInjective
<1>. QED  BY <1>2, <1>3, <1>6 DEF IsInjective

\* /proc/net/dev and /proc/diskstats name each device once, whatever comes and goes.
LEMMA DeviceStep ==
  ASSUME AgentInv, NEW k \in DevKind, NEW d \in Devices[k], Unplug(k, d) \/ Plug(k, d)
  PROVE  /\ DOMAIN lines' = DevKind
         /\ \A j \in DevKind : lines'[j] \in Seq(Devices[j]) /\ IsInjective(lines'[j])
<1>1. DOMAIN lines = DevKind /\ \A j \in DevKind : lines[j] \in Seq(Devices[j]) /\ IsInjective(lines[j])
  BY DEF AgentInv, Typed, HostTyped
<1>2. PICK s : /\ lines' = [lines EXCEPT ![k] = s]
               /\ s \in Seq(Devices[k]) /\ IsInjective(s)
  <2>1. CASE Unplug(k, d)
    <3>1. lines' = [lines EXCEPT ![k] = Selected(lines[k], {i \in DOMAIN lines[k] : lines[k][i] # d})]
      BY <2>1 DEF Unplug
    <3>. QED  BY <1>1, <3>1, SelectedInjective
  <2>2. CASE Plug(k, d)
    <3>1. PICK t : /\ lines' = [lines EXCEPT ![k] = t] /\ t = Append(lines[k], d)
                   /\ d \notin ToSet(lines[k])
      BY <2>2 DEF Plug
    <3>2. PICK s \in Seq(Devices[k]) : s = lines[k] /\ IsInjective(s)
      BY <1>1
    <3>3. d \notin ToSet(s) /\ t = Append(s, d)
      BY <3>1, <3>2
    <3>4. t \in Seq(Devices[k]) /\ IsInjective(t)
      BY <3>2, <3>3, AppendedInjective
    <3>. QED  BY <3>1, <3>2, <3>4
  <2>. QED  BY <2>1, <2>2
<1>. QED  BY <1>1, <1>2

\* A change of the host costs one of those there may be, and leaves the process alone.
LEMMA ChangeFrame ==
  ASSUME AgentInv, NEW kind \in Change, HostChange(kind)
  PROVE  /\ left' \in [Change -> Nat]
         /\ UNCHANGED <<setup, idfile, pc, nodes, seen, uuid, on, init_flag, made, ids>>
<1>1. left \in [Change -> Nat]
  BY DEF AgentInv, Typed, HostTyped
<1>2. left[kind] \in Nat /\ left[kind] > 0 /\ left' = [left EXCEPT ![kind] = left[kind] - 1]
  BY <1>1 DEF HostChange
<1>3. left[kind] - 1 \in Nat
  BY <1>2
<1>. QED  BY <1>1, <1>2, <1>3 DEF HostChange, flags

\* A host's step that leaves or adds to the cpus and to what happened is one the process
\* does not feel.
LEMMA HostInv ==
  ASSUME AgentInv, NEW kind \in Change, HostChange(kind),
         DOMAIN lines' = DevKind,
         \A k \in DevKind : lines'[k] \in Seq(Devices[k]) /\ IsInjective(lines'[k]),
         online' \subseteq Cpus, IsFiniteSet(online'),
         disk' \in {"ok", "full", "readonly"},
         \/ trouble' = trouble /\ online \subseteq online'
         \/ trouble' = trouble \cup {"cpus"}
  PROVE  AgentInv'
<1>1. /\ left' \in [Change -> Nat]
      /\ UNCHANGED <<setup, idfile, pc, nodes, seen, uuid, on, init_flag, made, ids>>
  BY ChangeFrame
<1>2. HostTyped'
  BY <1>1 DEF AgentInv, Typed, HostTyped, Uuid
<1>3. ProcessTyped'
  BY <1>1 DEF AgentInv, Typed, ProcessTyped, Uuid
<1>4. ListsTyped'
  BY <1>1 DEF AgentInv, Typed, ListsTyped
<1>5. Alive => CpusThere'
  <2>1. SUFFICES ASSUME Alive, "cpus" \notin trouble' PROVE Len(nodes'.cpu) <= Cardinality(online')
    BY DEF CpusThere
  <2>2. "cpus" \notin trouble /\ online \subseteq online'
    BY <2>1
  <2>3. Len(nodes.cpu) <= Cardinality(online) /\ nodes.cpu \in Seq(DeviceNode(Cpus)) /\ IsFiniteSet(online)
    BY <2>1, <2>2 DEF AgentInv, RunInv, CpusThere, Typed, ListsTyped, HostTyped
  <2>4. Cardinality(online) <= Cardinality(online')
    BY <2>2, FS_Subset
  <2>5. Cardinality(online) \in Nat /\ Cardinality(online') \in Nat /\ Len(nodes.cpu) \in Nat
    BY <2>3, FS_CardinalityType
  <2>6. \A a, b, c \in Nat : a <= b /\ b <= c => a <= c
    OBVIOUS
  <2>. QED  BY <1>1, <2>3, <2>4, <2>5, <2>6
<1>6. Alive => MountsThere'
  BY <1>1 DEF AgentInv, RunInv, MountsThere
<1>7. RunInv'
  <2>1. Alive' = Alive /\ trouble \subseteq trouble'
    BY <1>1 DEF Alive
  <2>2. (init_flag => "hup" \in trouble)'
    BY <1>1, <2>1 DEF AgentInv, RunInv
  <2>3. SurvivesSoundHosts'
    BY <1>1, <2>1 DEF AgentInv, RunInv, SurvivesSoundHosts
  <2>. QED  BY <1>5, <1>6, <2>1, <2>2, <2>3 DEF RunInv
<1>. QED  BY <1>2, <1>3, <1>4, <1>7 DEF AgentInv, Typed

\* Whatever happens to the host, the lists are still those of the start.
LEMMA HostInvariant ==
  ASSUME AgentInv,
         \/ \E k \in DevKind : \E d \in Devices[k] : Unplug(k, d) \/ Plug(k, d)
         \/ \E c \in Cpus : CpuOff(c) \/ CpuOn(c)
         \/ \E i \in DOMAIN setup.mtab : MountFails(setup.mtab[i].mnt)
         \/ \E how \in {"ok", "full", "readonly"} : DiskTurns(how)
  PROVE  AgentInv'
<1>1. /\ DOMAIN lines = DevKind /\ \A k \in DevKind : lines[k] \in Seq(Devices[k]) /\ IsInjective(lines[k])
      /\ online \subseteq Cpus /\ IsFiniteSet(online) /\ disk \in {"ok", "full", "readonly"}
  BY DEF AgentInv, Typed, HostTyped
<1>2. "devices" \in Change /\ "cpus" \in Change /\ "mounts" \in Change /\ "disk" \in Change
  BY DEF Change
<1>3. ASSUME NEW k \in DevKind, NEW d \in Devices[k], Unplug(k, d) \/ Plug(k, d) PROVE AgentInv'
  <2>1. HostChange("devices") /\ UNCHANGED <<online, failing, disk, trouble>>
    BY <1>3 DEF Unplug, Plug
  <2>2. /\ DOMAIN lines' = DevKind
        /\ \A j \in DevKind : lines'[j] \in Seq(Devices[j]) /\ IsInjective(lines'[j])
    BY <1>3, DeviceStep
  <2>. QED  BY <1>1, <1>2, <2>1, <2>2, HostInv
<1>4. ASSUME NEW c \in Cpus, CpuOff(c) PROVE AgentInv'
  <2>1. /\ HostChange("cpus") /\ UNCHANGED <<lines, failing, disk>>
        /\ online' = online \ {c} /\ trouble' = trouble \cup {"cpus"}
    BY <1>4 DEF CpuOff
  <2>2. online' \subseteq Cpus /\ IsFiniteSet(online')
    BY <1>1, <2>1, FS_RemoveElement
  <2>. QED  BY <1>1, <1>2, <2>1, <2>2, HostInv
<1>5. ASSUME NEW c \in Cpus, CpuOn(c) PROVE AgentInv'
  <2>1. /\ HostChange("cpus") /\ UNCHANGED <<lines, failing, disk, trouble>>
        /\ online' = online \cup {c}
    BY <1>5 DEF CpuOn
  <2>2. online' \subseteq Cpus /\ IsFiniteSet(online') /\ online \subseteq online'
    BY <1>1, <2>1, FS_AddElement
  <2>. QED  BY <1>1, <1>2, <2>1, <2>2, HostInv
<1>6. ASSUME NEW mnt, MountFails(mnt) PROVE AgentInv'
  <2>1. HostChange("mounts") /\ UNCHANGED <<lines, online, disk, trouble>>
    BY <1>6 DEF MountFails
  <2>. QED  BY <1>1, <1>2, <2>1, HostInv
<1>7. ASSUME NEW how \in {"ok", "full", "readonly"}, DiskTurns(how) PROVE AgentInv'
  <2>1. HostChange("disk") /\ UNCHANGED <<lines, online, failing, trouble>> /\ disk' = how
    BY <1>7 DEF DiskTurns
  <2>. QED  BY <1>1, <1>2, <2>1, HostInv
<1>. QED  BY <1>3, <1>4, <1>5, <1>6, <1>7

-----------------------------------------------------------------------------
(* The start of a run. *)

\* A list taken from names that are all different has one node for each, in their order.
LEMMA InitListFacts ==
  ASSUME NEW S, NEW names \in Seq(S)
  PROVE  /\ InitList(names) \in Seq(DeviceNode(S))
         /\ IsInjective(names) =>
              /\ Len(InitList(names)) = Len(names)
              /\ \A i \in 1 .. Len(names) : InitList(names)[i].dev = names[i]
<1>1. PICK L \in Nat : L = Len(names) /\ DOMAIN names = 1 .. L
  OBVIOUS
<1>2. PICK Same : Same = {p \in (1 .. L) \X (1 .. L) : names[p[1]] = names[p[2]]}
  OBVIOUS
<1>3. PICK at : at = Linked(L, Same)
  OBVIOUS
<1>4. Links(at, L, Same)
  BY <1>3, LinkedFacts
<1>5. PICK M \in Nat : M = Len(at) /\ DOMAIN at = 1 .. M /\ \A i \in 1 .. M : at[i] \in 1 .. L
  <2>1. at \in Seq(1 .. L)
    BY <1>4 DEF Links
  <2>. QED  BY <2>1
<1>6. InitList(names) = [i \in 1 .. M |-> Node(names[at[i]])]
  BY <1>1, <1>2, <1>3, <1>5 DEF InitList
<1>7. InitList(names) \in Seq(DeviceNode(S))
  <2>1. \A i \in 1 .. M : names[at[i]] \in S
    BY <1>1, <1>5
  <2>2. \A i \in 1 .. M : Node(names[at[i]]) \in DeviceNode(S)
    BY <2>1 DEF Node, DeviceNode
  <2>3. InitList(names) \in [1 .. M -> DeviceNode(S)]
    BY <1>6, <2>2
  <2>. QED  BY <2>3
<1>8. ASSUME IsInjective(names)
      PROVE  /\ Len(InitList(names)) = L
             /\ \A i \in 1 .. L : InitList(names)[i].dev = names[i]
  <2>1. ASSUME NEW i \in 1 .. L, NEW j \in 1 .. L, i < j PROVE <<i, j>> \notin Same
    <3>1. names[i] # names[j]
      BY <1>1, <1>8, <2>1 DEF IsInjective
    <3>. QED  BY <1>2, <3>1
  <2>2. M = L /\ \A i \in 1 .. L : at[i] = i
    BY <1>4, <1>5, <2>1 DEF Links
  <2>3. InitList(names) = [i \in 1 .. L |-> Node(names[i])]
    BY <1>6, <2>2
  <2>4. Len(InitList(names)) = L
    BY <2>3
  <2>. QED  BY <2>3, <2>4 DEF Node
<1>. QED  BY <1>1, <1>7, <1>8

\* When every mount answers, push_fs links a node for each device, and another only when
\* it comes twice in succession; and it compares no name with a node that has none.
LEMMA InitFsFacts ==
  ASSUME setup \in Setups, ~HungMount
  PROVE  /\ ~\E n \in DOMAIN setup.mtab : PushFaults(n)
         /\ InitFs \in Seq([dev : STRING \ {Null}])
         /\ \A m \in DOMAIN setup.mtab : \E i \in DOMAIN InitFs : InitFs[i].dev = setup.mtab[m].dev
         /\ \A i, j \in DOMAIN InitFs : i < j /\ InitFs[i].dev = InitFs[j].dev => j = i + 1
<1>1. PICK Names, mtab : Names = STRING \ {Null} /\ mtab = setup.mtab
  OBVIOUS
<1>2. mtab \in Seq([dev : Names, mnt : STRING])
  BY <1>1, Constants
<1>3. PICK L \in Nat : L = Len(mtab) /\ DOMAIN mtab = 1 .. L /\ mtab = setup.mtab
  BY <1>1, <1>2
<1>4. \A m \in 1 .. L : mtab[m].mnt \notin failing /\ mtab[m].dev \in Names
  <2>1. \A m \in 1 .. L : mtab[m] \in [dev : Names, mnt : STRING]
    <3>1. \A S, t : t \in Seq(S) => \A m \in 1 .. Len(t) : t[m] \in S
      OBVIOUS
    <3>. QED  BY <1>3, <1>2, <3>1
  <2>2. \A m \in 1 .. L : mtab[m].mnt \notin failing
    BY <1>3 DEF HungMount
  <2>. QED  BY <2>1, <2>2
<1>5. Stops = {p \in (1 .. L) \X (1 .. L) : mtab[p[1]].dev = mtab[p[2]].dev}
  <2>1. Stops = {p \in (1 .. L) \X (1 .. L) : mtab[p[1]].mnt \in failing \/ mtab[p[1]].dev = mtab[p[2]].dev}
    BY <1>3 DEF Stops, MtabPairs
  <2>. QED  BY <1>4, <2>1
<1>6. \A i, j \in 1 .. L : <<i, j>> \in Stops <=> mtab[i].dev = mtab[j].dev
  BY <1>5
<1>7. PICK at : at = Linked(L, Stops) /\ Links(at, L, Stops)
  BY LinkedFacts
<1>8. PICK M \in Nat : M = Len(at) /\ DOMAIN at = 1 .. M /\ \A i \in 1 .. M : at[i] \in 1 .. L
  <2>1. at \in Seq(1 .. L)
    BY <1>7 DEF Links
  <2>. QED  BY <2>1
<1>9. InitFs = [i \in 1 .. M |-> [dev |-> mtab[at[i]].dev]]
  <2>1. InitFs = [i \in 1 .. M |-> [dev |-> IF mtab[at[i]].mnt \in failing THEN Null ELSE mtab[at[i]].dev]]
    BY <1>3, <1>7, <1>8 DEF InitFs
  <2>. QED  BY <1>4, <1>8, <2>1
<1>10. InitFs \in Seq([dev : STRING \ {Null}])
  <2>1. InitFs \in [1 .. M -> [dev : Names]]
    BY <1>4, <1>8, <1>9
  <2>2. \A S, t : t \in [1 .. M -> S] => t \in Seq(S)
    OBVIOUS
  <2>3. InitFs \in Seq([dev : Names])
    BY <2>1, <2>2
  <2>. QED  BY <1>1, <2>3
<1>11. DOMAIN InitFs = 1 .. M /\ \A i \in 1 .. M : InitFs[i].dev = mtab[at[i]].dev
  BY <1>9
<1>12. ASSUME NEW m \in 1 .. L PROVE \E i \in 1 .. M : InitFs[i].dev = mtab[m].dev
  <2>1. PICK i \in 1 .. M : at[i] = m \/ <<at[i], m>> \in Stops
    BY <1>7, <1>8 DEF Links
  <2>. QED  BY <1>6, <1>8, <1>11, <2>1
<1>13. ASSUME NEW i \in 1 .. M, NEW j \in 1 .. M, i < j, InitFs[i].dev = InitFs[j].dev PROVE j = i + 1
  <2>1. <<at[i], at[j]>> \in Stops
    BY <1>6, <1>8, <1>11, <1>13
  <2>. QED  BY <1>7, <1>8, <1>13, <2>1 DEF Links
<1>14. ASSUME NEW n \in 1 .. L PROVE ~PushFaults(n)
  <2>1. PICK list : list = Linked(n - 1, Stops) /\ Links(list, n - 1, Stops)
    BY LinkedFacts
  <2>2. PICK K \in Nat : K = Len(list) /\ \A i \in 1 .. K : list[i] \in 1 .. L
    <3>1. list \in Seq(1 .. n - 1)
      BY <2>1 DEF Links
    <3>2. Len(list) \in Nat /\ \A i \in 1 .. Len(list) : list[i] \in 1 .. n - 1
      BY <3>1
    <3>3. 1 .. n - 1 \subseteq 1 .. L
      OBVIOUS
    <3>. QED  BY <3>2, <3>3
  <2>. DEFINE T == {i \in 1 .. K - 1 : <<list[i], n>> \in Stops}
  <2>3. PushFaults(n) => T # {} /\ mtab[list[Min(T)]].mnt \in failing
    BY <1>3, <2>1, <2>2 DEF PushFaults
  <2>4. ASSUME T # {} PROVE Min(T) \in T
    <3>1. T \in SUBSET Nat
      OBVIOUS
    <3>2. \E i \in T : \A j \in T : i <= j
      <4>. HIDE DEF T
      <4>. QED  BY <2>4, <3>1, LeastNumber
    <3>. QED  BY <3>2 DEF Min
  <2>5. ASSUME T # {} PROVE mtab[list[Min(T)]].mnt \notin failing
    <3>1. Min(T) \in 1 .. K
      BY <2>4, <2>5
    <3>. QED  BY <1>4, <2>2, <3>1
  <2>. QED  BY <2>3, <2>5
<1>. QED  BY <1>3, <1>10, <1>11, <1>12, <1>13, <1>14

\* A new run: its lists are of the host as it is now.
LEMMA StartInv ==
  ASSUME AgentInv, Start
  PROVE  AgentInv'
<1>1. /\ setup \in Setups /\ left \in [Change -> Nat]
      /\ \A k \in DevKind : lines[k] \in Seq(Devices[k])
      /\ online \in SUBSET Nat /\ online \subseteq Cpus /\ IsFiniteSet(online)
  BY Constants DEF AgentInv, Typed, HostTyped
<1>2. /\ left.runs > 0 /\ left' = [left EXCEPT !.runs = left.runs - 1]
      /\ pc' \in {"dead", "id"} /\ (pc' = "dead" => \E n \in DOMAIN setup.mtab : PushFaults(n))
      /\ uuid' = Nil /\ on' = TRUE /\ init_flag' = FALSE
      /\ seen' = [k \in DevKind |-> {}]
      /\ trouble' = (trouble \cap {"disk"}) \cup (IF HungMount THEN {"mount"} ELSE {})
      /\ UNCHANGED <<setup, lines, online, failing, disk, idfile, made, ids>>
  BY DEF Start, hostVars
<1>3. nodes' = [cpu |-> InitList(Ascending(online)), fs |-> InitFs,
                iface |-> InitList(lines.iface), iodev |-> InitList(lines.iodev)]
  BY DEF Start
<1>4. HostTyped'
  <2>1. left' \in [Change -> Nat]
    <3>1. "runs" \in Change /\ left["runs"] \in Nat /\ left["runs"] > 0
      BY <1>1, <1>2 DEF Change
    <3>2. left["runs"] - 1 \in Nat
      BY <3>1
    <3>. QED  BY <1>1, <1>2, <3>1, <3>2
  <2>. QED  BY <1>2, <2>1 DEF AgentInv, Typed, HostTyped, Uuid
<1>5. ProcessTyped'
  <2>1. Nil \in Uuid
    <3>1. made \in Nat
      BY DEF AgentInv, Typed, HostTyped
    <3>. QED  BY <3>1 DEF Uuid, Nil
  <2>2. trouble' \subseteq {"hup", "cpus", "mount", "disk"}
    BY <1>2
  <2>. QED  BY <1>2, <2>1, <2>2 DEF AgentInv, Typed, ProcessTyped, Uuid
<1>6. PICK cpu, iface, iodev :
        /\ cpu = InitList(Ascending(online)) /\ iface = InitList(lines.iface) /\ iodev = InitList(lines.iodev)
        /\ iface \in Seq(DeviceNode(Devices["iface"])) /\ iodev \in Seq(DeviceNode(Devices["iodev"]))
  BY <1>1, InitListFacts DEF DevKind
<1>7. /\ cpu \in Seq(DeviceNode(Cpus)) /\ Len(cpu) = Cardinality(online) /\ Cardinality(online) \in Nat
      /\ \A i, j \in DOMAIN cpu : cpu[i].dev = cpu[j].dev => i = j
  <2>1. PICK N \in Nat, names \in Seq(Cpus) :
          /\ N = Cardinality(online) /\ names = Ascending(online) /\ DOMAIN names = 1 .. N /\ Len(names) = N
          /\ \A i \in 1 .. N : Rank(online, names[i]) = i - 1
    <3>1. Ascending(online) \in Seq(Cpus)
      <4>1. \A S, T, s : S \subseteq T /\ s \in Seq(S) => s \in Seq(T)
        OBVIOUS
      <4>. QED  BY <1>1, <4>1, AscendingFacts
    <3>2. DOMAIN Ascending(online) = 1 .. Len(Ascending(online))
      BY <3>1
    <3>. QED  BY <1>1, <3>1, <3>2, AscendingFacts
  <2>2. IsInjective(names)
    <3>1. \A i, j \in 1 .. N : names[i] = names[j] => i - 1 = j - 1
      BY <2>1
    <3>2. \A i, j \in 1 .. N : i - 1 = j - 1 => i = j
      OBVIOUS
    <3>. QED  BY <2>1, <3>1, <3>2 DEF IsInjective
  <2>3. /\ cpu \in Seq(DeviceNode(Cpus)) /\ Len(cpu) = N
        /\ \A i \in 1 .. N : cpu[i].dev = names[i]
    BY <1>6, <2>1, <2>2, InitListFacts
  <2>4. DOMAIN cpu = 1 .. N
    BY <2>3
  <2>. QED  BY <2>1, <2>2, <2>3, <2>4 DEF IsInjective
<1>8. /\ nodes'.cpu = cpu /\ nodes'.iface = iface /\ nodes'.iodev = iodev /\ nodes'.fs = InitFs
      /\ DOMAIN nodes' = ListKind
  <2>1. nodes' = [cpu |-> cpu, fs |-> InitFs, iface |-> iface, iodev |-> iodev]
    BY <1>3, <1>6
  <2>. QED  BY <2>1 DEF ListKind, DevKind
<1>9. ListsTyped'
  <2>1. \A k \in DevKind : nodes'[k] \in Seq(DeviceNode(Devices[k])) /\ seen'[k] \subseteq Devices[k]
    BY <1>2, <1>6, <1>8 DEF DevKind
  <2>. QED  BY <1>7, <1>8, <2>1 DEF ListsTyped
<1>10. CpusThere'
  BY <1>2, <1>7, <1>8 DEF CpusThere
<1>11. MountsThere'
  <2>1. SUFFICES ASSUME "mount" \notin trouble' PROVE MountsThere'
    BY DEF MountsThere
  <2>2. ~HungMount
    BY <1>2, <2>1
  <2>. QED  BY <1>1, <1>2, <1>8, <2>2, InitFsFacts DEF MountsThere
<1>12. SurvivesSoundHosts'
  <2>1. pc' = "dead" => HungMount
    BY <1>1, <1>2, InitFsFacts
  <2>. QED  BY <1>2, <2>1 DEF SurvivesSoundHosts
<1>. QED  BY <1>2, <1>4, <1>5, <1>9, <1>10, <1>11, <1>12 DEF AgentInv, Typed, RunInv

-----------------------------------------------------------------------------
(* The steps of a run. *)

\* A step that leaves the lists and the host alone, and does not come to life.
LEMMA PlainStep ==
  ASSUME AgentInv,
         UNCHANGED <<setup, left, lines, online, disk, nodes, seen>>,
         made' \in Nat, made <= made', idfile' \in {NoFile, Empty} \cup Uuid', uuid' \in Uuid',
         ids' \subseteq Uuid',
         on' \in BOOLEAN, init_flag' \in BOOLEAN,
         Alive' => Alive,
         pc' \in {"down", "id", "write", "net", "loop", "sleep", "exited", "dead"},
         trouble \subseteq trouble', trouble' \subseteq {"hup", "cpus", "mount", "disk"},
         init_flag' => init_flag \/ "hup" \in trouble',
         pc' = "dead" => pc = "dead" \/ trouble' # {} \/ ~setup.named \/ ~setup.user
  PROVE  AgentInv'
<1>1. HostTyped'
  BY DEF AgentInv, Typed, HostTyped
<1>2. ProcessTyped'
  BY DEF ProcessTyped
<1>3. ListsTyped'
  BY DEF AgentInv, Typed, ListsTyped
<1>4. Alive' => CpusThere' /\ MountsThere'
  <2>1. SUFFICES ASSUME Alive' PROVE CpusThere' /\ MountsThere'
    OBVIOUS
  <2>2. CpusThere /\ MountsThere
    BY <2>1 DEF AgentInv, RunInv
  <2>3. CpusThere'
    BY <2>2 DEF CpusThere
  <2>4. MountsThere'
    BY <2>2 DEF MountsThere
  <2>. QED  BY <2>3, <2>4
<1>5. (init_flag => "hup" \in trouble)'
  BY DEF AgentInv, RunInv
<1>6. SurvivesSoundHosts'
  BY DEF AgentInv, RunInv, SurvivesSoundHosts
<1>. QED  BY <1>1, <1>2, <1>3, <1>4, <1>5, <1>6 DEF AgentInv, Typed, RunInv

\* What the types say of the identity, where it is left as it is.
LEMMA IdTyped ==
  ASSUME AgentInv
  PROVE  /\ made \in Nat /\ idfile \in {NoFile, Empty} \cup Uuid /\ uuid \in Uuid /\ ids \subseteq Uuid
         /\ on \in BOOLEAN /\ init_flag \in BOOLEAN
         /\ trouble \subseteq {"hup", "cpus", "mount", "disk"}
         /\ UNCHANGED made => UNCHANGED Uuid /\ made <= made'
BY DEF AgentInv, Typed, HostTyped, ProcessTyped, Uuid

\* profile_uuid, whose only ends are of the user and of the disk.
LEMMA IdentityInv ==
  ASSUME AgentInv, ReadId \/ DropId \/ CreateId \/ NoId \/ WriteId
  PROVE  AgentInv'
<1>1. /\ UNCHANGED <<setup, left, lines, online, disk, nodes, seen, on, init_flag, ids>>
      /\ pc \in {"id", "write"}
      /\ pc' \in {"id", "write", "net", "dead"}
  BY DEF ReadId, DropId, CreateId, NoId, WriteId, restOfId, hostVars, flags
<1>2. /\ trouble' = trouble \/ trouble' = trouble \cup {"disk"}
      /\ pc' = "dead" => trouble' # {} \/ ~setup.user
  BY DEF ReadId, DropId, CreateId, NoId, WriteId
<1>3. /\ made' \in Nat /\ made <= made' /\ idfile' \in {NoFile, Empty} \cup Uuid'
      /\ uuid' \in Uuid' /\ ids' \subseteq Uuid'
  <2>1. CASE ~WriteId
    <3>1. /\ UNCHANGED made /\ uuid' \in {uuid, idfile} /\ idfile' \in {idfile, NoFile, Empty}
          /\ (uuid' # uuid => idfile \notin {NoFile, Empty})
      BY <2>1 DEF ReadId, DropId, CreateId, NoId, HasId
    <3>. QED  BY <1>1, <3>1, IdTyped
  <2>2. CASE WriteId
    <3>1. made' = made + 1 /\ uuid' = made + 1 /\ idfile' \in {idfile, made + 1}
      BY <2>2 DEF WriteId
    <3>2. Uuid' = 0 .. made' /\ Uuid = 0 .. made
      BY DEF Uuid
    <3>3. \A m \in Nat : m <= m + 1 /\ 0 .. m \subseteq 0 .. m + 1 /\ m + 1 \in 0 .. m + 1 /\ m + 1 \in Nat
      OBVIOUS
    <3>. QED  BY <1>1, <3>1, <3>2, <3>3, IdTyped
  <2>. QED  BY <2>1, <2>2
<1>4. Alive' => Alive
  BY <1>1 DEF Alive
<1>5. /\ pc' \in {"down", "id", "write", "net", "loop", "sleep", "exited", "dead"}
      /\ trouble \subseteq trouble' /\ trouble' \subseteq {"hup", "cpus", "mount", "disk"}
  BY <1>1, <1>2, IdTyped
<1>. QED  BY <1>1, <1>2, <1>3, <1>4, <1>5, IdTyped, PlainStep

\* A turn faults when a cpu is gone, a mount has failed, or the metadata is not set.
LEMMA TurnFaultsOf ==
  ASSUME AgentInv, TurnFaults
  PROVE  trouble # {} \/ ~setup.named
<1>1. pc = "loop" /\ (PastCpus(nodes.cpu) \/ JsonFaults)
  BY DEF TurnFaults
<1>2. CpusThere /\ MountsThere
  BY <1>1 DEF AgentInv, RunInv, Alive
<1>3. CASE PastCpus(nodes.cpu)
  <2>1. Len(nodes.cpu) \in Nat /\ Cardinality(online) \in Nat
    BY FS_CardinalityType DEF AgentInv, Typed, ListsTyped, HostTyped
  <2>2. ~(Len(nodes.cpu) <= Cardinality(online))
    BY <1>3, <2>1 DEF PastCpus
  <2>. QED  BY <1>2, <2>2 DEF CpusThere
<1>4. CASE JsonFaults
  <2>1. SUFFICES ASSUME trouble = {}, NEW i \in DOMAIN nodes.fs, nodes.fs[i].dev = Null PROVE FALSE
    BY <1>4 DEF JsonFaults
  <2>2. nodes.fs \in Seq([dev : STRING \ {Null}])
    BY <1>2, <2>1 DEF MountsThere
  <2>3. \A S, t : t \in Seq(S) => \A m \in DOMAIN t : t[m] \in S
    OBVIOUS
  <2>4. nodes.fs[i] \in [dev : STRING \ {Null}]
    BY <2>1, <2>2, <2>3
  <2>. QED  BY <2>1, <2>4
<1>. QED  BY <1>1, <1>3, <1>4

\* The steps that leave the lists alone, but for the exit, which frees them.
LEMMA ProcessInv ==
  ASSUME AgentInv, Connect \/ TurnFaults \/ Wake \/ Reinit \/ Quitit \/ Hangup \/ Kill
  PROVE  AgentInv'
<1>1. CASE nodes' = nodes
  <2>1. /\ UNCHANGED <<setup, left, lines, online, disk, seen, idfile, made, uuid, ids>>
        /\ (pc \in {"net", "loop", "sleep"} \/ pc' = "down")
        /\ pc' \in {"down", "loop", "sleep", "exited", "dead"}
    BY <1>1 DEF Connect, TurnFaults, Wake, Reinit, Quitit, Hangup, Kill, Running,
                restOfId, restOfTurn, hostVars, flags
  <2>2. /\ on' \in {on, FALSE}
        /\ \/ init_flag' = init_flag /\ trouble' = trouble
           \/ trouble' = trouble \cup {"hup"} /\ init_flag' = TRUE
    BY DEF Connect, TurnFaults, Wake, Reinit, Quitit, Hangup, Kill, restOfId, restOfTurn, flags
  <2>3. Alive' => Alive
    BY <2>1 DEF Alive
  <2>4. pc' = "dead" => trouble' # {} \/ ~setup.named
    <3>1. SUFFICES ASSUME pc' = "dead" PROVE trouble' # {} \/ ~setup.named
      OBVIOUS
    <3>2. CASE TurnFaults
      BY <2>2, <3>2, TurnFaultsOf
    <3>3. CASE Reinit
      <4>1. init_flag /\ trouble' = trouble
        BY <3>3 DEF Reinit, restOfTurn
      <4>. QED  BY <4>1 DEF AgentInv, RunInv
    <3>4. CASE ~TurnFaults /\ ~Reinit
      BY <3>1, <3>4 DEF Connect, Wake, Quitit, Hangup, Kill, Running
    <3>. QED  BY <3>2, <3>3, <3>4
  <2>5. /\ on' \in BOOLEAN /\ init_flag' \in BOOLEAN /\ trouble \subseteq trouble'
        /\ trouble' \subseteq {"hup", "cpus", "mount", "disk"}
    BY <2>2, IdTyped
  <2>6. /\ made' \in Nat /\ made <= made' /\ idfile' \in {NoFile, Empty} \cup Uuid'
        /\ uuid' \in Uuid' /\ ids' \subseteq Uuid'
    BY <2>1, IdTyped
  <2>. QED  BY <1>1, <2>1, <2>2, <2>3, <2>4, <2>5, <2>6, PlainStep
<1>2. CASE nodes' # nodes
  <2>1. /\ pc' = "exited" /\ nodes' = NoLists
        /\ UNCHANGED <<setup, left, lines, online, disk, seen, idfile, made, uuid, ids, on, init_flag, trouble>>
    BY <1>2 DEF Connect, TurnFaults, Wake, Reinit, Quitit, Hangup, Kill,
                restOfId, restOfTurn, hostVars, flags
  <2>2. HostTyped'
    BY <2>1 DEF AgentInv, Typed, HostTyped, Uuid
  <2>3. ProcessTyped'
    BY <2>1 DEF AgentInv, Typed, ProcessTyped, Uuid
  <2>4. ListsTyped'
    <3>1. DOMAIN nodes' = ListKind /\ \A k \in ListKind : nodes'[k] = <<>>
      BY <2>1 DEF NoLists
    <3>2. "cpu" \in ListKind /\ DevKind \subseteq ListKind
      BY DEF ListKind
    <3>3. \A S : <<>> \in Seq(S) /\ DOMAIN <<>> = {}
      OBVIOUS
    <3>4. /\ \A k \in DevKind : nodes'[k] \in Seq(DeviceNode(Devices[k])) /\ seen'[k] \subseteq Devices[k]
          /\ nodes'.cpu \in Seq(DeviceNode(Cpus))
      BY <2>1, <3>1, <3>2, <3>3 DEF AgentInv, Typed, ListsTyped
    <3>5. \A i, j \in DOMAIN nodes'.cpu : nodes'.cpu[i].dev = nodes'.cpu[j].dev => i = j
      BY <3>1, <3>2, <3>3
    <3>. QED  BY <3>1, <3>4, <3>5 DEF ListsTyped
  <2>5. RunInv'
    BY <2>1 DEF AgentInv, RunInv, Alive, SurvivesSoundHosts
  <2>. QED  BY <2>2, <2>3, <2>4, <2>5 DEF AgentInv, Typed
<1>. QED  BY <1>1, <1>2

-----------------------------------------------------------------------------
(* A turn. *)

\* LineOf is the first line that holds the name, or 0 when no line does.
LEMMA LineOfFacts ==
  ASSUME NEW S, NEW file \in Seq(S), NEW d
  PROVE  /\ LineOf(d, file) = 0 => d \notin ToSet(file)
         /\ LineOf(d, file) # 0 =>
              /\ LineOf(d, file) \in 1 .. Len(file)
              /\ \/ file[LineOf(d, file)] = d
                 \/ <<d, file[LineOf(d, file)]>> \in Holds
              /\ \A j \in 1 .. Len(file) : j < LineOf(d, file) =>
                   file[j] # d /\ <<d, file[j]>> \notin Holds
<1>. DEFINE I == {i \in 1 .. Len(file) : file[i] = d \/ <<d, file[i]>> \in Holds}
<1>1. LineOf(d, file) = IF I # {} THEN Min(I) ELSE 0
  BY DEF LineOf, SelectInSeq
<1>2. Len(file) \in Nat /\ DOMAIN file = 1 .. Len(file)
  OBVIOUS
<1>3. CASE I = {}
  BY <1>1, <1>2, <1>3 DEF ToSet
<1>4. CASE I # {}
  <2>1. I \in SUBSET Nat
    BY <1>2
  <2>2. PICK m \in I : \A i \in I : m <= i
    <3>. HIDE DEF I
    <3>. QED  BY <1>4, <2>1, LeastNumber
  <2>3. Min(I) \in I /\ \A i \in I : Min(I) <= i
    <3>. HIDE DEF I
    <3>. QED  BY <2>2 DEF Min
  <2>4. PICK l \in 1 .. Len(file) : l = LineOf(d, file) /\ l \in I /\ \A i \in I : l <= i
    BY <1>1, <1>4, <2>3
  <2>5. l # 0 /\ (file[l] = d \/ <<d, file[l]>> \in Holds)
    BY <1>2, <2>4
  <2>6. ASSUME NEW j \in 1 .. Len(file), j < l PROVE file[j] # d /\ <<d, file[j]>> \notin Holds
    BY <1>2, <2>4, <2>6
  <2>. QED  BY <2>4, <2>5, <2>6
<1>. QED  BY <1>3, <1>4

\* What a poll of devices makes of a node.
LEMMA PolledDevsFacts ==
  ASSUME NEW S, NEW list \in Seq(DeviceNode(S)), NEW file \in Seq(S), NEW old \in SUBSET S,
         NEW polled, polled = PolledDevs(list, file, old)
  PROVE  /\ polled \in Seq(DeviceNode(S)) /\ DOMAIN polled = DOMAIN list
         /\ \A i \in DOMAIN list :
              /\ FirstLine(list[i].dev, file) /\ polled[i].fresh => polled[i].of = {list[i].dev}
              /\ ~polled[i].fresh => \E j \in 1 .. i : list[j].dev \notin ToSet(file)
<1>1. PICK L \in Nat : L = Len(list) /\ DOMAIN list = 1 .. L
  OBVIOUS
<1>2. \A i \in 1 .. L : list[i] \in DeviceNode(S)
  BY <1>1
<1>3. PICK R : R = Reach(list, ToSet(file) \cup old)
  OBVIOUS
<1>4. ToSet(file) \subseteq S /\ Len(file) \in Nat /\ \A j \in 1 .. Len(file) : file[j] \in S
  <2>1. DOMAIN file = 1 .. Len(file) /\ Len(file) \in Nat /\ \A j \in 1 .. Len(file) : file[j] \in S
    OBVIOUS
  <2>. QED  BY <2>1 DEF ToSet
<1>5. /\ DOMAIN polled = 1 .. L
      /\ polled = [i \in 1 .. L |-> polled[i]]
      /\ \A i \in 1 .. L :
           polled[i] = CASE i \notin R -> [list[i] EXCEPT !.fresh = FALSE]
                         [] i \in R /\ LineOf(list[i].dev, file) # 0 ->
                              [dev |-> list[i].dev, of |-> {file[LineOf(list[i].dev, file)]}, fresh |-> TRUE]
                         [] OTHER -> [dev |-> list[i].dev, of |-> Finds(list[i].dev, old), fresh |-> FALSE]
  BY <1>1, <1>3 DEF PolledDevs
<1>6. ASSUME NEW i \in 1 .. L
      PROVE  /\ polled[i] \in DeviceNode(S)
             /\ FirstLine(list[i].dev, file) /\ polled[i].fresh => polled[i].of = {list[i].dev}
             /\ ~polled[i].fresh => \E j \in 1 .. i : list[j].dev \notin ToSet(file)
  <2>. DEFINE d == list[i].dev
              at == LineOf(d, file)
  <2>1. list[i] \in DeviceNode(S) /\ d \in S
    BY <1>2 DEF DeviceNode
  <2>2. i \in 1 .. i
    OBVIOUS
  <2>3. CASE i \notin R
    <3>1. polled[i] = [list[i] EXCEPT !.fresh = FALSE]
      BY <1>5, <2>3
    <3>2. polled[i] \in DeviceNode(S) /\ ~polled[i].fresh
      BY <2>1, <3>1 DEF DeviceNode
    <3>3. PICK j \in 1 .. i : Finds(list[j].dev, ToSet(file) \cup old) = {}
      BY <1>1, <1>3, <2>3 DEF Reach
    <3>4. list[j].dev \notin ToSet(file)
      BY <3>3 DEF Finds
    <3>. QED  BY <3>2, <3>4
  <2>4. CASE i \in R /\ at # 0
    <3>1. polled[i] = [dev |-> d, of |-> {file[at]}, fresh |-> TRUE]
      BY <1>5, <2>4
    <3>2. at \in 1 .. Len(file) /\ (file[at] = d \/ <<d, file[at]>> \in Holds)
          /\ \A j \in 1 .. Len(file) : j < at => file[j] # d /\ <<d, file[j]>> \notin Holds
      BY <2>4, LineOfFacts
    <3>3. file[at] \in S
      BY <1>4, <3>2
    <3>4. polled[i] \in DeviceNode(S) /\ polled[i].fresh /\ polled[i].of = {file[at]}
      <4>. HIDE DEF at, d
      <4>. QED  BY <2>1, <3>1, <3>3 DEF DeviceNode
    <3>5. ASSUME FirstLine(d, file) PROVE file[at] = d
      <4>1. PICK m \in 1 .. Len(file) : file[m] = d /\ \A j \in 1 .. m - 1 : <<d, file[j]>> \notin Holds
        <5>1. DOMAIN file = 1 .. Len(file)
          OBVIOUS
        <5>. QED  BY <3>5, <5>1 DEF FirstLine
      <4>2. ~(m < at)
        BY <3>2, <4>1
      <4>3. at = m \/ at \in 1 .. m - 1
        <5>. HIDE DEF at
        <5>. QED  BY <1>4, <3>2, <4>1, <4>2
      <4>. QED  BY <3>2, <4>1, <4>3
    <3>. QED  BY <3>4, <3>5
  <2>5. CASE i \in R /\ at = 0
    <3>1. polled[i] = [dev |-> d, of |-> Finds(d, old), fresh |-> FALSE]
      BY <1>5, <2>5
    <3>2. Finds(d, old) \in SUBSET S
      BY DEF Finds
    <3>3. polled[i] \in DeviceNode(S) /\ ~polled[i].fresh
      <4>. HIDE DEF at, d
      <4>. QED  BY <2>1, <3>1, <3>2 DEF DeviceNode
    <3>4. d \notin ToSet(file)
      BY <2>5, LineOfFacts
    <3>. QED  BY <2>2, <3>3, <3>4
  <2>. QED  BY <2>3, <2>4, <2>5
<1>7. polled \in Seq(DeviceNode(S))
  <2>1. polled \in [1 .. L -> DeviceNode(S)]
    BY <1>5, <1>6
  <2>. QED  BY <2>1
<1>. QED  BY <1>1, <1>5, <1>6, <1>7

\* What a poll makes of the cpus, with no more nodes than there are cpus.
LEMMA PolledCpusFacts ==
  ASSUME online \subseteq Cpus, IsFiniteSet(online),
         NEW list \in Seq(DeviceNode(Cpus)), Len(list) <= Cardinality(online),
         NEW polled, polled = PolledCpus(list)
  PROVE  /\ polled \in Seq(DeviceNode(Cpus)) /\ DOMAIN polled = DOMAIN list
         /\ \A i \in DOMAIN list : /\ polled[i].dev = list[i].dev
                                   /\ polled[i].of = {Ascending(online)[i]}
                                   /\ Ascending(online)[i] \in online
<1>1. PICK L \in Nat : L = Len(list) /\ DOMAIN list = 1 .. L
  OBVIOUS
<1>2. \A i \in 1 .. L : list[i] \in DeviceNode(Cpus)
  BY <1>1
<1>3. ASSUME NEW i \in 1 .. L PROVE Ascending(online)[i] \in online
  <2>1. online \in SUBSET Nat
    BY Constants
  <2>2. PICK N \in Nat : N = Cardinality(online) /\ L <= N
    BY <1>1, FS_CardinalityType
  <2>3. i \in 1 .. N
    BY <2>2
  <2>. QED  BY <2>1, <2>2, <2>3, AscendingFacts
<1>4. /\ DOMAIN polled = 1 .. L
      /\ polled = [i \in 1 .. L |-> polled[i]]
      /\ \A i \in 1 .. L : polled[i] = [list[i] EXCEPT !.of = {Ascending(online)[i]}, !.fresh = TRUE]
  BY <1>1 DEF PolledCpus
<1>5. ASSUME NEW i \in 1 .. L
      PROVE  polled[i] \in DeviceNode(Cpus) /\ polled[i].dev = list[i].dev /\ polled[i].of = {Ascending(online)[i]}
  <2>1. {Ascending(online)[i]} \in SUBSET Cpus
    BY <1>3
  <2>. QED  BY <1>2, <1>4, <2>1, ZenonT(30) DEF DeviceNode
<1>6. polled \in Seq(DeviceNode(Cpus))
  <2>1. polled \in [1 .. L -> DeviceNode(Cpus)]
    BY <1>4, <1>5
  <2>. QED  BY <2>1
<1>. QED  BY <1>1, <1>3, <1>4, <1>5, <1>6

\* The lists of a turn, and what was read of the files by then.
LEMMA TurnLists ==
  ASSUME AgentInv, Turn
  PROVE  /\ DOMAIN nodes' = ListKind /\ nodes'.fs = nodes.fs
         /\ \A k \in DevKind :
              /\ lines[k] \in Seq(Devices[k]) /\ nodes[k] \in Seq(DeviceNode(Devices[k]))
              /\ \E old \in SUBSET Devices[k] : nodes'[k] = PolledDevs(nodes[k], lines[k], old)
         /\ online \subseteq Cpus /\ IsFiniteSet(online)
         /\ nodes.cpu \in Seq(DeviceNode(Cpus)) /\ Len(nodes.cpu) <= Cardinality(online)
         /\ nodes'.cpu = PolledCpus(nodes.cpu)
<1>1. /\ DOMAIN nodes = ListKind
      /\ \A k \in DevKind : /\ lines[k] \in Seq(Devices[k]) /\ nodes[k] \in Seq(DeviceNode(Devices[k]))
                            /\ seen[k] \subseteq Devices[k]
      /\ nodes.cpu \in Seq(DeviceNode(Cpus))
      /\ online \subseteq Cpus /\ IsFiniteSet(online)
  BY DEF AgentInv, Typed, HostTyped, ListsTyped
<1>2. Len(nodes.cpu) <= Cardinality(online)
  <2>1. Len(nodes.cpu) \in Nat /\ Cardinality(online) \in Nat
    BY <1>1, FS_CardinalityType
  <2>2. ~(Len(nodes.cpu) > Cardinality(online))
    BY DEF Turn, PastCpus
  <2>. QED  BY <2>1, <2>2
<1>3. PICK old : /\ \A k \in DevKind : old[k] \subseteq seen[k]
                 /\ nodes' = [nodes EXCEPT !.cpu = PolledCpus(@),
                                           !.iface = PolledDevs(@, lines.iface, old.iface),
                                           !.iodev = PolledDevs(@, lines.iodev, old.iodev)]
  BY DEF Turn
<1>4. /\ DOMAIN nodes' = ListKind /\ nodes'.fs = nodes.fs /\ nodes'.cpu = PolledCpus(nodes.cpu)
      /\ nodes'["iface"] = PolledDevs(nodes["iface"], lines["iface"], old["iface"])
      /\ nodes'["iodev"] = PolledDevs(nodes["iodev"], lines["iodev"], old["iodev"])
  BY <1>1, <1>3 DEF ListKind, DevKind
<1>5. \A k \in DevKind : nodes'[k] = PolledDevs(nodes[k], lines[k], old[k])
  BY <1>4 DEF DevKind
<1>6. \A k \in DevKind : old[k] \in SUBSET Devices[k]
  BY <1>1, <1>3
<1>. QED  BY <1>1, <1>2, <1>4, <1>5, <1>6

\* A turn keeps the names in the lists, and the mounts' list as it is.
LEMMA TurnInv ==
  ASSUME AgentInv, Turn
  PROVE  AgentInv'
<1>1. /\ pc = "loop" /\ pc' = "sleep" /\ ids' = ids \cup {uuid}
      /\ seen' = [k \in DevKind |-> seen[k] \cup ToSet(lines[k])]
      /\ UNCHANGED <<setup, left, lines, online, failing, disk, idfile, uuid, on, init_flag, made, trouble>>
  BY DEF Turn, restOfTurn, hostVars, flags
<1>2. HostTyped'
  BY <1>1 DEF AgentInv, Typed, HostTyped, Uuid
<1>3. ProcessTyped'
  BY <1>1 DEF AgentInv, Typed, ProcessTyped, Uuid
<1>4. ASSUME NEW k \in DevKind
      PROVE  nodes'[k] \in Seq(DeviceNode(Devices[k])) /\ seen'[k] \subseteq Devices[k]
  <2>1. PICK old \in SUBSET Devices[k] : nodes'[k] = PolledDevs(nodes[k], lines[k], old)
    BY TurnLists
  <2>2. lines[k] \in Seq(Devices[k]) /\ nodes[k] \in Seq(DeviceNode(Devices[k]))
    BY TurnLists
  <2>3. nodes'[k] \in Seq(DeviceNode(Devices[k]))
    BY <2>1, <2>2, PolledDevsFacts
  <2>4. ToSet(lines[k]) \subseteq Devices[k]
    BY <2>2 DEF ToSet
  <2>. QED  BY <1>1, <2>3, <2>4 DEF AgentInv, Typed, ListsTyped
<1>5. PICK polled : polled = nodes'.cpu
  OBVIOUS
<1>6. /\ polled \in Seq(DeviceNode(Cpus)) /\ DOMAIN polled = DOMAIN nodes.cpu
      /\ \A i \in DOMAIN nodes.cpu : polled[i].dev = nodes.cpu[i].dev
  BY <1>5, TurnLists, PolledCpusFacts
<1>7. ListsTyped'
  <2>1. \A i, j \in DOMAIN polled : polled[i].dev = polled[j].dev => i = j
    BY <1>6 DEF AgentInv, Typed, ListsTyped
  <2>. QED  BY <1>4, <1>5, <1>6, <2>1, TurnLists DEF ListsTyped
<1>8. CpusThere /\ MountsThere
  BY <1>1 DEF AgentInv, RunInv, Alive
<1>9. CpusThere'
  <2>1. Len(polled) = Len(nodes.cpu)
    <3>1. nodes.cpu \in Seq(DeviceNode(Cpus))
      BY TurnLists
    <3>2. \A S, s, t : s \in Seq(S) /\ t \in Seq(S) /\ DOMAIN s = DOMAIN t => Len(s) = Len(t)
      <4>1. \A S, s : s \in Seq(S) => Len(s) \in Nat /\ DOMAIN s = 1 .. Len(s)
        OBVIOUS
      <4>2. \A m, n \in Nat : 1 .. m = 1 .. n => m = n
        OBVIOUS
      <4>. QED  BY <4>1, <4>2
    <3>. QED  BY <1>6, <3>1, <3>2
  <2>. QED  BY <1>1, <1>5, <1>8, <2>1 DEF CpusThere
<1>10. MountsThere'
  <2>1. nodes'.fs = nodes.fs
    BY TurnLists
  <2>. QED  BY <1>1, <1>8, <2>1 DEF MountsThere
<1>11. RunInv'
  BY <1>1, <1>9, <1>10 DEF AgentInv, RunInv, SurvivesSoundHosts
<1>. QED  BY <1>2, <1>3, <1>7, <1>11 DEF AgentInv, Typed

\* Each step keeps what the process relies on.
THEOREM AgentInvariant == Spec => []AgentInv
<1>1. AgentInv /\ [Next]_vars => AgentInv'
  <2> SUFFICES ASSUME AgentInv, [Next]_vars
               PROVE  AgentInv'
    OBVIOUS
  <2>1. CASE UNCHANGED vars
    <3>1. UNCHANGED <<setup, lines, online, failing, disk, idfile, pc, nodes, seen, uuid, on, init_flag,
                      left, made, ids, trouble>>
      BY <2>1 DEF vars, hostVars, flags
    <3>2. Typed'
      BY <3>1 DEF AgentInv, Typed, HostTyped, ProcessTyped, ListsTyped, Uuid
    <3>3. RunInv'
      BY <3>1 DEF AgentInv, RunInv, Alive, CpusThere, MountsThere, SurvivesSoundHosts
    <3>. QED  BY <3>2, <3>3 DEF AgentInv
  <2>2. CASE Next
    BY <2>2, HostInvariant, StartInv, IdentityInv, ProcessInv, TurnInv DEF Next
  <2> QED
    BY <2>1, <2>2
<1> QED
  BY <1>1, InitTyped, PTL DEF Spec

\* TypeOK, for every host and any number of starts and changes.
THEOREM TypeCorrect == Spec => []TypeOK
<1>1. AgentInv => TypeOK
  <2>. SUFFICES ASSUME AgentInv PROVE TypeOK
    OBVIOUS
  <2>1. HostTyped /\ ProcessTyped /\ ListsTyped
    BY DEF AgentInv, Typed
  <2>2. \A S, s : s \in Seq(S) => \A i \in DOMAIN s : s[i] \in S
    OBVIOUS
  <2>3. \A k \in DevKind : ToSet(lines[k]) \subseteq Devices[k] /\ IsInjective(lines[k])
    BY <2>1, <2>2 DEF HostTyped, ToSet
  <2>4. ASSUME NEW k \in DevKind, NEW i \in DOMAIN nodes[k]
        PROVE  nodes[k][i].dev \in Devices[k] /\ nodes[k][i].of \subseteq Devices[k]
    <3>1. nodes[k][i] \in DeviceNode(Devices[k])
      BY <2>1, <2>2 DEF ListsTyped
    <3>. QED  BY <3>1 DEF DeviceNode
  <2>5. ASSUME NEW i \in DOMAIN nodes.cpu
        PROVE  nodes.cpu[i].dev \in Cpus /\ nodes.cpu[i].of \subseteq Cpus
    <3>1. nodes.cpu[i] \in DeviceNode(Cpus)
      BY <2>1, <2>2 DEF ListsTyped
    <3>. QED  BY <3>1 DEF DeviceNode
  <2>. QED  BY <2>1, <2>3, <2>4, <2>5 DEF TypeOK, HostTyped, ProcessTyped, ListsTyped
<1>. QED  BY <1>1, AgentInvariant, PTL

\* SurvivesSoundHosts, for every host: where the metadata and the user are configured, a
\* process that ends otherwise than by its signals has lost a cpu, a mount or the disk.
THEOREM SurvivesCorrect == Spec => []SurvivesSoundHosts
<1>1. AgentInv => SurvivesSoundHosts
  BY DEF AgentInv, RunInv
<1>. QED  BY <1>1, AgentInvariant, PTL

\* The greatest and the least of some positions of a list.
LEMMA MaxMin ==
  ASSUME NEW n \in Nat, NEW T \in SUBSET (1 .. n), T # {}
  PROVE  /\ Max(T) \in T /\ \A i \in T : i <= Max(T)
         /\ Min(T) \in T /\ \A i \in T : Min(T) <= i
<1>1. \E m \in T : \A i \in T : m >= i
  BY GreatestNumber
<1>2. \E m \in T : \A i \in T : m <= i
  <2>1. T \in SUBSET Nat
    OBVIOUS
  <2>. QED  BY <2>1, LeastNumber
<1>3. Max(T) \in T /\ \A i \in T : Max(T) >= i
  BY <1>1 DEF Max
<1>4. Min(T) \in T /\ \A i \in T : Min(T) <= i
  BY <1>2 DEF Min
<1>5. \A i \in T : i \in Int
  OBVIOUS
<1>. QED  BY <1>3, <1>4, <1>5

\* MountsListed, for every mtab: where all mounts answered at the start, each device is
\* in the list of file systems, once or twice.
THEOREM MountsCorrect == Spec => []MountsListed
<1>1. AgentInv => MountsListed
  <2>. SUFFICES ASSUME AgentInv, Running, NEW i \in DOMAIN setup.mtab, "mount" \notin trouble
                PROVE  LET at == {j \in DOMAIN nodes.fs : nodes.fs[j].dev = setup.mtab[i].dev}
                       IN  at # {} /\ Max(at) <= Min(at) + 1
    BY DEF MountsListed
  <2>. DEFINE at == {j \in DOMAIN nodes.fs : nodes.fs[j].dev = setup.mtab[i].dev}
  <2>1. /\ nodes.fs \in Seq([dev : STRING \ {Null}])
        /\ \E j \in DOMAIN nodes.fs : nodes.fs[j].dev = setup.mtab[i].dev
        /\ \A j, k \in DOMAIN nodes.fs : j < k /\ nodes.fs[j].dev = nodes.fs[k].dev => k = j + 1
    BY DEF AgentInv, RunInv, Running, Alive, MountsThere
  <2>2. PICK n \in Nat : DOMAIN nodes.fs = 1 .. n
    <3>1. Len(nodes.fs) \in Nat /\ DOMAIN nodes.fs = 1 .. Len(nodes.fs)
      BY <2>1
    <3>. QED  BY <3>1
  <2>3. at # {} /\ at \in SUBSET (1 .. n)
    BY <2>1, <2>2
  <2>4. Max(at) \in at /\ Min(at) \in at /\ Min(at) <= Max(at)
    <3>. HIDE DEF at
    <3>. QED  BY <2>3, MaxMin
  <2>5. PICK a \in 1 .. n, b \in 1 .. n : a = Min(at) /\ b = Max(at) /\ a \in at /\ b \in at /\ a <= b
    <3>. HIDE DEF at
    <3>. QED  BY <2>3, <2>4
  <2>6. a < b => b = a + 1
    BY <2>1, <2>2, <2>5
  <2>7. b <= a + 1
    <3>. HIDE DEF at
    <3>. QED  BY <2>5, <2>6
  <2>. QED  BY <2>3, <2>5, <2>7
<1>. QED  BY <1>1, AgentInvariant, PTL

\* OwnCounters, for every host: a turn reads a device's own counters, unless a line before
\* them holds its name, or other cpus are in front of it than were at the start.
THEOREM OwnCountersCorrect == Spec => OwnCounters
<1>. DEFINE Own == /\ \A k \in DevKind : \A i \in DOMAIN nodes[k] :
                        FirstLine(nodes[k][i].dev, lines[k]) /\ nodes'[k][i].fresh =>
                          nodes'[k][i].of = {nodes[k][i].dev}
                   /\ \A i \in DOMAIN nodes.cpu :
                        InPosition(i) => nodes'.cpu[i].of = {nodes.cpu[i].dev}
<1>1. AgentInv /\ [Next]_vars => [Turn => Own]_vars
  <2>. SUFFICES ASSUME AgentInv, Turn PROVE Own
    OBVIOUS
  <2>1. ASSUME NEW k \in DevKind, NEW i \in DOMAIN nodes[k],
               FirstLine(nodes[k][i].dev, lines[k]), nodes'[k][i].fresh
        PROVE  nodes'[k][i].of = {nodes[k][i].dev}
    <3>1. PICK old \in SUBSET Devices[k] : nodes'[k] = PolledDevs(nodes[k], lines[k], old)
      BY TurnLists
    <3>2. lines[k] \in Seq(Devices[k]) /\ nodes[k] \in Seq(DeviceNode(Devices[k]))
      BY TurnLists
    <3>. QED  BY <2>1, <3>1, <3>2, PolledDevsFacts
  <2>2. ASSUME NEW i \in DOMAIN nodes.cpu, InPosition(i)
        PROVE  nodes'.cpu[i].of = {nodes.cpu[i].dev}
    <3>1. /\ nodes'.cpu[i].of = {Ascending(online)[i]}
          /\ Ascending(online)[i] \in online
      BY TurnLists, PolledCpusFacts
    <3>2. PICK d : d = nodes.cpu[i].dev /\ d \in online
      BY <2>2 DEF InPosition
    <3>3. Rank(online, d) = Cardinality({nodes.cpu[j].dev : j \in 1 .. i - 1})
      BY <2>2, <3>2 DEF InPosition, Rank
    <3>4. PICK L \in Nat : DOMAIN nodes.cpu = 1 .. L
      <4>1. nodes.cpu \in Seq(DeviceNode(Cpus))
        BY TurnLists
      <4>2. Len(nodes.cpu) \in Nat /\ DOMAIN nodes.cpu = 1 .. Len(nodes.cpu)
        BY <4>1
      <4>. QED  BY <4>2
    <3>5. Cardinality({nodes.cpu[j].dev : j \in 1 .. i - 1}) = i - 1
      <4>. DEFINE J == 1 .. i - 1
                  D == {nodes.cpu[j].dev : j \in J}
                  f == [j \in J |-> nodes.cpu[j].dev]
      <4>1. IsFiniteSet(J) /\ Cardinality(J) = i - 1
        <5>1. \A n \in Nat : (IF 1 > n THEN 0 = n ELSE (n - 1) + 1 = n) /\ n \in Int
          OBVIOUS
        <5>2. i - 1 \in Nat
          BY <2>2, <3>4
        <5>. QED  BY <5>1, <5>2, FS_Interval
      <4>2. J \subseteq DOMAIN nodes.cpu
        BY <2>2, <3>4
      <4>3. \A j, k \in J : f[j] = f[k] => j = k
        BY <4>2 DEF AgentInv, Typed, ListsTyped
      <4>4. f \in [J -> D] /\ DOMAIN f = J /\ \A e \in D : \E j \in J : f[j] = e
        OBVIOUS
      <4>5. f \in Surjection(J, D) /\ f \in Injection(J, D)
        <5>. HIDE DEF f, J, D
        <5>. QED  BY <4>3, <4>4 DEF Surjection, Injection, IsInjective
      <4>6. Cardinality(D) = Cardinality(J)
        <5>. HIDE DEF f, J, D
        <5>. QED  BY <4>1, <4>5, FS_Surjection
      <4>. QED  BY <4>1, <4>6
    <3>6. /\ Ascending(online)[Rank(online, d) + 1] = d
      <4>1. online \in SUBSET Nat /\ IsFiniteSet(online)
        BY Constants DEF AgentInv, Typed, HostTyped
      <4>. QED  BY <3>2, <4>1, AscendingFacts
    <3>7. Rank(online, d) + 1 = i
      <4>1. i \in 1 .. L
        BY <2>2, <3>4
      <4>2. (i - 1) + 1 = i
        BY <4>1
      <4>. QED  BY <3>3, <3>5, <4>2
    <3>. QED  BY <3>1, <3>2, <3>6, <3>7
  <2>. QED  BY <2>1, <2>2
<1>. QED  BY <1>1, AgentInvariant, PTL DEF Spec, OwnCounters

\* StaleBehindMissing, for every host: a turn leaves counters as they were only behind a
\* device whose line is not in the file.
THEOREM StaleCorrect == Spec => StaleBehindMissing
<1>. DEFINE Behind == \A k \in DevKind : \A i \in DOMAIN nodes[k] :
                        ~nodes'[k][i].fresh => \E j \in 1 .. i : nodes[k][j].dev \notin ToSet(lines[k])
<1>1. AgentInv /\ [Next]_vars => [Turn => Behind]_vars
  <2>. SUFFICES ASSUME AgentInv, Turn, NEW k \in DevKind, NEW i \in DOMAIN nodes[k], ~nodes'[k][i].fresh
                PROVE  \E j \in 1 .. i : nodes[k][j].dev \notin ToSet(lines[k])
    OBVIOUS
  <2>1. PICK old \in SUBSET Devices[k] : nodes'[k] = PolledDevs(nodes[k], lines[k], old)
    BY TurnLists
  <2>2. lines[k] \in Seq(Devices[k]) /\ nodes[k] \in Seq(DeviceNode(Devices[k]))
    BY TurnLists
  <2>. QED  BY <2>1, <2>2, PolledDevsFacts
<1>. QED  BY <1>1, AgentInvariant, PTL DEF Spec, StaleBehindMissing

===============================================================================
