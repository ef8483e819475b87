--------------------------- MODULE ReportAssembly ---------------------------
(***************************************************************************)
(* A report on its way from an agent to the master's record store: cut in  *)
(* packets by report() (agent/at_agent.c), carried by UDP, put together    *)
(* again by the report listener (master/mstr_listener.c) in one assembly   *)
(* buffer per host, and applied when as many characters have arrived as    *)
(* the report has.  The text of a report is its number; what a buffer      *)
(* holds is known chunk by chunk.                                          *)
(***************************************************************************)
EXTENDS Integers, SequencesExt, Lists

CONSTANTS
  Hosts,        \* uuids of the agents, ordered as uuid_compare orders them
  Sizes,        \* lengths a report's text can have
  ChunkLen,     \* characters of text per packet: msg_chunk_sz - 80
  MaxAge,       \* MASTER_ASMBL_BUF_AGE
  PruneCount,   \* ASMBL_BUF_PRUNE_COUNT
  MaxReports,   \* bound: reports each agent sends
  AgeBound,     \* bound: the age a buffer can reach
  Budgets       \* bound: combinations of faults, how often each kind may happen

FaultKind == {"lose", "dup", "swap", "restart", "delay"}

ASSUME AssemblyAssumption ==
  /\ Hosts \subseteq Nat
  /\ Sizes \subseteq Nat \ {0} /\ \E s \in Sizes : \A t \in Sizes : t <= s
  /\ ChunkLen \in Nat \ {0} /\ PruneCount \in Nat \ {0}
  /\ MaxAge \in Nat /\ AgeBound \in Nat /\ MaxReports \in Nat
  /\ Budgets \subseteq [FaultKind -> Nat] /\ Budgets # {}

NullUuid == 0

VARIABLES
  msgid,      \* host -> message id of the agent's next report
  net,        \* host -> packets on their way to the master, in arrival order
  bufs,       \* the listener's list of assembly buffers
  pktc,       \* packets counted by the listener, modulo PruneCount
  listener,   \* "up", or why the listener's thread is gone
  \* history, read by neither program
  sent,       \* host -> size of each report sent
  applied,    \* host -> reports applied to its record, in order
  faults,     \* kind -> faults that may still happen
  hit,        \* host -> reports with a packet lost, doubled or moved past another report's
  permuted,   \* host -> reports with packets of their own swapped
  pruned      \* host -> reports whose buffer was pruned

agentVars    == <<msgid, sent>>
listenerVars == <<bufs, pktc, listener, applied, pruned>>
vars == <<agentVars, net, listenerVars, faults, hit, permuted>>

Reports == 1 .. MaxReports
Mixed   == 0        \* a text that parses and is none of the reports sent

NChunks(size) == (size + ChunkLen - 1) \div ChunkLen
\* Mutated form of TextLen: a packet takes all the text that is left.
TextLen_Rest(size, k) == size - k * ChunkLen

TextLen(size, k) == IF (k + 1) * ChunkLen <= size THEN ChunkLen ELSE size - k * ChunkLen

MaxSize == CHOOSE s \in Sizes : \A t \in Sizes : t <= s
Cells   == 0 .. NChunks(MaxSize) - 1

\* What a buffer holds from the start of a chunk up to the next NUL.
Cell == [rpt : 0 .. MaxReports, len : 0 .. ChunkLen]
Hole == [rpt |-> 0, len |-> 0]

Packet == [rpt : Reports, size : Sizes, chunk : Cells, len : 1 .. ChunkLen, msgid : Nat]

Buffer == [host : Hosts, age : 0 .. AgeBound, charcount : Nat, msgid : Nat,
           size : Sizes, text : [Cells -> Cell]]

TypeOK ==
  /\ msgid \in [Hosts -> Nat]
  /\ net \in [Hosts -> Seq(Packet)]
  /\ bufs \in Seq(Buffer)
  /\ pktc \in 0 .. PruneCount - 1
  /\ listener \in {"up", "crashed", "overrun"}
  /\ sent \in [Hosts -> Seq(Sizes)]
  /\ applied \in [Hosts -> Seq(Reports \cup {Mixed})]
  /\ faults \in [FaultKind -> Nat]
  /\ hit \in [Hosts -> SUBSET Reports]
  /\ permuted \in [Hosts -> SUBSET Reports]
  /\ pruned \in [Hosts -> SUBSET Reports]

Init ==
  /\ msgid = [h \in Hosts |-> 0]
  /\ net = [h \in Hosts |-> <<>>]
  /\ bufs = <<>> /\ pktc = 0 /\ listener = "up"
  /\ sent = [h \in Hosts |-> <<>>] /\ applied = [h \in Hosts |-> <<>>]
  /\ faults \in Budgets
  /\ hit = [h \in Hosts |-> {}] /\ permuted = [h \in Hosts |-> {}]
  /\ pruned = [h \in Hosts |-> {}]

-----------------------------------------------------------------------------
(* The agent. *)

Packets(r, size, id) ==
  [k \in 1 .. NChunks(size) |->
     [rpt |-> r, size |-> size, chunk |-> k - 1, len |-> TextLen(size, k - 1), msgid |-> id]]

Report(h, size) ==
  /\ Len(sent[h]) < MaxReports
  /\ sent' = [sent EXCEPT ![h] = Append(@, size)]
  /\ net' = [net EXCEPT ![h] = @ \o Packets(Len(sent[h]) + 1, size, msgid[h])]
  /\ msgid' = [msgid EXCEPT ![h] = @ + 1]
  /\ UNCHANGED <<listenerVars, faults, hit, permuted>>

Fault(kind) ==
  /\ faults[kind] > 0
  /\ faults' = [faults EXCEPT ![kind] = @ - 1]

\* The message id is a static of the process: it starts again from 0.
Restart(h) ==
  /\ Fault("restart")
  /\ msgid' = [msgid EXCEPT ![h] = 0]
  /\ UNCHANGED <<net, sent, listenerVars, hit, permuted>>

-----------------------------------------------------------------------------
(* The network. *)

Hit(h, rs) == hit' = [hit EXCEPT ![h] = @ \cup rs]

Lose(h, i) ==
  /\ Fault("lose")
  /\ net' = [net EXCEPT ![h] = RemoveAt(@, i)]
  /\ Hit(h, {net[h][i].rpt})
  /\ UNCHANGED <<agentVars, listenerVars, permuted>>

Duplicate(h, i) ==
  /\ Fault("dup")
  /\ net' = [net EXCEPT ![h] = InsertAt(@, i, @[i])]
  /\ Hit(h, {net[h][i].rpt})
  /\ UNCHANGED <<agentVars, listenerVars, permuted>>

Swap(h, i) ==
  LET p == net[h][i]
      q == net[h][i + 1]
  IN /\ i < Len(net[h])
     /\ Fault("swap")
     /\ net' = [net EXCEPT ![h] = [@ EXCEPT ![i] = q, ![i + 1] = p]]
     /\ IF p.rpt = q.rpt
          THEN permuted' = [permuted EXCEPT ![h] = @ \cup {p.rpt}] /\ UNCHANGED hit
          ELSE Hit(h, {p.rpt, q.rpt}) /\ UNCHANGED permuted
     /\ UNCHANGED <<agentVars, listenerVars>>

-----------------------------------------------------------------------------
(* The list of assembly buffers. *)

\* Mutated form of DestroyBuf: a completed or dumped buffer stays in the list.
DestroyBuf_Leaks(list, h) == list

DestroyBuf(list, h) == RemoveFirstMatch(list, LAMBDA b : b.host = h)

NewBuf(h, p) ==
  [host |-> h, age |-> 0, charcount |-> 0, msgid |-> p.msgid, size |-> p.size,
   text |-> [c \in Cells |-> Hole]]

\* Mutated form of InsertBuf: always at the end.
InsertBuf_Appends(list, b) == Append(list, b)

\* In front of the first buffer with a greater uuid, or at the end.
InsertBuf(list, b) ==
  LET i == SelectInSeq(list, LAMBDA x : x.host > b.host)
  IN IF i = 0 THEN Append(list, b) ELSE InsertAt(list, i, b)

\* get_assmbl_buf: the host has a buffer, and it collects the packet's message.
BufFound(list, h, p) == \E i \in DOMAIN list : list[i].host = h /\ list[i].msgid = p.msgid

\* Mutated form of OpenBuf: the message id is not compared.
OpenBuf_AnyMessage(list, h, p) ==
  IF \E i \in DOMAIN list : list[i].host = h
    THEN list
    ELSE InsertBuf(list, NewBuf(h, p))

\* What the listener does when there is no buffer for the host (NOT_FOUND), or one
\* that collects another of its messages (BAD_MSG).
OpenBuf(list, h, p) ==
  IF BufFound(list, h, p)
    THEN list
    ELSE InsertBuf(DestroyBuf(list, h), NewBuf(h, p))

\* strcpy: the packet's text, and a NUL after it, which falls on the first
\* character of the next chunk when this one is full.
Strcpy(text, p) ==
  [c \in Cells |->
     IF c = p.chunk THEN [rpt |-> p.rpt, len |-> p.len]
     ELSE IF c = p.chunk + 1 /\ p.len = ChunkLen THEN Hole
     ELSE text[c]]

PktAssembly(b, p) ==
  [b EXCEPT !.text = Strcpy(@, p), !.charcount = @ + p.len]

Overrun(b, p) == p.chunk * ChunkLen + p.len > b.size

Aged(b) == b.age > MaxAge

\* prune_assmbl_buf moves on before it destroys: what goes is the buffer after
\* an aged one.  (The freed buffer it then continues from still holds its time
\* stamp and its link: free() overwrites the first 16 bytes, the uuid.)
Victims(list) ==
  {list[i + 1].host : i \in {j \in 1 .. Len(list) - 1 : Aged(list[j])}}

\* After the last buffer there is none to destroy, and its uuid is read all the same.
PruneCrashes(list) == list # <<>> /\ Aged(Last(list))

-----------------------------------------------------------------------------
(* The text that json_loads sees, and what it can make of it. *)

\* The string ends in the first chunk that is not full.
InString(text, c) == text[c].len > 0 /\ \A d \in 0 .. c - 1 : text[d].len = ChunkLen

IsReport(h, text, r) ==
  \A c \in Cells :
    /\ InString(text, c) <=> c < NChunks(sent[h][r])
    /\ InString(text, c) => text[c] = [rpt |-> r, len |-> TextLen(sent[h][r], c)]

\* Chunks of several reports, the last one of them ending its own.
IsMixture(h, text) ==
  /\ \E c, d \in Cells : InString(text, c) /\ InString(text, d) /\ text[c].rpt # text[d].rpt
  /\ \E c \in Cells :
       /\ InString(text, c) /\ ~(c + 1 \in Cells /\ InString(text, c + 1))
       /\ c = NChunks(sent[h][text[c].rpt]) - 1

\* What json_loads and apply_assmb_buf can add to the applied reports: a
\* truncated text never parses, a mixture may; the null uuid is refused.
Outcomes(h, text) ==
  IF h = NullUuid THEN {<<>>}
  ELSE {<<r>> : r \in {q \in DOMAIN sent[h] : IsReport(h, text, q)}}
         \cup (IF IsMixture(h, text) THEN {<<>>, <<Mixed>>} ELSE {})

Apply(h, text) ==
  IF Outcomes(h, text) = {}
    THEN UNCHANGED applied
    ELSE \E o \in Outcomes(h, text) : applied' = [applied EXCEPT ![h] = @ \o o]

-----------------------------------------------------------------------------
(* The report listener. *)

\* The reports a host's buffer holds text of.
RptsOf(list, h) ==
  UNION {{list[i].text[c].rpt : c \in Cells} \ {0} : i \in {j \in DOMAIN list : list[j].host = h}}

CountPacket == pktc' = (pktc + 1) % PruneCount

Prune(list) ==
  IF PruneCrashes(list)
    THEN listener' = "crashed" /\ bufs' = list /\ UNCHANGED <<pruned, pktc>>
    ELSE /\ bufs' = Selected(list, {i \in DOMAIN list : list[i].host \notin Victims(list)})
         /\ pruned' = [h \in Hosts |->
                         IF h \in Victims(list) THEN pruned[h] \cup RptsOf(list, h) ELSE pruned[h]]
         /\ CountPacket
         /\ UNCHANGED listener

\* One turn of the loop for a report packet: `list' is the list with a buffer for
\* the packet, `b' that buffer with the packet's text copied in.
Recv(h) ==
  /\ listener = "up" /\ net[h] # <<>>
  /\ net' = [net EXCEPT ![h] = Tail(@)]
  /\ \E p \in {Head(net[h])} : \E list \in {OpenBuf(bufs, h, p)} :
     \E i \in {k \in DOMAIN list : list[k].host = h} : \E b \in {PktAssembly(list[i], p)} :
       IF Overrun(b, p)
         THEN listener' = "overrun" /\ UNCHANGED <<bufs, pktc, applied, pruned>>
         ELSE LET done == b.charcount = p.size
                  left == IF done THEN DestroyBuf(list, h) ELSE [list EXCEPT ![i] = b]
              IN /\ IF done THEN Apply(h, b.text) ELSE UNCHANGED applied
                 /\ IF pktc = 0
                      THEN Prune(left)
                      ELSE bufs' = left /\ CountPacket /\ UNCHANGED <<pruned, listener>>
  /\ UNCHANGED <<agentVars, faults, hit, permuted>>

\* An exit notice or a foreign packet is only counted.  (A MARK packet is not even that.)
RecvOther ==
  /\ listener = "up"
  /\ CountPacket
  /\ UNCHANGED <<agentVars, net, bufs, listener, applied, pruned, faults, hit, permuted>>

\* Time passes: every buffer gets older.
Tick ==
  /\ listener = "up"
  /\ Fault("delay")
  /\ \E i \in DOMAIN bufs : bufs[i].age < AgeBound
  /\ bufs' = [i \in DOMAIN bufs |->
                [bufs[i] EXCEPT !.age = IF @ < AgeBound THEN @ + 1 ELSE @]]
  /\ UNCHANGED <<agentVars, net, pktc, listener, applied, pruned, hit, permuted>>

Next ==
  \/ \E h \in Hosts :
       \/ \E size \in Sizes : Report(h, size)
       \/ Restart(h)
       \/ \E i \in DOMAIN net[h] : Lose(h, i) \/ Duplicate(h, i) \/ Swap(h, i)
       \/ Recv(h)
  \/ RecvOther \/ Tick

Spec == Init /\ [][Next]_vars

\* The listener takes every datagram the kernel has queued for it.
FairSpec == Spec /\ \A h \in Hosts : WF_vars(Recv(h))

-----------------------------------------------------------------------------
(* Properties. *)

\* The list is strictly ordered by uuid whatever was inserted, dumped and pruned:
\* a host never collects two messages at once.
BuffersSorted == \A i, j \in DOMAIN bufs : i < j => bufs[i].host < bufs[j].host

\* Nothing is applied that no agent sent: a text put together from the chunks of
\* several messages, or with a hole, never reaches the record.
AppliedIntact == \A h \in Hosts : Mixed \notin ToSet(applied[h])

\* No packet's text is copied past the end of the buffer it goes to.
WritesInBounds == listener # "overrun"

Delivered(h, r) ==
  /\ r \in DOMAIN sent[h]
  /\ \A i \in DOMAIN net[h] : net[h][i].rpt # r

IsApplied(h, r) == r \in ToSet(applied[h])

\* A fault costs its own report only: a report whose packets all arrive once and
\* in order is applied, whatever was lost, doubled or moved in the reports around
\* it, unless its buffer was pruned on the way.
CleanReportApplied ==
  \A h \in Hosts \ {NullUuid}, r \in Reports :
    Delivered(h, r) /\ r \notin hit[h] \cup permuted[h] \cup pruned[h] => IsApplied(h, r)

\* Every report that no fault hits is eventually applied, however the packets of
\* the hosts interleave, and whatever faults hit the other reports: it is only
\* lost if its buffer is pruned or the listener is gone.
EveryReportApplied ==
  \A h \in Hosts \ {NullUuid}, r \in Reports :
    r \in DOMAIN sent[h] ~>
      \/ IsApplied(h, r)
      \/ r \in hit[h] \cup permuted[h] \cup pruned[h]
      \/ listener # "up"

\* The listener outlives the messages that never get completed.
ListenerNeverCrashes == listener # "crashed"
=============================================================================
