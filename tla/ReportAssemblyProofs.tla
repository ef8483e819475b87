------------------------ MODULE ReportAssemblyProofs ------------------------
(***************************************************************************)
(* ReportAssembly for any agents, report sizes, packet size, prune count   *)
(* and number of reports: the types and the order of the list of buffers   *)
(* under every fault; and, unless an agent starts again among other        *)
(* faults, that nothing is applied that no agent sent, that no copy runs   *)
(* past a buffer, and that a report no fault touches is applied.           *)
(*                                                                         *)
(* The inductive invariant AssemblyInv relates the packets on their way to *)
(* the text the listener holds, host by host: what is held is text of one  *)
(* report, and when no fault touched that report, it is exactly what came  *)
(* before the next packet.                                                 *)
(***************************************************************************)
EXTENDS ReportAssembly, ListLemmas

-----------------------------------------------------------------------------
(* Lists. *)

\* A list with an element put in.
LEMMA InsertAtFacts ==
  ASSUME NEW S, NEW s \in Seq(S), NEW i \in 1 .. Len(s) + 1, NEW e \in S
  PROVE  /\ InsertAt(s, i, e) \in Seq(S)
         /\ Len(InsertAt(s, i, e)) = Len(s) + 1
         /\ \A j \in 1 .. Len(s) + 1 :
              InsertAt(s, i, e)[j] = IF j < i THEN s[j] ELSE IF j = i THEN e ELSE s[j - 1]
<1>. DEFINE front == SubSeq(s, 1, i - 1)
            back == SubSeq(s, i, Len(s))
            start == front \o <<e>>
<1>1. /\ front \in Seq(S) /\ Len(front) = i - 1
      /\ \A j \in 1 .. i - 1 : front[j] = s[j]
  BY SubSeqProperties
<1>2. /\ back \in Seq(S) /\ Len(back) = (Len(s) - i) + 1
      /\ \A j \in 1 .. (Len(s) - i) + 1 : back[j] = s[(i + j) - 1]
  BY SubSeqProperties
<1>3. <<e>> \in Seq(S) /\ Len(<<e>>) = 1 /\ <<e>>[1] = e
  OBVIOUS
<1>. HIDE DEF front, back
<1>4. /\ start \in Seq(S) /\ Len(start) = i
      /\ \A j \in 1 .. i : start[j] = IF j < i THEN s[j] ELSE e
  BY <1>1, <1>3, ConcatProperties
<1>5. InsertAt(s, i, e) = start \o back
  BY DEF InsertAt, front, back
<1>. HIDE DEF start
<1>6. Len(s) \in Nat /\ Len(start) + Len(back) = Len(s) + 1
  BY <1>2, <1>4
<1>7. /\ start \o back \in Seq(S) /\ Len(start \o back) = Len(s) + 1
      /\ \A j \in 1 .. Len(s) + 1 : (start \o back)[j] = IF j <= i THEN start[j] ELSE back[j - i]
  BY <1>2, <1>4, <1>6, ConcatProperties
<1>8. ASSUME NEW j \in 1 .. Len(s) + 1
      PROVE  (start \o back)[j] = IF j < i THEN s[j] ELSE IF j = i THEN e ELSE s[j - 1]
  <2>1. CASE j <= i
    BY <1>4, <1>7, <2>1
  <2>2. CASE j > i
    <3>1. j - i \in 1 .. (Len(s) - i) + 1 /\ (i + (j - i)) - 1 = j - 1
      BY <1>6, <2>2
    <3>. QED  BY <1>2, <1>7, <2>2, <3>1
  <2>. QED  BY <1>6, <2>1, <2>2
<1>. QED  BY <1>5, <1>7, <1>8

\* A list with an element taken out.
LEMMA RemoveAtFacts ==
  ASSUME NEW S, NEW s \in Seq(S), NEW i \in 1 .. Len(s)
  PROVE  /\ RemoveAt(s, i) \in Seq(S)
         /\ Len(RemoveAt(s, i)) = Len(s) - 1
         /\ \A j \in 1 .. Len(s) - 1 : RemoveAt(s, i)[j] = IF j < i THEN s[j] ELSE s[j + 1]
<1>. DEFINE front == SubSeq(s, 1, i - 1)
            back == SubSeq(s, i + 1, Len(s))
            list == front \o back
<1>1. /\ front \in Seq(S) /\ Len(front) = i - 1
      /\ \A j \in 1 .. i - 1 : front[j] = s[j]
  BY SubSeqProperties
<1>2. /\ back \in Seq(S) /\ Len(back) = Len(s) - i
      /\ \A j \in 1 .. Len(s) - i : back[j] = s[i + j]
  BY SubSeqProperties
<1>3. RemoveAt(s, i) = front \o back
  BY DEF RemoveAt
<1>. HIDE DEF front, back
<1>4. Len(s) \in Nat /\ Len(front) + Len(back) = Len(s) - 1
  BY <1>1, <1>2
<1>5. /\ list \in Seq(S) /\ Len(list) = Len(s) - 1
      /\ \A j \in 1 .. Len(s) - 1 : list[j] = IF j <= i - 1 THEN front[j] ELSE back[j - (i - 1)]
  <2>1. /\ list \in Seq(S) /\ Len(list) = Len(front) + Len(back)
        /\ \A j \in 1 .. Len(front) + Len(back) :
             list[j] = IF j <= Len(front) THEN front[j] ELSE back[j - Len(front)]
    BY <1>1, <1>2, ConcatProperties
  <2>. HIDE DEF list
  <2>. QED  BY <1>1, <1>4, <2>1
<1>. HIDE DEF list
<1>6. ASSUME NEW j \in 1 .. Len(s) - 1
      PROVE  list[j] = IF j < i THEN s[j] ELSE s[j + 1]
  <2>1. CASE j < i
    BY <1>1, <1>5, <2>1
  <2>2. CASE j >= i
    <3>1. j - (i - 1) \in 1 .. Len(s) - i /\ i + (j - (i - 1)) = j + 1
      BY <1>4, <2>2
    <3>2. list[j] = back[j - (i - 1)]
      <4>1. ~(j <= i - 1)
        BY <1>4, <2>2
      <4>. QED  BY <1>5, <4>1
    <3>3. back[j - (i - 1)] = s[i + (j - (i - 1))]
      BY <1>2, <3>1
    <3>4. ~(j < i)
      BY <2>2
    <3>. QED  BY <3>1, <3>2, <3>3, <3>4
  <2>. QED  BY <1>4, <2>1, <2>2
<1>. QED  BY <1>3, <1>5, <1>6 DEF list

\* The first number of a set.
LEMMA MinFacts ==
  ASSUME NEW T \in SUBSET Nat, T # {}
  PROVE  Min(T) \in T /\ \A n \in T : Min(T) <= n
BY LeastNumber DEF Min

\* destroy_assmbl_buf takes out the first buffer of a host, if there is one.
LEMMA DestroyBufFacts ==
  ASSUME NEW list \in Seq(Buffer), NEW h \in Hosts
  PROVE  \/ DestroyBuf(list, h) = list /\ \A i \in 1 .. Len(list) : list[i].host # h
         \/ \E i \in 1 .. Len(list) : /\ list[i].host = h /\ DestroyBuf(list, h) = RemoveAt(list, i)
                                      /\ \A j \in 1 .. i - 1 : list[j].host # h
<1>. DEFINE I == {i \in 1 .. Len(list) : list[i].host = h}
<1>1. DestroyBuf(list, h) = IF \E i \in 1 .. Len(list) : list[i].host = h
                            THEN RemoveAt(list, IF I # {} THEN Min(I) ELSE 0) ELSE list
  BY DEF DestroyBuf, RemoveFirstMatch, SelectInSeq
<1>2. I # {} => Min(I) \in I /\ \A n \in I : Min(I) <= n
  <2>1. I \in SUBSET Nat
    OBVIOUS
  <2>. QED  BY <2>1, MinFacts
<1>3. CASE I = {}
  BY <1>1, <1>3
<1>4. CASE I # {}
  <2>1. PICK k \in I : k = Min(I) /\ \A n \in I : k <= n
    BY <1>2, <1>4
  <2>2. DestroyBuf(list, h) = RemoveAt(list, k)
    BY <1>1, <2>1
  <2>3. \A j \in 1 .. k - 1 : list[j].host # h
    BY <2>1
  <2>. QED  BY <2>1, <2>2, <2>3
<1>. QED  BY <1>3, <1>4

\* new_assmbl_buf puts a buffer in front of the first with a greater uuid, or at the end.
LEMMA InsertBufFacts ==
  ASSUME NEW list \in Seq(Buffer), NEW b \in Buffer
  PROVE  \E i \in 1 .. Len(list) + 1 :
           /\ InsertBuf(list, b) = InsertAt(list, i, b)
           /\ \A j \in 1 .. i - 1 : ~(list[j].host > b.host)
           /\ i <= Len(list) => list[i].host > b.host
<1>. DEFINE I == {i \in 1 .. Len(list) : list[i].host > b.host}
            k == IF I # {} THEN Min(I) ELSE 0
<1>1. InsertBuf(list, b) = IF k = 0 THEN Append(list, b) ELSE InsertAt(list, k, b)
  BY DEF InsertBuf, SelectInSeq
<1>2. I # {} => Min(I) \in I /\ \A n \in I : Min(I) <= n
  <2>1. I \in SUBSET Nat
    OBVIOUS
  <2>. QED  BY <2>1, MinFacts
<1>3. CASE I = {}
  <2>1. InsertBuf(list, b) = Append(list, b)
    BY <1>1, <1>3
  <2>2. Append(list, b) = InsertAt(list, Len(list) + 1, b)
    BY DEF InsertAt
  <2>. QED  BY <1>3, <2>1, <2>2
<1>4. CASE I # {}
  <2>1. PICK n \in I : n = Min(I) /\ \A m \in I : n <= m
    BY <1>2, <1>4
  <2>2. InsertBuf(list, b) = InsertAt(list, n, b)
    BY <1>1, <1>4, <2>1
  <2>3. \A j \in 1 .. n - 1 : ~(list[j].host > b.host)
    BY <2>1
  <2>4. n \in 1 .. Len(list) + 1 /\ list[n].host > b.host
    BY <2>1
  <2>. HIDE DEF I
  <2>. QED  BY <2>2, <2>3, <2>4
<1>. QED  BY <1>3, <1>4

-----------------------------------------------------------------------------
(* Chunks. *)

\* What a chunk more adds.
LEMMA Multiples ==
  ASSUME NEW C \in Nat, NEW k \in Nat, NEW n \in Nat, k <= n
  PROVE  /\ k * C \in Nat /\ n * C \in Nat /\ k * C <= n * C
         /\ (k + 1) * C = (k * C) + C /\ 0 * C = 0 /\ 1 * C = C
OBVIOUS

\* The quotient that NChunks rounds up to.
LEMMA Quotient ==
  ASSUME NEW a \in Nat, NEW C \in Nat \ {0}
  PROVE  a \div C \in Nat /\ (a \div C) * C <= a /\ a < ((a \div C) * C) + C
<1>1. a = (C * (a \div C)) + (a % C) /\ (a % C) \in 0 .. C - 1 /\ a \div C \in Nat
  OBVIOUS
<1>2. C * (a \div C) = (a \div C) * C
  BY <1>1
<1>. QED  BY <1>1, <1>2

\* A report has as many chunks as it takes, the last of them perhaps not full.
LEMMA NChunksFacts ==
  ASSUME NEW size \in Nat \ {0}
  PROVE  /\ NChunks(size) \in Nat \ {0}
         /\ (NChunks(size) - 1) * ChunkLen < size /\ size <= NChunks(size) * ChunkLen
<1>1. PICK C \in Nat \ {0} : C = ChunkLen
  BY AssemblyAssumption
<1>2. PICK n \in Nat : n = NChunks(size) /\ n * C <= (size + C) - 1 /\ (size + C) - 1 < (n * C) + C
  <2>1. (size + C) - 1 \in Nat
    OBVIOUS
  <2>. DEFINE a == (size + C) - 1
  <2>2. a \div C \in Nat /\ (a \div C) * C <= a /\ a < ((a \div C) * C) + C
    BY <2>1, Quotient
  <2>3. NChunks(size) = a \div C
    BY <1>1 DEF NChunks
  <2>. QED  BY <2>2, <2>3
<1>3. n # 0
  <2>1. 0 * C = 0
    OBVIOUS
  <2>. QED  BY <1>2, <2>1
<1>4. n * C = ((n - 1) * C) + C /\ (n - 1) * C \in Nat
  BY <1>3
<1>. QED  BY <1>1, <1>2, <1>3, <1>4

\* A longer report has no fewer chunks.
LEMMA NChunksGrows ==
  ASSUME NEW s \in Nat \ {0}, NEW t \in Nat \ {0}, s <= t
  PROVE  NChunks(s) <= NChunks(t)
<1>1. PICK C \in Nat \ {0} : C = ChunkLen
  BY AssemblyAssumption
<1>2. PICK n \in Nat \ {0}, m \in Nat \ {0} : n = NChunks(s) /\ m = NChunks(t)
  BY NChunksFacts
<1>3. (n - 1) * C < s /\ t <= m * C
  BY <1>1, <1>2, NChunksFacts
<1>4. CASE m < n
  <2>1. m * C <= (n - 1) * C
    <3>1. m <= n - 1 /\ n - 1 \in Nat
      BY <1>4
    <3>. QED  BY <3>1, Multiples
  <2>2. m * C \in Nat /\ (n - 1) * C \in Nat
    <3>1. n - 1 \in Nat
      OBVIOUS
    <3>. QED  BY <3>1, Multiples
  <2>. QED  BY <1>3, <2>1, <2>2
<1>. QED  BY <1>2, <1>4

\* Every chunk but the last is full; the last one ends the report.
LEMMA TextLenFacts ==
  ASSUME NEW size \in Nat \ {0}, NEW k \in 0 .. NChunks(size) - 1
  PROVE  /\ TextLen(size, k) \in 1 .. ChunkLen
         /\ k # NChunks(size) - 1 =>
              TextLen(size, k) = ChunkLen /\ (k * ChunkLen) + TextLen(size, k) < size
         /\ k = NChunks(size) - 1 => (k * ChunkLen) + TextLen(size, k) = size
         /\ (k * ChunkLen) + TextLen(size, k) <= size
<1>1. PICK C \in Nat \ {0} : C = ChunkLen
  BY AssemblyAssumption
<1>2. PICK n \in Nat \ {0} : n = NChunks(size) /\ (n - 1) * C < size /\ size <= n * C
  BY <1>1, NChunksFacts
<1>3. k \in Nat /\ k <= n - 1 /\ n - 1 \in Nat
  BY <1>2
<1>4. PICK x \in Nat, y \in Nat : x = k * C /\ y = (n - 1) * C /\ (k + 1) * C = x + C /\ n * C = y + C
  <2>1. k * C \in Nat /\ (k + 1) * C = (k * C) + C
    BY <1>3, Multiples
  <2>2. (n - 1) * C \in Nat /\ ((n - 1) + 1) * C = ((n - 1) * C) + C
    BY <1>3, Multiples
  <2>3. (n - 1) + 1 = n
    OBVIOUS
  <2>. QED  BY <2>1, <2>2, <2>3
<1>5. TextLen(size, k) = IF x + C <= size THEN C ELSE size - x
  BY <1>1, <1>4 DEF TextLen
<1>6. k # n - 1 => x + C <= y
  <2>1. k # n - 1 => k + 1 <= n - 1 /\ k + 1 \in Nat
    BY <1>3
  <2>2. k # n - 1 => (k + 1) * C <= (n - 1) * C
    BY <1>3, <2>1, Multiples
  <2>. QED  BY <1>4, <2>2
<1>7. x <= y /\ (k = n - 1 => x = y)
  <2>1. k * C <= (n - 1) * C
    BY <1>3, Multiples
  <2>. QED  BY <1>4, <2>1
<1>8. /\ TextLen(size, k) \in 1 .. C
      /\ k # n - 1 => TextLen(size, k) = C /\ x + TextLen(size, k) < size
      /\ k = n - 1 => x + TextLen(size, k) = size
      /\ x + TextLen(size, k) <= size
  <2>1. y < size /\ size <= y + C
    BY <1>2, <1>4
  <2>. HIDE DEF TextLen
  <2>. QED  BY <1>5, <1>6, <1>7, <2>1
<1>. QED  BY <1>1, <1>2, <1>4, <1>8

\* The chunks of every report fit in the cells of a buffer.
LEMMA CellsFacts ==
  /\ MaxSize \in Sizes /\ \A s \in Sizes : s <= MaxSize
  /\ Sizes \subseteq Nat \ {0}
  /\ \A s \in Sizes : NChunks(s) \in Nat \ {0} /\ 0 .. NChunks(s) - 1 \subseteq Cells
  /\ Cells \subseteq Nat /\ 0 \in Cells
<1>1. MaxSize \in Sizes /\ \A s \in Sizes : s <= MaxSize
  BY AssemblyAssumption DEF MaxSize
<1>2. Sizes \subseteq Nat \ {0}
  BY AssemblyAssumption
<1>3. ASSUME NEW s \in Sizes PROVE NChunks(s) \in Nat \ {0} /\ NChunks(s) <= NChunks(MaxSize)
  BY <1>1, <1>2, NChunksFacts, NChunksGrows
<1>4. NChunks(MaxSize) \in Nat \ {0}
  BY <1>1, <1>3
<1>. QED  BY <1>1, <1>2, <1>3, <1>4 DEF Cells

-----------------------------------------------------------------------------
(* What the listener holds for a host. *)

Elems(list) == {list[i] : i \in 1 .. Len(list)}

\* A buffer without its age.
Content(b) == [msgid |-> b.msgid, charcount |-> b.charcount, size |-> b.size, text |-> b.text]

Contents == [msgid : Nat, charcount : Nat, size : Sizes, text : [Cells -> Cell]]

HeldIn(list, h) == {Content(b) : b \in {x \in Elems(list) : x.host = h}}

Held(h) == HeldIn(bufs, h)

\* The list is in the order of uuid_compare.
SortedList(list) == \A i, j \in 1 .. Len(list) : i < j => list[i].host < list[j].host

\* In such a list a host has one buffer at most.
LEMMA OneBuffer ==
  ASSUME NEW list \in Seq(Buffer), SortedList(list), NEW b \in Elems(list), NEW c \in Elems(list),
         b.host = c.host
  PROVE  b = c
<1>1. PICK i \in 1 .. Len(list), j \in 1 .. Len(list) : b = list[i] /\ c = list[j]
  BY DEF Elems
<1>2. list[i].host \in Nat /\ list[j].host \in Nat
  <2>1. list[i] \in Buffer /\ list[j] \in Buffer
    OBVIOUS
  <2>. QED  BY <2>1, AssemblyAssumption DEF Buffer
<1>3. ~(i < j) /\ ~(j < i)
  BY <1>1, <1>2 DEF SortedList
<1>4. i = j
  BY <1>3
<1>. QED  BY <1>1, <1>4

\* destroy_assmbl_buf takes out the host's buffer and no other.
LEMMA DestroyBufKeeps ==
  ASSUME NEW list \in Seq(Buffer), SortedList(list), NEW h \in Hosts
  PROVE  /\ DestroyBuf(list, h) \in Seq(Buffer) /\ SortedList(DestroyBuf(list, h))
         /\ Elems(DestroyBuf(list, h)) = {b \in Elems(list) : b.host # h}
<1>1. CASE DestroyBuf(list, h) = list /\ \A i \in 1 .. Len(list) : list[i].host # h
  BY <1>1 DEF Elems
<1>2. ASSUME NEW i \in 1 .. Len(list), list[i].host = h, DestroyBuf(list, h) = RemoveAt(list, i)
      PROVE  /\ DestroyBuf(list, h) \in Seq(Buffer) /\ SortedList(DestroyBuf(list, h))
             /\ Elems(DestroyBuf(list, h)) = {b \in Elems(list) : b.host # h}
  <2>1. PICK out \in Seq(Buffer) :
          /\ out = DestroyBuf(list, h) /\ Len(out) = Len(list) - 1
          /\ \A j \in 1 .. Len(list) - 1 : out[j] = IF j < i THEN list[j] ELSE list[j + 1]
    BY <1>2, RemoveAtFacts
  <2>2. Len(list) \in Nat
    OBVIOUS
  <2>3. SortedList(out)
    BY <2>1, <2>2, SMTT(30) DEF SortedList
  <2>4. \A j \in 1 .. Len(list) : list[j].host = h => j = i
    <3>1. ASSUME NEW j \in 1 .. Len(list), list[j].host = h, j # i PROVE FALSE
      <4>1. list[j].host \in Nat /\ list[i].host \in Nat
        <5>1. list[i] \in Buffer /\ list[j] \in Buffer
          OBVIOUS
        <5>. QED  BY <5>1, AssemblyAssumption DEF Buffer
      <4>2. i < j \/ j < i
        BY <3>1
      <4>. QED  BY <1>2, <3>1, <4>1, <4>2 DEF SortedList
    <3>. QED  BY <3>1
  <2>5. ASSUME NEW b \in Elems(out) PROVE b \in Elems(list) /\ b.host # h
    <3>1. PICK j \in 1 .. Len(list) - 1 : b = out[j]
      BY <2>1, <2>5 DEF Elems
    <3>2. PICK k \in 1 .. Len(list) : b = list[k] /\ k # i
      <4>1. CASE j < i
        BY <2>1, <2>2, <3>1, <4>1
      <4>2. CASE ~(j < i)
        <5>1. j + 1 \in 1 .. Len(list) /\ j + 1 # i /\ b = list[j + 1]
          BY <2>1, <2>2, <3>1, <4>2
        <5>. QED  BY <5>1
      <4>. QED  BY <4>1, <4>2
    <3>. QED  BY <2>4, <3>2 DEF Elems
  <2>6. ASSUME NEW b \in Elems(list), b.host # h PROVE b \in Elems(out)
    <3>1. PICK j \in 1 .. Len(list) : b = list[j] /\ j # i
      BY <1>2, <2>6 DEF Elems
    <3>2. CASE j < i
      BY <2>1, <2>2, <3>1, <3>2 DEF Elems
    <3>3. CASE ~(j < i)
      <4>1. j - 1 \in 1 .. Len(out) /\ ~(j - 1 < i) /\ (j - 1) + 1 = j
        BY <2>1, <2>2, <3>1, <3>3
      <4>2. out[j - 1] = b
        BY <2>1, <3>1, <4>1
      <4>. QED  BY <4>1, <4>2 DEF Elems
    <3>. QED  BY <3>2, <3>3
  <2>. QED  BY <2>1, <2>3, <2>5, <2>6
<1>. QED  BY <1>1, <1>2, DestroyBufFacts

\* new_assmbl_buf adds a buffer at its place.
LEMMA InsertBufKeeps ==
  ASSUME NEW list \in Seq(Buffer), SortedList(list), NEW b \in Buffer,
         \A x \in Elems(list) : x.host # b.host
  PROVE  /\ InsertBuf(list, b) \in Seq(Buffer) /\ SortedList(InsertBuf(list, b))
         /\ Elems(InsertBuf(list, b)) = Elems(list) \cup {b}
<1>1. PICK i \in 1 .. Len(list) + 1 :
        /\ InsertBuf(list, b) = InsertAt(list, i, b)
        /\ \A j \in 1 .. i - 1 : ~(list[j].host > b.host)
        /\ i <= Len(list) => list[i].host > b.host
  BY InsertBufFacts
<1>2. PICK in \in Seq(Buffer) :
        /\ in = InsertBuf(list, b) /\ Len(in) = Len(list) + 1
        /\ \A j \in 1 .. Len(list) + 1 :
             in[j] = IF j < i THEN list[j] ELSE IF j = i THEN b ELSE list[j - 1]
  <2>1. /\ InsertAt(list, i, b) \in Seq(Buffer)
        /\ Len(InsertAt(list, i, b)) = Len(list) + 1
        /\ \A j \in 1 .. Len(list) + 1 :
             InsertAt(list, i, b)[j] = IF j < i THEN list[j] ELSE IF j = i THEN b ELSE list[j - 1]
    BY InsertAtFacts
  <2>. QED  BY <1>1, <2>1, Zenon
<1>3. Len(list) \in Nat /\ b.host \in Nat /\ \A j \in 1 .. Len(list) : list[j].host \in Nat
  <2>1. \A x \in Buffer : x.host \in Nat
    BY AssemblyAssumption DEF Buffer
  <2>2. \A j \in 1 .. Len(list) : list[j] \in Buffer
    OBVIOUS
  <2>. QED  BY <2>1, <2>2
<1>4. \A j \in 1 .. Len(list) : list[j].host # b.host
  BY DEF Elems
<1>5. \A j \in 1 .. Len(list) : (j < i => list[j].host < b.host) /\ (i <= j => list[j].host > b.host)
  <2>. TAKE j \in 1 .. Len(list)
  <2>1. CASE j < i
    BY <1>1, <1>3, <1>4, <2>1
  <2>2. CASE i = j
    BY <1>1, <1>3, <2>2
  <2>3. CASE i < j
    <3>1. i \in 1 .. Len(list) /\ list[i].host < list[j].host
      BY <1>3, <2>3 DEF SortedList
    <3>. QED  BY <1>1, <1>3, <2>3, <3>1
  <2>. QED  BY <1>3, <2>1, <2>2, <2>3
<1>6. ASSUME NEW j \in 1 .. Len(in), NEW k \in 1 .. Len(in), j < k PROVE in[j].host < in[k].host
  <2>1. CASE k < i
    <3>1. in[j] = list[j] /\ in[k] = list[k] /\ j \in 1 .. Len(list) /\ k \in 1 .. Len(list)
      BY <1>2, <1>3, <1>6, <2>1
    <3>. QED  BY <1>6, <3>1 DEF SortedList
  <2>2. CASE k = i
    BY <1>2, <1>3, <1>5, <1>6, <2>2
  <2>3. CASE k > i
    <3>1. in[k] = list[k - 1] /\ k - 1 \in 1 .. Len(list) /\ i <= k - 1
      BY <1>2, <1>3, <1>6, <2>3
    <3>2. CASE j < i
      <4>1. in[j] = list[j] /\ j \in 1 .. Len(list) /\ j < k - 1
        BY <1>2, <1>3, <1>6, <2>3, <3>2
      <4>. QED  BY <3>1, <4>1 DEF SortedList
    <3>3. CASE j = i
      BY <1>2, <1>3, <1>5, <3>1, <3>3
    <3>4. CASE j > i
      <4>1. in[j] = list[j - 1] /\ j - 1 \in 1 .. Len(list) /\ j - 1 < k - 1
        BY <1>2, <1>3, <1>6, <3>4
      <4>. QED  BY <3>1, <4>1 DEF SortedList
    <3>. QED  BY <3>2, <3>3, <3>4
  <2>. QED  BY <2>1, <2>2, <2>3
<1>7. SortedList(in)
  BY <1>6 DEF SortedList
<1>8. ASSUME NEW x \in Elems(in) PROVE x \in Elems(list) \cup {b}
  <2>1. PICK j \in 1 .. Len(list) + 1 : x = in[j]
    BY <1>2, <1>8 DEF Elems
  <2>2. CASE j < i
    BY <1>2, <1>3, <2>1, <2>2 DEF Elems
  <2>3. CASE j = i
    BY <1>2, <2>1, <2>3
  <2>4. CASE j > i
    <3>1. j - 1 \in 1 .. Len(list) /\ x = list[j - 1]
      BY <1>2, <1>3, <2>1, <2>4
    <3>. QED  BY <3>1 DEF Elems
  <2>. QED  BY <2>2, <2>3, <2>4
<1>9. ASSUME NEW x \in Elems(list) \cup {b} PROVE x \in Elems(in)
  <2>1. CASE x = b
    BY <1>2, <2>1 DEF Elems
  <2>2. CASE x \in Elems(list)
    <3>1. PICK j \in 1 .. Len(list) : x = list[j]
      BY <2>2 DEF Elems
    <3>2. CASE j < i
      BY <1>2, <1>3, <3>1, <3>2 DEF Elems
    <3>3. CASE ~(j < i)
      <4>1. j + 1 \in 1 .. Len(in) /\ ~(j + 1 < i) /\ j + 1 # i /\ (j + 1) - 1 = j
        BY <1>2, <1>3, <3>1, <3>3
      <4>2. in[j + 1] = x
        BY <1>2, <3>1, <4>1
      <4>. QED  BY <4>1, <4>2 DEF Elems
    <3>. QED  BY <3>2, <3>3
  <2>. QED  BY <2>1, <2>2
<1>. QED  BY <1>2, <1>7, <1>8, <1>9

\* A buffer that is written to stays at its place.
LEMMA ReplaceKeeps ==
  ASSUME NEW list \in Seq(Buffer), SortedList(list), NEW i \in 1 .. Len(list), NEW b \in Buffer,
         b.host = list[i].host
  PROVE  /\ [list EXCEPT ![i] = b] \in Seq(Buffer) /\ SortedList([list EXCEPT ![i] = b])
         /\ Elems([list EXCEPT ![i] = b]) = {x \in Elems(list) : x.host # b.host} \cup {b}
<1>1. PICK new \in Seq(Buffer) :
        /\ new = [list EXCEPT ![i] = b] /\ Len(new) = Len(list)
        /\ \A j \in 1 .. Len(list) : new[j] = IF j = i THEN b ELSE list[j]
  <2>1. [list EXCEPT ![i] = b] \in Seq(Buffer)
    BY ExceptSeq
  <2>2. Len([list EXCEPT ![i] = b]) = Len(list)
    BY ExceptSeq
  <2>3. \A j \in 1 .. Len(list) : [list EXCEPT ![i] = b][j] = IF j = i THEN b ELSE list[j]
    BY ExceptSeq
  <2>. QED  BY <2>1, <2>2, <2>3, Zenon
<1>2. \A j \in 1 .. Len(list) : new[j].host = list[j].host
  BY <1>1
<1>3. SortedList(new)
  BY <1>1, <1>2 DEF SortedList
<1>4. ASSUME NEW x \in Elems(new) PROVE x \in {y \in Elems(list) : y.host # b.host} \cup {b}
  <2>1. PICK j \in 1 .. Len(new) : x = new[j]
    BY <1>4 DEF Elems
  <2>2. CASE j = i
    BY <1>1, <2>1, <2>2
  <2>3. CASE j # i
    <3>1. x = list[j] /\ x \in Elems(list)
      BY <1>1, <2>1, <2>3 DEF Elems
    <3>2. list[i] \in Elems(list) /\ (x.host = b.host => list[j] = list[i])
      <4>1. list[i] \in Elems(list)
        BY DEF Elems
      <4>. QED  BY <3>1, <4>1, OneBuffer
    <3>3. x \in Elems(new) /\ b \in Elems(new) /\ (x.host = b.host => x = b)
      <4>1. b \in Elems(new)
        BY <1>1 DEF Elems
      <4>. QED  BY <1>3, <1>4, <4>1, OneBuffer
    <3>. QED  BY <3>1, <3>3
  <2>. QED  BY <2>2, <2>3
<1>5. ASSUME NEW x \in {y \in Elems(list) : y.host # b.host} \cup {b} PROVE x \in Elems(new)
  <2>1. CASE x = b
    BY <1>1, <2>1 DEF Elems
  <2>2. CASE x \in Elems(list) /\ x.host # b.host
    BY <1>1, <2>2 DEF Elems
  <2>. QED  BY <1>5, <2>1, <2>2
<1>. QED  BY <1>1, <1>3, <1>4, <1>5

\* prune_assmbl_buf leaves the buffers of other hosts, in their order.
LEMMA PruneKeeps ==
  ASSUME NEW list \in Seq(Buffer), SortedList(list), NEW V,
         NEW out, out = Selected(list, {i \in DOMAIN list : list[i].host \notin V})
  PROVE  /\ out \in Seq(Buffer) /\ SortedList(out)
         /\ Elems(out) = {b \in Elems(list) : b.host \notin V}
<1>. DEFINE K == {i \in DOMAIN list : list[i].host \notin V}
<1>1. \A n \in 1 .. Len(list) : n \in K <=> list[n].host \notin V
  OBVIOUS
<1>. HIDE DEF K
<1>2. /\ out \in Seq(Buffer)
      /\ \A n \in 1 .. Len(list) : n \in K =>
           Position(K, n) \in 1 .. Len(out) /\ out[Position(K, n)] = list[n]
      /\ \A i \in 1 .. Len(out) :
           \E n \in 1 .. Len(list) : n \in K /\ Position(K, n) = i /\ out[i] = list[n]
  <2>1. out = Selected(list, K)
    BY DEF K
  <2>2. Selected(list, K) \in Seq(Buffer)
    BY SelectedFacts
  <2>3. \A n \in 1 .. Len(list) : n \in K =>
          /\ Position(K, n) \in 1 .. Len(Selected(list, K))
          /\ Selected(list, K)[Position(K, n)] = list[n]
    BY SelectedFacts
  <2>4. \A i \in 1 .. Len(Selected(list, K)) :
          \E n \in 1 .. Len(list) : n \in K /\ Position(K, n) = i /\ Selected(list, K)[i] = list[n]
    BY SelectedFacts
  <2>. QED  BY <2>1, <2>2, <2>3, <2>4, Zenon
<1>3. ASSUME NEW i \in 1 .. Len(out), NEW j \in 1 .. Len(out), i < j PROVE out[i].host < out[j].host
  <2>1. PICK m \in 1 .. Len(list), n \in 1 .. Len(list) :
          /\ m \in K /\ Position(K, m) = i /\ out[i] = list[m]
          /\ n \in K /\ Position(K, n) = j /\ out[j] = list[n]
    BY <1>2
  <2>2. CASE n <= m
    <3>1. n \in Nat /\ m \in Nat /\ Position(K, n) <= Position(K, m)
      BY <2>2, PositionOrder
    <3>. QED  BY <1>3, <2>1, <3>1
  <2>3. CASE m < n
    BY <2>1, <2>3 DEF SortedList
  <2>. QED  BY <2>2, <2>3
<1>4. SortedList(out)
  BY <1>3 DEF SortedList
<1>5. ASSUME NEW b \in Elems(out) PROVE b \in Elems(list) /\ b.host \notin V
  <2>1. PICK i \in 1 .. Len(out) : b = out[i]
    BY <1>5 DEF Elems
  <2>2. PICK n \in 1 .. Len(list) : n \in K /\ out[i] = list[n]
    BY <1>2
  <2>. QED  BY <1>1, <2>1, <2>2 DEF Elems
<1>6. ASSUME NEW b \in Elems(list), b.host \notin V PROVE b \in Elems(out)
  <2>1. PICK n \in 1 .. Len(list) : b = list[n] /\ n \in K
    BY <1>1, <1>6 DEF Elems
  <2>2. Position(K, n) \in 1 .. Len(out) /\ out[Position(K, n)] = b
    BY <1>2, <2>1
  <2>. QED  BY <2>2 DEF Elems
<1>. QED  BY <1>2, <1>4, <1>5, <1>6

-----------------------------------------------------------------------------
(* The inductive invariant. *)

\* Reports whose packets come in order, and those of them that were not pruned.
Straight(h) == (1 .. Len(sent[h])) \ (hit[h] \cup permuted[h])
Clean(h) == Straight(h) \ pruned[h]

\* A packet is part of a report that was sent.
Genuine(h) ==
  \A i \in 1 .. Len(net[h]) :
    /\ net[h][i].rpt \in 1 .. Len(sent[h])
    /\ net[h][i].size = sent[h][net[h][i].rpt]
    /\ net[h][i].chunk \in 0 .. NChunks(net[h][i].size) - 1
    /\ net[h][i].len = TextLen(net[h][i].size, net[h][i].chunk)

\* q carries what follows p in the same message.
Follows(q, p) == q.rpt = p.rpt /\ q.msgid = p.msgid /\ q.chunk = p.chunk + 1

LastChunk(p) == p.chunk = NChunks(p.size) - 1

\* The packets of a report that no fault touches follow each other.
InLine(h) ==
  \A i \in 1 .. Len(net[h]) : net[h][i].rpt \in Straight(h) =>
    /\ ~LastChunk(net[h][i]) => i < Len(net[h]) /\ Follows(net[h][i + 1], net[h][i])
    /\ net[h][i].chunk > 0 /\ i > 1 => Follows(net[h][i], net[h][i - 1])

\* A report is on its way until its last packet is received, and then applied.
Pending(h) ==
  h # NullUuid => \A r \in Clean(h) :
    \/ IsApplied(h, r)
    \/ \E i \in 1 .. Len(net[h]) : net[h][i].rpt = r /\ LastChunk(net[h][i])

\* The text of the first k chunks of report r.
Prefix(text, r, k) ==
  \A c \in Cells : text[c] = IF c < k THEN [rpt |-> r, len |-> ChunkLen] ELSE Hole

\* The listener holds what came before the first packet on the way, if that one is
\* part of a clean report.
Continued(h) ==
  net[h] # <<>> /\ net[h][1].rpt \in Clean(h) =>
    IF net[h][1].chunk = 0
      THEN \A c \in Held(h) : c.msgid # net[h][1].msgid
      ELSE \E c \in Held(h) :
             /\ c.msgid = net[h][1].msgid /\ c.size = net[h][1].size
             /\ c.charcount = net[h][1].chunk * ChunkLen
             /\ Prefix(c.text, net[h][1].rpt, net[h][1].chunk)

OnlyOf(text, r) == \A c \in Cells : text[c] = Hole \/ text[c].rpt = r

\* No agent starts again: its message ids tell its reports apart.
Numbered ==
  /\ faults["restart"] = 0
  /\ \A h \in Hosts : /\ msgid[h] = Len(sent[h])
                      /\ \A i \in 1 .. Len(net[h]) : net[h][i].msgid = net[h][i].rpt - 1

\* Nothing else goes wrong: no packet is lost, doubled, moved or late.
Quiet ==
  /\ \A k \in FaultKind \ {"restart"} : faults[k] = 0
  /\ \A h \in Hosts : hit[h] = {} /\ permuted[h] = {} /\ pruned[h] = {}
  /\ \A i \in 1 .. Len(bufs) : bufs[i].age = 0

\* What the listener holds is text of one report; of a clean one, whose rest is next.
OfOneReport(h) ==
  \A c \in Held(h) : \E r \in 1 .. Len(sent[h]) :
    /\ c.size = sent[h][r] /\ OnlyOf(c.text, r)
    /\ ~Quiet => r = c.msgid + 1
    /\ r \in Clean(h) => net[h] # <<>> /\ net[h][1].rpt = r /\ net[h][1].chunk > 0

HostInv(h) ==
  /\ Genuine(h) /\ InLine(h) /\ Pending(h) /\ Continued(h) /\ OfOneReport(h)
  /\ Mixed \notin ToSet(applied[h])

Lengths == \A h \in Hosts : Len(sent[h]) <= MaxReports

Typed == TypeOK /\ Lengths /\ BuffersSorted

AssemblyInv ==
  Typed /\ WritesInBounds /\ (Numbered \/ Quiet) /\ \A h \in Hosts : HostInv(h)

-----------------------------------------------------------------------------
(* One turn of the listener. *)

\* A new buffer, and a buffer with one more packet, are buffers.
LEMMA BufferTypes ==
  ASSUME NEW h \in Hosts, NEW p \in Packet
  PROVE  /\ NewBuf(h, p) \in Buffer
         /\ \A b \in Buffer : PktAssembly(b, p) \in Buffer
<1>1. /\ p.rpt \in 1 .. MaxReports /\ p.len \in 1 .. ChunkLen /\ p.size \in Sizes /\ p.msgid \in Nat
      /\ MaxReports \in Nat /\ ChunkLen \in Nat /\ AgeBound \in Nat
  BY AssemblyAssumption DEF Packet, Reports
<1>2. Hole \in Cell /\ [rpt |-> p.rpt, len |-> p.len] \in Cell
  BY <1>1 DEF Hole, Cell
<1>3. NewBuf(h, p) \in Buffer
  BY <1>1, <1>2 DEF NewBuf, Buffer
<1>4. ASSUME NEW b \in Buffer PROVE PktAssembly(b, p) \in Buffer
  <2>1. /\ b.text \in [Cells -> Cell] /\ b.charcount \in Nat
        /\ b = [host |-> b.host, age |-> b.age, charcount |-> b.charcount, msgid |-> b.msgid,
                size |-> b.size, text |-> b.text]
    BY DEF Buffer
  <2>2. Strcpy(b.text, p) \in [Cells -> Cell]
    BY <1>2, <2>1 DEF Strcpy
  <2>3. b.charcount + p.len \in Nat
    BY <1>1, <2>1
  <2>. QED  BY <2>2, <2>3 DEF PktAssembly, Buffer
<1>. QED  BY <1>3, <1>4

\* The buffer a the packet goes to: the one that collects its message, or a new one.
Opened(h, p, a) ==
  /\ a.host = h
  /\ \/ a \in Elems(bufs) /\ a.msgid = p.msgid
     \/ a = NewBuf(h, p) /\ \A x \in Elems(bufs) : x.host = h => x.msgid # p.msgid

\* get_assmbl_buf, destroy_assmbl_buf and new_assmbl_buf find or make that buffer.
LEMMA OpenBufKeeps ==
  ASSUME bufs \in Seq(Buffer), SortedList(bufs), NEW h \in Hosts, NEW p \in Packet,
         NEW list, list = OpenBuf(bufs, h, p)
  PROVE  /\ list \in Seq(Buffer) /\ SortedList(list)
         /\ {x \in Elems(list) : x.host # h} = {x \in Elems(bufs) : x.host # h}
         /\ \A a \in Elems(list) : a.host = h => Opened(h, p, a)
<1>1. CASE BufFound(bufs, h, p)
  <2>1. list = bufs
    BY <1>1 DEF OpenBuf
  <2>2. PICK i \in 1 .. Len(bufs) : bufs[i].host = h /\ bufs[i].msgid = p.msgid
    BY <1>1 DEF BufFound
  <2>3. bufs[i] \in Elems(bufs)
    BY DEF Elems
  <2>4. \A a \in Elems(bufs) : a.host = h => a = bufs[i]
    BY <2>2, <2>3, OneBuffer
  <2>. QED  BY <2>1, <2>2, <2>3, <2>4 DEF Opened
<1>2. CASE ~BufFound(bufs, h, p)
  <2>1. PICK rest \in Seq(Buffer) :
          /\ rest = DestroyBuf(bufs, h) /\ SortedList(rest)
          /\ Elems(rest) = {b \in Elems(bufs) : b.host # h}
    BY DestroyBufKeeps
  <2>2. NewBuf(h, p) \in Buffer /\ NewBuf(h, p).host = h
    BY BufferTypes DEF NewBuf
  <2>3. list = InsertBuf(rest, NewBuf(h, p))
    BY <1>2, <2>1 DEF OpenBuf
  <2>4. /\ list \in Seq(Buffer) /\ SortedList(list)
        /\ Elems(list) = Elems(rest) \cup {NewBuf(h, p)}
    BY <2>1, <2>2, <2>3, InsertBufKeeps
  <2>5. \A x \in Elems(bufs) : x.host = h => x.msgid # p.msgid
    BY <1>2 DEF BufFound, Elems
  <2>. QED  BY <2>1, <2>2, <2>4, <2>5 DEF Opened
<1>. QED  BY <1>1, <1>2

\* What a turn that overruns no buffer leaves in the list, before it is pruned.
Left(h, p, a, left) ==
  /\ left \in Seq(Buffer) /\ SortedList(left)
  /\ Elems(left) = {x \in Elems(bufs) : x.host # h} \cup
                     (IF PktAssembly(a, p).charcount = p.size THEN {} ELSE {PktAssembly(a, p)})

\* The listener's turn for a packet: which buffer, what is applied, what is left.
Turn(h, p, a, left) ==
  /\ p \in Packet /\ a \in Buffer
  /\ listener = "up" /\ net[h] # <<>> /\ p = net[h][1]
  /\ net' = [net EXCEPT ![h] = Tail(@)]
  /\ UNCHANGED <<msgid, sent, faults, hit, permuted>>
  /\ Opened(h, p, a)
  /\ \/ /\ Overrun(PktAssembly(a, p), p)
        /\ listener' = "overrun" /\ UNCHANGED <<bufs, pktc, applied, pruned>>
     \/ /\ ~Overrun(PktAssembly(a, p), p) /\ Left(h, p, a, left)
        /\ IF PktAssembly(a, p).charcount = p.size
             THEN Apply(h, PktAssembly(a, p).text) ELSE UNCHANGED applied
        /\ \/ Prune(left)
           \/ bufs' = left /\ CountPacket /\ UNCHANGED <<pruned, listener>>

\* report_listener takes one such turn for a report packet.
LEMMA RecvCases ==
  ASSUME TypeOK, BuffersSorted, NEW h \in Hosts, Recv(h)
  PROVE  \E p, a, left : Turn(h, p, a, left)
<1>1. PICK p : p = Head(net[h]) /\ p \in Packet /\ p = net[h][1]
  <2>1. net[h] \in Seq(Packet) /\ net[h] # <<>>
    BY DEF TypeOK, Recv
  <2>. QED  BY <2>1
<1>2. PICK list : list = OpenBuf(bufs, h, p)
  OBVIOUS
<1>. DEFINE Rest(q, open, i, b) ==
       IF Overrun(b, q)
         THEN listener' = "overrun" /\ UNCHANGED <<bufs, pktc, applied, pruned>>
         ELSE LET done == b.charcount = q.size
                  left == IF done THEN DestroyBuf(open, h) ELSE [open EXCEPT ![i] = b]
              IN /\ IF done THEN Apply(h, b.text) ELSE UNCHANGED applied
                 /\ IF pktc = 0
                      THEN Prune(left)
                      ELSE bufs' = left /\ CountPacket /\ UNCHANGED <<pruned, listener>>
<1>3. PICK i \in DOMAIN list : list[i].host = h /\ Rest(p, list, i, PktAssembly(list[i], p))
  <2>1. \E q \in {Head(net[h])} : \E open \in {OpenBuf(bufs, h, q)} :
        \E i \in {k \in DOMAIN open : open[k].host = h} : \E b \in {PktAssembly(open[i], q)} :
          Rest(q, open, i, b)
    BY Zenon DEF Recv
  <2>. HIDE DEF Rest
  <2>2. PICK q \in {Head(net[h])} : \E open \in {OpenBuf(bufs, h, q)} :
        \E i \in {k \in DOMAIN open : open[k].host = h} : \E b \in {PktAssembly(open[i], q)} :
          Rest(q, open, i, b)
    BY <2>1, Zenon
  <2>3. q = p
    BY <1>1, <2>2
  <2>4. PICK open \in {OpenBuf(bufs, h, p)} :
        \E i \in {k \in DOMAIN open : open[k].host = h} : \E b \in {PktAssembly(open[i], p)} :
          Rest(p, open, i, b)
    BY <2>2, <2>3, Zenon
  <2>5. open = list
    BY <1>2, <2>4
  <2>6. PICK i \in {k \in DOMAIN list : list[k].host = h} : \E b \in {PktAssembly(list[i], p)} :
          Rest(p, list, i, b)
    BY <2>4, <2>5, Zenon
  <2>. QED  BY <2>6
<1>. HIDE DEF Rest
<1>4. bufs \in Seq(Buffer) /\ SortedList(bufs)
  BY DEF TypeOK, BuffersSorted, SortedList
<1>5. /\ list \in Seq(Buffer) /\ SortedList(list)
      /\ {x \in Elems(list) : x.host # h} = {x \in Elems(bufs) : x.host # h}
      /\ \A x \in Elems(list) : x.host = h => Opened(h, p, x)
  BY <1>1, <1>2, <1>4, OpenBufKeeps
<1>6. PICK a : a = list[i]
  OBVIOUS
<1>7. i \in 1 .. Len(list) /\ a \in Buffer /\ a.host = h /\ Opened(h, p, a)
  <2>1. i \in 1 .. Len(list) /\ a \in Elems(list)
    BY <1>5, <1>6 DEF Elems
  <2>. QED  BY <1>3, <1>5, <1>6, <2>1
<1>8. PICK b : b = PktAssembly(a, p)
  OBVIOUS
<1>9. b \in Buffer /\ b.host = h
  <2>1. b \in Buffer
    BY <1>1, <1>7, <1>8, BufferTypes
  <2>. QED  BY <1>7, <1>8, <2>1 DEF PktAssembly, Buffer
<1>10. PICK left : left = IF b.charcount = p.size THEN DestroyBuf(list, h) ELSE [list EXCEPT ![i] = b]
  OBVIOUS
<1>11. Left(h, p, a, left)
  <2>1. CASE b.charcount = p.size
    <3>1. /\ left \in Seq(Buffer) /\ SortedList(left)
          /\ Elems(left) = {x \in Elems(list) : x.host # h}
      BY <1>5, <1>10, <2>1, DestroyBufKeeps
    <3>. QED  BY <1>5, <1>8, <2>1, <3>1 DEF Left
  <2>2. CASE b.charcount # p.size
    <3>1. /\ left \in Seq(Buffer) /\ SortedList(left)
          /\ Elems(left) = {x \in Elems(list) : x.host # b.host} \cup {b}
      <4>1. left = [list EXCEPT ![i] = b] /\ i \in 1 .. Len(list) /\ b.host = list[i].host
        BY <1>3, <1>7, <1>9, <1>10, <2>2
      <4>. QED  BY <1>5, <1>9, <4>1, ReplaceKeeps
    <3>. QED  BY <1>5, <1>8, <1>9, <2>2, <3>1 DEF Left
  <2>. QED  BY <2>1, <2>2
<1>12. Rest(p, list, i, b)
  BY <1>3, <1>6, <1>8
<1>13. /\ listener = "up" /\ net[h] # <<>> /\ net' = [net EXCEPT ![h] = Tail(@)]
       /\ UNCHANGED <<msgid, sent, faults, hit, permuted>>
  BY DEF Recv, agentVars
<1>14. CASE Overrun(b, p)
  <2>1. listener' = "overrun" /\ UNCHANGED <<bufs, pktc, applied, pruned>>
    BY <1>12, <1>14 DEF Rest
  <2>2. Turn(h, p, a, left)
    BY <1>1, <1>7, <1>8, <1>13, <1>14, <2>1 DEF Turn
  <2>. QED  BY <2>2
<1>15. CASE ~Overrun(b, p)
  <2>1. /\ IF b.charcount = p.size THEN Apply(h, b.text) ELSE UNCHANGED applied
        /\ Prune(left) \/ (bufs' = left /\ CountPacket /\ UNCHANGED <<pruned, listener>>)
    BY <1>10, <1>12, <1>15 DEF Rest
  <2>. QED  BY <1>1, <1>7, <1>8, <1>11, <1>13, <1>15, <2>1 DEF Turn
<1>. QED  BY <1>14, <1>15

\* After a turn the list is pruned, with the buffers in V taken out, or left as it is.
Pruned(left, V) ==
  /\ bufs' \in Seq(Buffer) /\ SortedList(bufs')
  /\ Elems(bufs') = {b \in Elems(left) : b.host \notin V}
  /\ pruned' = [h \in Hosts |-> IF h \in V THEN pruned[h] \cup RptsOf(left, h) ELSE pruned[h]]
  /\ listener' \in {"up", "crashed"}
  /\ (\A b \in Elems(left) : b.age = 0) => V = {}

\* What becomes of the list that a turn leaves.
LEMMA PruneCases ==
  ASSUME TypeOK, listener = "up", NEW left \in Seq(Buffer), SortedList(left),
         Prune(left) \/ (bufs' = left /\ CountPacket /\ UNCHANGED <<pruned, listener>>)
  PROVE  (\E V : Pruned(left, V)) /\ pktc' \in 0 .. PruneCount - 1
<1>. DEFINE all == {b \in Elems(left) : b.host \notin {}}
<1>0. /\ pktc' \in 0 .. PruneCount - 1 \/ pktc' = pktc
      /\ pktc \in 0 .. PruneCount - 1
  <2>1. CountPacket => pktc' \in 0 .. PruneCount - 1
    <3>1. PruneCount \in Nat \ {0} /\ pktc \in 0 .. PruneCount - 1
      BY AssemblyAssumption DEF TypeOK
    <3>. QED  BY <3>1 DEF CountPacket
  <2>. QED  BY <2>1 DEF Prune, TypeOK
<1>1. CASE \/ bufs' = left /\ CountPacket /\ UNCHANGED <<pruned, listener>>
           \/ Prune(left) /\ PruneCrashes(left)
  <2>1. bufs' = left /\ pruned' = pruned /\ listener' \in {"up", "crashed"}
    BY <1>1 DEF Prune
  <2>2. pruned' = [h \in Hosts |-> IF h \in {} THEN pruned[h] \cup RptsOf(left, h) ELSE pruned[h]]
    BY <2>1 DEF TypeOK
  <2>3. Pruned(left, {})
    BY <2>1, <2>2 DEF Pruned
  <2>. QED  BY <1>0, <2>3
<1>2. CASE Prune(left) /\ ~PruneCrashes(left)
  <2>1. PICK V : V = Victims(left)
    OBVIOUS
  <2>2. /\ bufs' = Selected(left, {i \in DOMAIN left : left[i].host \notin V})
        /\ pruned' = [h \in Hosts |-> IF h \in V THEN pruned[h] \cup RptsOf(left, h) ELSE pruned[h]]
        /\ listener' = listener
    BY <1>2, <2>1 DEF Prune
  <2>3. /\ bufs' \in Seq(Buffer) /\ SortedList(bufs')
        /\ Elems(bufs') = {b \in Elems(left) : b.host \notin V}
    BY <2>2, PruneKeeps
  <2>4. ASSUME \A b \in Elems(left) : b.age = 0 PROVE V = {}
    <3>1. \A i \in 1 .. Len(left) : left[i].age = 0
      BY <2>4 DEF Elems
    <3>2. MaxAge \in Nat
      BY AssemblyAssumption
    <3>3. \A j \in 1 .. Len(left) - 1 : j \in 1 .. Len(left)
      OBVIOUS
    <3>4. \A j \in 1 .. Len(left) - 1 : ~Aged(left[j])
      BY <3>1, <3>2, <3>3 DEF Aged
    <3>. QED  BY <2>1, <3>4 DEF Victims
  <2>5. Pruned(left, V)
    BY <2>2, <2>3, <2>4 DEF Pruned
  <2>. QED  BY <1>0, <2>5
<1>. QED  BY <1>1, <1>2

-----------------------------------------------------------------------------
(* The types, and the order of the list. *)

\* The packets of a report.
LEMMA PacketsType ==
  ASSUME NEW r \in Reports, NEW size \in Sizes, NEW id \in Nat
  PROVE  /\ Packets(r, size, id) \in Seq(Packet)
         /\ Len(Packets(r, size, id)) = NChunks(size)
         /\ \A k \in 1 .. NChunks(size) :
              Packets(r, size, id)[k] =
                [rpt |-> r, size |-> size, chunk |-> k - 1, len |-> TextLen(size, k - 1), msgid |-> id]
<1>. DEFINE pkt(k) == [rpt |-> r, size |-> size, chunk |-> k - 1, len |-> TextLen(size, k - 1), msgid |-> id]
<1>1. NChunks(size) \in Nat /\ size \in Nat \ {0} /\ 0 .. NChunks(size) - 1 \subseteq Cells
  BY CellsFacts
<1>2. ASSUME NEW k \in 1 .. NChunks(size) PROVE pkt(k) \in Packet
  <2>1. k - 1 \in 0 .. NChunks(size) - 1
    BY <1>1
  <2>2. TextLen(size, k - 1) \in 1 .. ChunkLen /\ k - 1 \in Cells
    BY <1>1, <2>1, TextLenFacts
  <2>. QED  BY <2>2 DEF Packet
<1>3. Packets(r, size, id) = [k \in 1 .. NChunks(size) |-> pkt(k)]
  BY DEF Packets
<1>. HIDE DEF pkt
<1>4. Packets(r, size, id) \in Seq(Packet)
  BY <1>1, <1>2, <1>3, IsASeq
<1>5. Len(Packets(r, size, id)) = NChunks(size)
  BY <1>1, <1>3
<1>. QED  BY <1>3, <1>4, <1>5 DEF pkt

\* What json_loads can make of a text.
LEMMA OutcomesType ==
  ASSUME NEW h \in Hosts, NEW text, NEW o \in Outcomes(h, text)
  PROVE  \/ o = <<>>
         \/ h # NullUuid /\ \E r \in DOMAIN sent[h] : IsReport(h, text, r) /\ o = <<r>>
         \/ IsMixture(h, text) /\ o = <<Mixed>>
BY DEF Outcomes

\* The state is typed at first.
LEMMA TypedInit == Init => Typed
<1>. SUFFICES ASSUME Init PROVE Typed
  OBVIOUS
<1>. USE AssemblyAssumption DEF Init
<1>1. TypeOK
  BY DEF TypeOK
<1>2. Lengths
  BY DEF Lengths
<1>3. BuffersSorted
  BY DEF BuffersSorted
<1>. QED  BY <1>1, <1>2, <1>3 DEF Typed

\* And after every step of an agent.
LEMMA TypedReport ==
  ASSUME Typed, NEW h \in Hosts, NEW size \in Sizes, Report(h, size)
  PROVE  Typed'
<1>1. /\ UNCHANGED <<bufs, pktc, listener, applied, pruned, faults, hit, permuted>>
      /\ Len(sent[h]) < MaxReports /\ sent' = [sent EXCEPT ![h] = Append(@, size)]
      /\ net' = [net EXCEPT ![h] = @ \o Packets(Len(sent[h]) + 1, size, msgid[h])]
      /\ msgid' = [msgid EXCEPT ![h] = @ + 1]
  BY DEF Report, listenerVars
<1>2. sent[h] \in Seq(Sizes) /\ msgid[h] \in Nat /\ net[h] \in Seq(Packet) /\ MaxReports \in Nat
  BY AssemblyAssumption DEF Typed, TypeOK
<1>3. Len(sent[h]) + 1 \in Reports
  BY <1>1, <1>2 DEF Reports
<1>4. net[h] \o Packets(Len(sent[h]) + 1, size, msgid[h]) \in Seq(Packet)
  BY <1>2, <1>3, PacketsType, ConcatProperties
<1>5. Append(sent[h], size) \in Seq(Sizes) /\ Len(Append(sent[h], size)) = Len(sent[h]) + 1
  BY <1>2
<1>6. /\ net' \in [Hosts -> Seq(Packet)] /\ sent' \in [Hosts -> Seq(Sizes)]
      /\ msgid' \in [Hosts -> Nat]
  BY <1>1, <1>4, <1>5 DEF Typed, TypeOK
<1>7. TypeOK'
  BY <1>1, <1>6 DEF Typed, TypeOK
<1>8. Lengths'
  <2>1. ASSUME NEW g \in Hosts PROVE Len(sent'[g]) <= MaxReports
    <3>1. CASE g = h
      BY <1>1, <1>2, <1>5, <3>1 DEF Typed, TypeOK
    <3>2. CASE g # h
      BY <1>1, <3>2 DEF Typed, TypeOK, Lengths
    <3>. QED  BY <3>1, <3>2
  <2>. QED  BY <2>1 DEF Lengths
<1>. QED  BY <1>1, <1>7, <1>8 DEF Typed, BuffersSorted

\* After every fault of the network.
LEMMA TypedFault ==
  ASSUME Typed, NEW h \in Hosts, NEW i \in DOMAIN net[h], Lose(h, i) \/ Duplicate(h, i) \/ Swap(h, i)
  PROVE  Typed'
<1>1. /\ UNCHANGED <<msgid, sent, bufs, pktc, listener, applied, pruned>>
      /\ \E k \in FaultKind : Fault(k)
      /\ \/ net' = [net EXCEPT ![h] = RemoveAt(@, i)]
         \/ net' = [net EXCEPT ![h] = InsertAt(@, i, @[i])]
         \/ /\ i < Len(net[h])
            /\ net' = [net EXCEPT ![h] = [@ EXCEPT ![i] = net[h][i + 1], ![i + 1] = net[h][i]]]
      /\ \/ hit' = hit
         \/ hit' = [hit EXCEPT ![h] = @ \cup {net[h][i].rpt}]
         \/ i < Len(net[h]) /\ hit' = [hit EXCEPT ![h] = @ \cup {net[h][i].rpt, net[h][i + 1].rpt}]
      /\ permuted' = permuted \/ permuted' = [permuted EXCEPT ![h] = @ \cup {net[h][i].rpt}]
  BY DEF Lose, Duplicate, Swap, agentVars, listenerVars, FaultKind, Hit
<1>2. net[h] \in Seq(Packet) /\ i \in 1 .. Len(net[h]) /\ Len(net[h]) \in Nat
  BY DEF Typed, TypeOK
<1>3. /\ RemoveAt(net[h], i) \in Seq(Packet) /\ InsertAt(net[h], i, net[h][i]) \in Seq(Packet)
      /\ i < Len(net[h]) =>
           [net[h] EXCEPT ![i] = net[h][i + 1], ![i + 1] = net[h][i]] \in Seq(Packet)
  <2>1. net[h][i] \in Packet /\ i \in 1 .. Len(net[h]) + 1
    BY <1>2
  <2>2. RemoveAt(net[h], i) \in Seq(Packet) /\ InsertAt(net[h], i, net[h][i]) \in Seq(Packet)
    BY <1>2, <2>1, RemoveAtFacts, InsertAtFacts
  <2>3. ASSUME i < Len(net[h])
        PROVE  [net[h] EXCEPT ![i] = net[h][i + 1], ![i + 1] = net[h][i]] \in Seq(Packet)
    <3>1. i + 1 \in 1 .. Len(net[h]) /\ net[h][i + 1] \in Packet
      BY <1>2, <2>3
    <3>. QED  BY <1>2, <2>1, <3>1
  <2>. QED  BY <2>2, <2>3
<1>4. net' \in [Hosts -> Seq(Packet)]
  BY <1>1, <1>3 DEF Typed, TypeOK
<1>5. faults' \in [FaultKind -> Nat]
  <2>1. PICK k \in FaultKind : faults[k] > 0 /\ faults' = [faults EXCEPT ![k] = @ - 1]
    BY <1>1 DEF Fault
  <2>2. faults[k] - 1 \in Nat
    BY <2>1 DEF Typed, TypeOK
  <2>. QED  BY <2>1, <2>2 DEF Typed, TypeOK
<1>6. hit' \in [Hosts -> SUBSET Reports] /\ permuted' \in [Hosts -> SUBSET Reports]
  <2>1. net[h][i].rpt \in Reports /\ (i < Len(net[h]) => net[h][i + 1].rpt \in Reports)
    <3>1. net[h][i] \in Packet /\ (i < Len(net[h]) => net[h][i + 1] \in Packet)
      BY <1>2
    <3>. QED  BY <3>1 DEF Packet
  <2>2. hit \in [Hosts -> SUBSET Reports] /\ permuted \in [Hosts -> SUBSET Reports]
    BY DEF Typed, TypeOK
  <2>3. hit' \in [Hosts -> SUBSET Reports]
    <3>1. CASE hit' = [hit EXCEPT ![h] = @ \cup {net[h][i].rpt}]
      BY <2>1, <2>2, <3>1
    <3>2. CASE i < Len(net[h]) /\ hit' = [hit EXCEPT ![h] = @ \cup {net[h][i].rpt, net[h][i + 1].rpt}]
      BY <2>1, <2>2, <3>2
    <3>. QED  BY <1>1, <2>2, <3>1, <3>2
  <2>4. permuted' \in [Hosts -> SUBSET Reports]
    BY <1>1, <2>1, <2>2
  <2>. QED  BY <2>3, <2>4
<1>7. TypeOK'
  BY <1>1, <1>4, <1>5, <1>6 DEF Typed, TypeOK
<1>. QED  BY <1>1, <1>7 DEF Typed, Lengths, BuffersSorted

\* After every turn of the listener.
LEMMA TypedRecv ==
  ASSUME Typed, NEW h \in Hosts, Recv(h)
  PROVE  Typed'
<1>1. PICK p, a, left : Turn(h, p, a, left)
  BY RecvCases DEF Typed
<1>2. net' \in [Hosts -> Seq(Packet)]
  <2>1. net[h] \in Seq(Packet) /\ net[h] # <<>> /\ net' = [net EXCEPT ![h] = Tail(@)]
    BY <1>1 DEF Turn, Typed, TypeOK
  <2>2. Tail(net[h]) \in Seq(Packet)
    BY <2>1, HeadTailProperties
  <2>. QED  BY <2>1, <2>2 DEF Typed, TypeOK
<1>3. UNCHANGED <<msgid, sent, faults, hit, permuted>>
  BY <1>1 DEF Turn
<1>4. CASE listener' = "overrun" /\ UNCHANGED <<bufs, pktc, applied, pruned>>
  <2>1. TypeOK'
    BY <1>2, <1>3, <1>4 DEF Typed, TypeOK
  <2>. QED  BY <1>3, <1>4, <2>1 DEF Typed, Lengths, BuffersSorted
<1>5. CASE /\ Left(h, p, a, left)
           /\ Apply(h, PktAssembly(a, p).text) \/ UNCHANGED applied
           /\ Prune(left) \/ (bufs' = left /\ CountPacket /\ UNCHANGED <<pruned, listener>>)
  <2>1. left \in Seq(Buffer) /\ SortedList(left) /\ listener = "up"
    BY <1>1, <1>5 DEF Left, Turn
  <2>2. PICK V : Pruned(left, V)
    BY <1>5, <2>1, PruneCases DEF Typed
  <2>3. pktc' \in 0 .. PruneCount - 1
    BY <1>5, <2>1, PruneCases DEF Typed
  <2>4. applied' \in [Hosts -> Seq(Reports \cup {Mixed})]
    <3>1. CASE UNCHANGED applied
      BY <3>1 DEF Typed, TypeOK
    <3>2. ASSUME NEW o \in Outcomes(h, PktAssembly(a, p).text),
                 applied' = [applied EXCEPT ![h] = @ \o o]
          PROVE  applied' \in [Hosts -> Seq(Reports \cup {Mixed})]
      <4>1. o \in Seq(Reports \cup {Mixed})
        <5>1. \A r \in DOMAIN sent[h] : r \in Reports
          <6>1. sent[h] \in Seq(Sizes) /\ Len(sent[h]) <= MaxReports /\ MaxReports \in Nat
            BY AssemblyAssumption DEF Typed, TypeOK, Lengths
          <6>. QED  BY <6>1 DEF Reports
        <5>2. PICK S : S = Reports \cup {Mixed}
          OBVIOUS
        <5>3. o = <<>> \/ \E x \in S : o = <<x>>
          BY <5>1, <5>2, OutcomesType
        <5>4. <<>> \in Seq(S) /\ \A x \in S : <<x>> \in Seq(S)
          OBVIOUS
        <5>5. o \in Seq(S)
          BY <5>3, <5>4, Zenon
        <5>. QED  BY <5>2, <5>5
      <4>2. applied[h] \in Seq(Reports \cup {Mixed})
        BY DEF Typed, TypeOK
      <4>3. applied[h] \o o \in Seq(Reports \cup {Mixed})
        BY <4>1, <4>2, ConcatProperties
      <4>. QED  BY <3>2, <4>3 DEF Typed, TypeOK
    <3>. QED  BY <1>5, <3>1, <3>2 DEF Apply
  <2>5. pruned' \in [Hosts -> SUBSET Reports]
    <3>1. ASSUME NEW g \in Hosts PROVE RptsOf(left, g) \subseteq Reports
      <4>1. \A j \in DOMAIN left : \A c \in Cells : left[j].text[c].rpt \in 0 .. MaxReports
        <5>1. \A b \in Buffer : b.text \in [Cells -> Cell]
          BY DEF Buffer
        <5>2. \A x \in Cell : x.rpt \in 0 .. MaxReports
          BY DEF Cell
        <5>3. \A j \in DOMAIN left : left[j] \in Buffer
          BY <2>1
        <5>. QED  BY <5>1, <5>2, <5>3
      <4>2. \A x \in 0 .. MaxReports : x # 0 => x \in Reports
        BY AssemblyAssumption DEF Reports
      <4>. QED  BY <4>1, <4>2 DEF RptsOf
    <3>2. pruned' = [g \in Hosts |-> IF g \in V THEN pruned[g] \cup RptsOf(left, g) ELSE pruned[g]]
      BY <2>2 DEF Pruned
    <3>3. pruned \in [Hosts -> SUBSET Reports]
      BY DEF Typed, TypeOK
    <3>. QED  BY <3>1, <3>2, <3>3
  <2>6. bufs' \in Seq(Buffer) /\ SortedList(bufs') /\ listener' \in {"up", "crashed"}
    BY <2>2 DEF Pruned
  <2>7. TypeOK'
    BY <1>2, <1>3, <2>3, <2>4, <2>5, <2>6 DEF Typed, TypeOK
  <2>8. BuffersSorted'
    BY <2>6 DEF BuffersSorted, SortedList
  <2>. QED  BY <1>3, <2>7, <2>8 DEF Typed, Lengths
<1>. QED  BY <1>1, <1>4, <1>5 DEF Turn

\* After a tick every buffer is older and nothing else has changed in the list.
LEMMA TickFacts ==
  ASSUME TypeOK, Tick
  PROVE  /\ Len(bufs') = Len(bufs) /\ bufs' \in Seq(Buffer)
         /\ \A i \in 1 .. Len(bufs) : bufs'[i].host = bufs[i].host /\ Content(bufs'[i]) = Content(bufs[i])
         /\ faults["delay"] > 0 /\ faults' = [faults EXCEPT !["delay"] = @ - 1]
         /\ UNCHANGED <<msgid, sent, net, pktc, listener, applied, pruned, hit, permuted>>
<1>. DEFINE older(b) == [b EXCEPT !.age = IF @ < AgeBound THEN @ + 1 ELSE @]
<1>1. /\ bufs' = [i \in DOMAIN bufs |-> older(bufs[i])]
      /\ faults["delay"] > 0 /\ faults' = [faults EXCEPT !["delay"] = @ - 1]
      /\ UNCHANGED <<msgid, sent, net, pktc, listener, applied, pruned, hit, permuted>>
  BY DEF Tick, Fault, agentVars
<1>2. \A b \in Buffer : older(b) \in Buffer /\ older(b).host = b.host /\ Content(older(b)) = Content(b)
  <2>1. ASSUME NEW b \in Buffer
        PROVE  older(b) \in Buffer /\ older(b).host = b.host /\ Content(older(b)) = Content(b)
    <3>1. b.age \in 0 .. AgeBound /\ AgeBound \in Nat
      BY AssemblyAssumption DEF Buffer
    <3>. QED  BY <3>1 DEF Buffer, Content
  <2>. QED  BY <2>1
<1>. HIDE DEF older
<1>3. bufs \in Seq(Buffer) /\ DOMAIN bufs = 1 .. Len(bufs) /\ Len(bufs) \in Nat
  BY DEF TypeOK
<1>4. \A i \in 1 .. Len(bufs) : bufs[i] \in Buffer /\ bufs'[i] = older(bufs[i])
  BY <1>1, <1>3
<1>5. bufs' \in Seq(Buffer) /\ Len(bufs') = Len(bufs)
  <2>1. [i \in 1 .. Len(bufs) |-> older(bufs[i])] \in Seq(Buffer)
    BY <1>2, <1>3, <1>4, IsASeq
  <2>. QED  BY <1>1, <1>3, <2>1
<1>. QED  BY <1>1, <1>2, <1>4, <1>5

\* After every step.
LEMMA TypedStep == Typed /\ [Next]_vars => Typed'
<1>. SUFFICES ASSUME Typed, [Next]_vars PROVE Typed'
  OBVIOUS
<1>1. ASSUME NEW h \in Hosts, Restart(h) PROVE Typed'
  <2>1. /\ UNCHANGED <<net, sent, bufs, pktc, listener, applied, pruned, hit, permuted>>
        /\ msgid' = [msgid EXCEPT ![h] = 0] /\ faults["restart"] > 0
        /\ faults' = [faults EXCEPT !["restart"] = @ - 1]
    BY <1>1 DEF Restart, Fault, listenerVars
  <2>2. faults["restart"] - 1 \in Nat /\ "restart" \in FaultKind
    BY <2>1 DEF Typed, TypeOK, FaultKind
  <2>3. TypeOK'
    BY <2>1, <2>2 DEF Typed, TypeOK
  <2>. QED  BY <2>1, <2>3 DEF Typed, Lengths, BuffersSorted
<1>2. CASE RecvOther
  <2>1. UNCHANGED <<msgid, sent, net, bufs, listener, applied, pruned, faults, hit, permuted>> /\ CountPacket
    BY <1>2 DEF RecvOther, agentVars
  <2>2. pktc' \in 0 .. PruneCount - 1
    <3>1. PruneCount \in Nat \ {0} /\ pktc \in 0 .. PruneCount - 1
      BY AssemblyAssumption DEF Typed, TypeOK
    <3>. QED  BY <2>1, <3>1 DEF CountPacket
  <2>3. TypeOK'
    BY <2>1, <2>2 DEF Typed, TypeOK
  <2>. QED  BY <2>1, <2>3 DEF Typed, Lengths, BuffersSorted
<1>3. CASE Tick
  <2>1. /\ Len(bufs') = Len(bufs) /\ bufs' \in Seq(Buffer)
        /\ \A i \in 1 .. Len(bufs) : bufs'[i].host = bufs[i].host
        /\ faults["delay"] > 0 /\ faults' = [faults EXCEPT !["delay"] = @ - 1]
        /\ UNCHANGED <<msgid, sent, net, pktc, listener, applied, pruned, hit, permuted>>
    BY <1>3, TickFacts DEF Typed
  <2>2. faults["delay"] - 1 \in Nat /\ "delay" \in FaultKind
    BY <2>1 DEF Typed, TypeOK, FaultKind
  <2>3. TypeOK'
    BY <2>1, <2>2 DEF Typed, TypeOK
  <2>4. BuffersSorted'
    <3>1. bufs \in Seq(Buffer)
      BY DEF Typed, TypeOK
    <3>. QED  BY <2>1, <3>1 DEF Typed, BuffersSorted
  <2>. QED  BY <2>1, <2>3, <2>4 DEF Typed, Lengths
<1>4. CASE UNCHANGED vars
  <2>1. UNCHANGED <<msgid, sent, net, bufs, pktc, listener, applied, pruned, faults, hit, permuted>>
    BY <1>4 DEF vars, agentVars, listenerVars
  <2>. QED  BY <2>1 DEF Typed, TypeOK, Lengths, BuffersSorted
<1>. QED  BY <1>1, <1>2, <1>3, <1>4, TypedReport, TypedFault, TypedRecv DEF Next

\* In every state the variables have their types, no agent has sent more reports than
\* it may, and the list is sorted.
LEMMA TypedAlways == Spec => []Typed
BY TypedInit, TypedStep, PTL DEF Spec

-----------------------------------------------------------------------------
(* Texts. *)

\* The text of a whole report.
Whole(text, r, size) ==
  \A c \in Cells :
    text[c] = IF c < NChunks(size) THEN [rpt |-> r, len |-> TextLen(size, c)] ELSE Hole

\* What copying a packet of report r makes of a text of that report.
LEMMA StrcpyFacts ==
  ASSUME NEW p \in Packet, NEW text \in [Cells -> Cell],
         p.chunk \in 0 .. NChunks(p.size) - 1, p.len = TextLen(p.size, p.chunk)
  PROVE  /\ OnlyOf(text, p.rpt) => OnlyOf(Strcpy(text, p), p.rpt)
         /\ Prefix(text, p.rpt, p.chunk) /\ ~LastChunk(p) =>
              Prefix(Strcpy(text, p), p.rpt, p.chunk + 1)
         /\ Prefix(text, p.rpt, p.chunk) /\ LastChunk(p) =>
              Whole(Strcpy(text, p), p.rpt, p.size)
<1>0. PICK r, new : r = p.rpt /\ new = Strcpy(text, p)
  OBVIOUS
<1>1. PICK n \in Nat \ {0}, k \in Nat :
        n = NChunks(p.size) /\ k = p.chunk /\ r = p.rpt /\ new = Strcpy(text, p) /\ k <= n - 1
  <2>1. p.size \in Sizes
    BY DEF Packet
  <2>2. PICK n \in Nat \ {0} : n = NChunks(p.size)
    BY <2>1, CellsFacts
  <2>3. p.chunk \in Nat /\ p.chunk <= n - 1
    BY <2>2
  <2>. QED  BY <1>0, <2>2, <2>3
<1>2. Cells \subseteq Nat
  BY CellsFacts
<1>3. \A c \in Cells : new[c] = IF c = k THEN [rpt |-> r, len |-> p.len]
                                ELSE IF c = k + 1 /\ p.len = ChunkLen THEN Hole ELSE text[c]
  BY <1>1 DEF Strcpy
<1>4. p.size \in Nat \ {0}
  BY CellsFacts DEF Packet
<1>5. OnlyOf(text, r) => OnlyOf(new, r)
  BY <1>3 DEF OnlyOf
<1>6. ASSUME Prefix(text, r, k), k # n - 1 PROVE Prefix(new, r, k + 1)
  <2>1. p.len = ChunkLen
    BY <1>1, <1>4, <1>6, TextLenFacts
  <2>2. \A c \in Cells : text[c] = IF c < k THEN [rpt |-> r, len |-> ChunkLen] ELSE Hole
    BY <1>6 DEF Prefix
  <2>3. \A c \in Cells : new[c] = IF c < k + 1 THEN [rpt |-> r, len |-> ChunkLen] ELSE Hole
    BY <1>2, <1>3, <2>1, <2>2
  <2>. QED  BY <2>3 DEF Prefix
<1>7. ASSUME Prefix(text, r, k), k = n - 1 PROVE Whole(new, r, p.size)
  <2>1. \A c \in Cells : text[c] = IF c < k THEN [rpt |-> r, len |-> ChunkLen] ELSE Hole
    BY <1>7 DEF Prefix
  <2>2. \A c \in Cells : c < k => TextLen(p.size, c) = ChunkLen
    <3>1. ASSUME NEW c \in Cells, c < k PROVE TextLen(p.size, c) = ChunkLen
      <4>1. c \in 0 .. NChunks(p.size) - 1 /\ c # NChunks(p.size) - 1
        BY <1>1, <1>2, <1>7, <3>1
      <4>. QED  BY <1>4, <4>1, TextLenFacts
    <3>. QED  BY <3>1
  <2>3. p.len = TextLen(p.size, k)
    BY <1>1
  <2>4. ASSUME NEW c \in Cells
        PROVE  new[c] = IF c < n THEN [rpt |-> r, len |-> TextLen(p.size, c)] ELSE Hole
    <3>1. CASE c < k
      BY <1>1, <1>2, <1>3, <2>1, <2>2, <3>1
    <3>2. CASE c = k
      BY <1>1, <1>2, <1>3, <1>7, <2>3, <3>2
    <3>3. CASE c > k
      <4>1. ~(c < k) /\ c # k /\ ~(c < n)
        BY <1>1, <1>2, <1>7, <3>3
      <4>. QED  BY <1>3, <2>1, <4>1
    <3>. QED  BY <1>2, <3>1, <3>2, <3>3
  <2>. QED  BY <1>1, <2>4 DEF Whole
<1>. QED  BY <1>1, <1>5, <1>6, <1>7 DEF LastChunk

\* A text of one report is no mixture.
LEMMA NoMixture ==
  ASSUME NEW h \in Hosts, NEW text, NEW r, OnlyOf(text, r)
  PROVE  ~IsMixture(h, text)
<1>1. \A c \in Cells : InString(text, c) => text[c].rpt = r
  BY DEF InString, OnlyOf, Hole
<1>. QED  BY <1>1 DEF IsMixture

\* The whole text of a report parses as that report and as no other.
LEMMA WholeIsReport ==
  ASSUME NEW h \in Hosts, sent[h] \in Seq(Sizes), NEW r \in DOMAIN sent[h], NEW text,
         Whole(text, r, sent[h][r])
  PROVE  IsReport(h, text, r) /\ \A q \in DOMAIN sent[h] : IsReport(h, text, q) => q = r
<1>1. PICK size \in Sizes : size = sent[h][r]
  OBVIOUS
<1>2. PICK n \in Nat \ {0} : n = NChunks(size) /\ 0 .. n - 1 \subseteq Cells
  BY CellsFacts
<1>3. /\ size \in Nat \ {0} /\ Cells \subseteq Nat /\ 0 \in Cells
      /\ \A q \in DOMAIN sent[h] : NChunks(sent[h][q]) \in Nat \ {0}
  <2>1. \A q \in DOMAIN sent[h] : sent[h][q] \in Sizes
    OBVIOUS
  <2>. QED  BY <2>1, CellsFacts
<1>4. \A c \in Cells : text[c] = IF c < n THEN [rpt |-> r, len |-> TextLen(size, c)] ELSE Hole
  BY <1>1, <1>2 DEF Whole
<1>10. \A c \in Cells : /\ c < n => text[c].rpt = r /\ text[c].len = TextLen(size, c)
                        /\ ~(c < n) => text[c].len = 0
  <2>. TAKE c \in Cells
  <2>1. ASSUME c < n PROVE text[c].rpt = r /\ text[c].len = TextLen(size, c)
    <3>1. text[c] = [rpt |-> r, len |-> TextLen(size, c)]
      BY <1>4, <2>1
    <3>. QED  BY <3>1
  <2>2. ASSUME ~(c < n) PROVE text[c].len = 0
    <3>1. text[c] = Hole
      BY <1>4, <2>2
    <3>. QED  BY <3>1 DEF Hole
  <2>. QED  BY <2>1, <2>2
<1>5. \A c \in Cells : c < n => /\ TextLen(size, c) \in 1 .. ChunkLen
                                /\ c # n - 1 => TextLen(size, c) = ChunkLen
  <2>1. ASSUME NEW c \in Cells, c < n
        PROVE  /\ TextLen(size, c) \in 1 .. ChunkLen
               /\ c # n - 1 => TextLen(size, c) = ChunkLen
    <3>1. c \in 0 .. NChunks(size) - 1
      BY <1>2, <1>3, <2>1
    <3>. QED  BY <1>2, <1>3, <3>1, TextLenFacts
  <2>. QED  BY <2>1
<1>6. ASSUME NEW c \in Cells, c < n PROVE InString(text, c)
  <2>1. text[c].len > 0
    BY <1>10, <1>5, <1>6
  <2>2. ASSUME NEW d \in 0 .. c - 1 PROVE text[d].len = ChunkLen
    <3>1. d \in Cells /\ d < n /\ d # n - 1
      BY <1>2, <1>3, <1>6
    <3>. QED  BY <1>10, <1>5, <3>1
  <2>. QED  BY <2>1, <2>2 DEF InString
<1>7. \A c \in Cells : ~(c < n) => ~InString(text, c)
  BY <1>10 DEF InString
<1>8. IsReport(h, text, r)
  BY <1>1, <1>2, <1>4, <1>6, <1>7 DEF IsReport
<1>9. ASSUME NEW q \in DOMAIN sent[h], IsReport(h, text, q) PROVE q = r
  <2>1. InString(text, 0) /\ text[0].rpt = r
    BY <1>3, <1>6, <1>10
  <2>2. text[0] = [rpt |-> q, len |-> TextLen(sent[h][q], 0)]
    BY <1>3, <1>9, <2>1 DEF IsReport
  <2>. QED  BY <2>1, <2>2
<1>. QED  BY <1>8, <1>9
-----------------------------------------------------------------------------
(* What is held after a step. *)

\* A host's one buffer.
LEMMA HeldFacts ==
  ASSUME Typed, NEW h \in Hosts
  PROVE  /\ Held(h) \subseteq Contents
         /\ \A c, d \in Held(h) : c = d
         /\ \A b \in Elems(bufs) : b.host = h => Content(b) \in Held(h)
<1>0. TypeOK /\ BuffersSorted
  BY DEF Typed
<1>1. bufs \in Seq(Buffer) /\ SortedList(bufs)
  <2>1. bufs \in Seq(Buffer)
    BY <1>0 DEF TypeOK
  <2>. QED  BY <1>0, <2>1 DEF BuffersSorted, SortedList
<1>2. Elems(bufs) \subseteq Buffer
  BY <1>1 DEF Elems
<1>3. \A b \in Buffer : Content(b) \in Contents
  BY DEF Buffer, Contents, Content
<1>4. \A b, c \in Elems(bufs) : b.host = h /\ c.host = h => b = c
  BY <1>1, OneBuffer
<1>. QED  BY <1>2, <1>3, <1>4 DEF Held, HeldIn

\* Of what was held, only what is of pruned reports is gone.
Settled(held, g) ==
  /\ pruned[g] \subseteq pruned'[g] /\ Held(g)' \subseteq held
  /\ \A c \in held : c \in Held(g)' \/ \A k \in Cells : c.text[k].rpt \in {0} \cup pruned'[g]

\* That is what pruning does.
LEMMA PrunedSettles ==
  ASSUME Typed, NEW left \in Seq(Buffer), NEW V, Pruned(left, V), NEW g \in Hosts
  PROVE  Settled(HeldIn(left, g), g)
<1>1. /\ Elems(bufs') = {b \in Elems(left) : b.host \notin V}
      /\ pruned'[g] = IF g \in V THEN pruned[g] \cup RptsOf(left, g) ELSE pruned[g]
  BY DEF Pruned
<1>2. Held(g)' \subseteq HeldIn(left, g)
  BY <1>1 DEF Held, HeldIn
<1>3. ASSUME NEW b \in Elems(left), b.host = g
      PROVE  Content(b) \in Held(g)' \/ \A k \in Cells : b.text[k].rpt \in {0} \cup pruned'[g]
  <2>1. CASE g \notin V
    BY <1>1, <1>3, <2>1 DEF Held, HeldIn
  <2>2. CASE g \in V
    <3>1. PICK i \in 1 .. Len(left) : b = left[i]
      BY DEF Elems
    <3>2. \A k \in Cells : b.text[k].rpt # 0 => b.text[k].rpt \in RptsOf(left, g)
      BY <1>3, <3>1 DEF RptsOf
    <3>. QED  BY <1>1, <2>2, <3>2
  <2>. QED  BY <2>1, <2>2
<1>4. \A c \in HeldIn(left, g) : c \in Held(g)' \/ \A k \in Cells : c.text[k].rpt \in {0} \cup pruned'[g]
  <2>1. ASSUME NEW c \in HeldIn(left, g)
        PROVE  c \in Held(g)' \/ \A k \in Cells : c.text[k].rpt \in {0} \cup pruned'[g]
    <3>1. PICK b \in Elems(left) : b.host = g /\ c = Content(b)
      BY DEF HeldIn
    <3>2. c.text = b.text
      BY <3>1 DEF Content
    <3>. QED  BY <1>3, <3>1, <3>2
  <2>. QED  BY <2>1
<1>. QED  BY <1>1, <1>2, <1>4 DEF Settled

\* What a turn leaves of the other hosts and of its own.
LEMMA HeldInLeft ==
  ASSUME Typed, NEW h \in Hosts, NEW p \in Packet, NEW a \in Buffer, a.host = h,
         NEW left, Left(h, p, a, left), NEW g \in Hosts
  PROVE  HeldIn(left, g) =
           IF g # h THEN Held(g)
           ELSE IF PktAssembly(a, p).charcount = p.size THEN {} ELSE {Content(PktAssembly(a, p))}
<1>1. PICK b \in Buffer : b = PktAssembly(a, p) /\ b.host = h
  <2>1. PktAssembly(a, p) \in Buffer
    BY BufferTypes
  <2>. QED  BY <2>1 DEF PktAssembly, Buffer
<1>2. Elems(left) = {x \in Elems(bufs) : x.host # h} \cup (IF b.charcount = p.size THEN {} ELSE {b})
  BY <1>1 DEF Left
<1>3. CASE g # h
  <2>1. {x \in Elems(left) : x.host = g} = {x \in Elems(bufs) : x.host = g}
    BY <1>1, <1>2, <1>3
  <2>. QED  BY <1>3, <2>1 DEF Held, HeldIn
<1>4. CASE g = h
  <2>1. {x \in Elems(left) : x.host = g} = IF b.charcount = p.size THEN {} ELSE {b}
    BY <1>1, <1>2, <1>4
  <2>2. CASE b.charcount = p.size
    BY <1>1, <1>4, <2>1, <2>2 DEF HeldIn
  <2>3. CASE b.charcount # p.size
    <3>1. {x \in Elems(left) : x.host = g} = {b}
      BY <2>1, <2>3
    <3>2. HeldIn(left, g) = {Content(b)}
      BY <3>1 DEF HeldIn
    <3>. QED  BY <1>1, <1>4, <2>3, <3>2
  <2>. QED  BY <2>2, <2>3
<1>. QED  BY <1>3, <1>4

\* A step that does nothing to a host but settle its buffer keeps the host's invariant.
LEMMA OtherHost ==
  ASSUME Typed, NEW g \in Hosts, HostInv(g), Settled(Held(g), g), Quiet => Quiet',
         net'[g] = net[g], sent'[g] = sent[g], hit'[g] = hit[g], permuted'[g] = permuted[g],
         applied'[g] = applied[g]
  PROVE  HostInv(g)'
<1>1. Straight(g)' = Straight(g) /\ Clean(g)' \subseteq Clean(g)
  BY DEF Straight, Clean, Settled
<1>2. Genuine(g)' /\ InLine(g)' /\ Mixed \notin ToSet(applied'[g])
  BY <1>1 DEF HostInv, Genuine, InLine
<1>3. Pending(g)'
  BY <1>1 DEF HostInv, Pending, IsApplied
<1>4. Continued(g)'
  <2>1. ASSUME net[g] # <<>>, net[g][1].rpt \in Clean(g)'
        PROVE  IF net[g][1].chunk = 0
                 THEN \A c \in Held(g)' : c.msgid # net[g][1].msgid
                 ELSE \E c \in Held(g)' :
                        /\ c.msgid = net[g][1].msgid /\ c.size = net[g][1].size
                        /\ c.charcount = net[g][1].chunk * ChunkLen
                        /\ Prefix(c.text, net[g][1].rpt, net[g][1].chunk)
    <3>1. CASE net[g][1].chunk = 0
      <4>1. \A c \in Held(g) : c.msgid # net[g][1].msgid
        BY <1>1, <2>1, <3>1 DEF HostInv, Continued
      <4>. QED  BY <3>1, <4>1 DEF Settled
    <3>2. CASE net[g][1].chunk # 0
      <4>1. PICK c \in Held(g) :
              /\ c.msgid = net[g][1].msgid /\ c.size = net[g][1].size
              /\ c.charcount = net[g][1].chunk * ChunkLen
              /\ Prefix(c.text, net[g][1].rpt, net[g][1].chunk)
        BY <1>1, <2>1, <3>2 DEF HostInv, Continued
      <4>2. net[g][1].chunk \in Nat /\ net[g][1].rpt # 0
        <5>1. net[g] \in Seq(Packet)
          BY DEF Typed, TypeOK
        <5>2. net[g][1] \in Packet
          BY <2>1, <5>1
        <5>3. net[g][1].chunk \in Cells /\ net[g][1].rpt \in Reports
          BY <5>2 DEF Packet
        <5>4. net[g][1].rpt # 0
          BY <5>3 DEF Reports
        <5>. QED  BY <5>3, <5>4, CellsFacts
      <4>3. 0 \in Cells /\ c.text[0] = [rpt |-> net[g][1].rpt, len |-> ChunkLen]
        BY <3>2, <4>1, <4>2, CellsFacts DEF Prefix
      <4>4. c.text[0].rpt = net[g][1].rpt
        BY <4>3
      <4>5. c \in Held(g)'
        BY <2>1, <4>2, <4>3, <4>4 DEF Settled, Clean
      <4>. QED  BY <3>2, <4>1, <4>5
    <3>. QED  BY <3>1, <3>2
  <2>. QED  BY <2>1 DEF Continued
<1>5. OfOneReport(g)'
  <2>1. ASSUME NEW c \in Held(g)'
        PROVE  \E r \in 1 .. Len(sent[g]) :
                 /\ c.size = sent[g][r] /\ OnlyOf(c.text, r)
                 /\ ~Quiet' => r = c.msgid + 1
                 /\ r \in Clean(g)' => net[g] # <<>> /\ net[g][1].rpt = r /\ net[g][1].chunk > 0
    <3>1. c \in Held(g)
      BY <2>1 DEF Settled
    <3>2. PICK r \in 1 .. Len(sent[g]) :
                 /\ c.size = sent[g][r] /\ OnlyOf(c.text, r)
                 /\ ~Quiet => r = c.msgid + 1
                 /\ r \in Clean(g) => net[g] # <<>> /\ net[g][1].rpt = r /\ net[g][1].chunk > 0
      BY <3>1 DEF HostInv, OfOneReport
    <3>. QED  BY <1>1, <3>2
  <2>. QED  BY <2>1 DEF OfOneReport
<1>. QED  BY <1>2, <1>3, <1>4, <1>5 DEF HostInv
-----------------------------------------------------------------------------
(* A turn of the listener and its own host. *)

\* A turn that finds the invariant true.
Sound(h, p, a, left) ==
  /\ Typed /\ HostInv(h) /\ (Numbered \/ Quiet)
  /\ Turn(h, p, a, left)

\* The packet is part of its report.
LEMMA PacketFacts ==
  ASSUME NEW h \in Hosts, NEW p, NEW a, NEW left, Sound(h, p, a, left)
  PROVE  /\ p \in Packet /\ a \in Buffer /\ sent[h] \in Seq(Sizes) /\ net[h] \in Seq(Packet)
         /\ p = net[h][1] /\ 1 \in 1 .. Len(net[h])
         /\ p.rpt \in 1 .. Len(sent[h]) /\ p.size = sent[h][p.rpt] /\ p.size \in Sizes
         /\ p.size \in Nat \ {0} /\ p.chunk \in 0 .. NChunks(p.size) - 1
         /\ NChunks(p.size) \in Nat \ {0}
         /\ p.len = TextLen(p.size, p.chunk)
<1>1. /\ p \in Packet /\ a \in Buffer /\ sent[h] \in Seq(Sizes) /\ net[h] \in Seq(Packet)
      /\ p = net[h][1] /\ net[h] # <<>>
  BY DEF Sound, Turn, Typed, TypeOK
<1>2. 1 \in 1 .. Len(net[h])
  BY <1>1
<1>3. /\ p.rpt \in 1 .. Len(sent[h]) /\ p.size = sent[h][p.rpt]
      /\ p.chunk \in 0 .. NChunks(p.size) - 1
      /\ p.len = TextLen(p.size, p.chunk)
  BY <1>1, <1>2 DEF Sound, HostInv, Genuine
<1>4. p.size \in Sizes
  BY <1>1 DEF Packet
<1>. QED  BY <1>1, <1>2, <1>3, <1>4, CellsFacts

\* The buffer it goes to holds text of the same report, and if that is clean, all of it
\* that comes before the packet.
LEMMA BufferFacts ==
  ASSUME NEW h \in Hosts, NEW p, NEW a, NEW left, Sound(h, p, a, left)
  PROVE  /\ a.host = h /\ a.msgid = p.msgid /\ a.size = p.size /\ a.charcount \in Nat
         /\ a.text \in [Cells -> Cell]
         /\ OnlyOf(a.text, p.rpt) /\ (~Quiet => p.rpt = a.msgid + 1)
         /\ p.rpt \in Clean(h) => /\ a.charcount = p.chunk * ChunkLen
                                  /\ Prefix(a.text, p.rpt, p.chunk)
<1>1. /\ p \in Packet /\ a \in Buffer /\ sent[h] \in Seq(Sizes) /\ net[h] \in Seq(Packet)
      /\ p = net[h][1] /\ 1 \in 1 .. Len(net[h])
      /\ p.rpt \in 1 .. Len(sent[h]) /\ p.size = sent[h][p.rpt] /\ p.chunk \in Nat
  <2>1. p.chunk \in 0 .. NChunks(p.size) - 1
    BY PacketFacts
  <2>. QED  BY <2>1, PacketFacts
<1>2. a.host = h /\ Typed /\ HostInv(h) /\ net[h] # <<>>
  BY DEF Sound, Turn, Opened
<1>3. ~Quiet => p.msgid = p.rpt - 1
  BY <1>1 DEF Sound, Numbered
<1>4. p.rpt \in Clean(h) =>
        IF p.chunk = 0
          THEN \A c \in Held(h) : c.msgid # p.msgid
          ELSE \E c \in Held(h) :
                 /\ c.msgid = p.msgid /\ c.size = p.size
                 /\ c.charcount = p.chunk * ChunkLen
                 /\ Prefix(c.text, p.rpt, p.chunk)
  BY <1>1, <1>2 DEF HostInv, Continued
<1>5. a.charcount \in Nat /\ a.text \in [Cells -> Cell]
  BY <1>1 DEF Buffer
<1>6. ASSUME a = NewBuf(h, p), \A x \in Elems(bufs) : x.host = h => x.msgid # p.msgid
      PROVE  /\ a.msgid = p.msgid /\ a.size = p.size
             /\ OnlyOf(a.text, p.rpt) /\ (~Quiet => p.rpt = a.msgid + 1)
             /\ p.rpt \in Clean(h) => /\ a.charcount = p.chunk * ChunkLen
                                      /\ Prefix(a.text, p.rpt, p.chunk)
  <2>1. /\ a.msgid = p.msgid /\ a.size = p.size /\ a.charcount = 0
        /\ a.text = [c \in Cells |-> Hole]
    BY <1>6 DEF NewBuf
  <2>2. OnlyOf(a.text, p.rpt)
    BY <2>1 DEF OnlyOf
  <2>3. ~Quiet => p.rpt = a.msgid + 1
    BY <1>1, <1>3, <2>1
  <2>4. ASSUME p.rpt \in Clean(h)
        PROVE  a.charcount = p.chunk * ChunkLen /\ Prefix(a.text, p.rpt, p.chunk)
    <3>1. \A c \in Held(h) : c.msgid # p.msgid
      BY <1>6 DEF Held, HeldIn, Content
    <3>2. p.chunk = 0
      BY <1>4, <2>4, <3>1
    <3>3. ChunkLen \in Nat /\ 0 * ChunkLen = 0
      BY AssemblyAssumption
    <3>4. Prefix(a.text, p.rpt, p.chunk)
      <4>1. \A c \in Cells : c \in Nat
        BY CellsFacts
      <4>2. \A c \in Cells : ~(c < p.chunk) /\ a.text[c] = Hole
        BY <2>1, <3>2, <4>1
      <4>. QED  BY <4>2 DEF Prefix
    <3>. QED  BY <2>1, <3>2, <3>3, <3>4
  <2>. QED  BY <2>1, <2>2, <2>3, <2>4
<1>7. ASSUME a \in Elems(bufs), a.msgid = p.msgid
      PROVE  /\ a.msgid = p.msgid /\ a.size = p.size
             /\ OnlyOf(a.text, p.rpt) /\ (~Quiet => p.rpt = a.msgid + 1)
             /\ p.rpt \in Clean(h) => /\ a.charcount = p.chunk * ChunkLen
                                      /\ Prefix(a.text, p.rpt, p.chunk)
  <2>1. PICK c : c = Content(a) /\ c \in Held(h) /\ \A d \in Held(h) : d = c
    BY <1>2, <1>7, HeldFacts
  <2>2. c.msgid = a.msgid /\ c.size = a.size /\ c.charcount = a.charcount /\ c.text = a.text
    BY <2>1 DEF Content
  <2>3. PICK r \in 1 .. Len(sent[h]) :
               /\ c.size = sent[h][r] /\ OnlyOf(c.text, r)
               /\ ~Quiet => r = c.msgid + 1
               /\ r \in Clean(h) => net[h] # <<>> /\ net[h][1].rpt = r /\ net[h][1].chunk > 0
    BY <1>2, <2>1 DEF HostInv, OfOneReport
  <2>4. Quiet => r \in Clean(h)
    BY <2>3 DEF Quiet, Clean, Straight
  <2>5. r = p.rpt
    BY <1>1, <1>3, <1>7, <2>2, <2>3, <2>4
  <2>6. a.size = p.size /\ OnlyOf(a.text, p.rpt) /\ (~Quiet => p.rpt = a.msgid + 1)
    BY <1>1, <2>2, <2>3, <2>5
  <2>7. ASSUME p.rpt \in Clean(h)
        PROVE  a.charcount = p.chunk * ChunkLen /\ Prefix(a.text, p.rpt, p.chunk)
    <3>1. p.chunk # 0
      BY <1>4, <1>7, <2>1, <2>2, <2>7
    <3>2. PICK d \in Held(h) :
            d.charcount = p.chunk * ChunkLen /\ Prefix(d.text, p.rpt, p.chunk)
      BY <1>4, <2>7, <3>1
    <3>3. d = c
      BY <2>1, <3>2
    <3>. QED  BY <2>2, <3>2, <3>3
  <2>. QED  BY <1>7, <2>6, <2>7
<1>8. \/ a \in Elems(bufs) /\ a.msgid = p.msgid
      \/ a = NewBuf(h, p) /\ \A x \in Elems(bufs) : x.host = h => x.msgid # p.msgid
  BY DEF Sound, Turn, Opened
<1>. QED  BY <1>2, <1>5, <1>6, <1>7, <1>8

\* The packet does not overrun it, and completes it when it is the last of a clean report.
LEMMA AssembledFacts ==
  ASSUME NEW h \in Hosts, NEW p, NEW a, NEW left, Sound(h, p, a, left),
         NEW b, b = PktAssembly(a, p)
  PROVE  /\ ~Overrun(b, p)
         /\ b.msgid = p.msgid /\ b.size = p.size
         /\ OnlyOf(b.text, p.rpt) /\ (~Quiet => p.rpt = b.msgid + 1)
         /\ p.rpt \in Clean(h) /\ LastChunk(p) =>
              b.charcount = p.size /\ Whole(b.text, p.rpt, p.size)
         /\ p.rpt \in Clean(h) /\ ~LastChunk(p) =>
              /\ b.charcount # p.size /\ b.charcount = (p.chunk + 1) * ChunkLen
              /\ Prefix(b.text, p.rpt, p.chunk + 1)
<1>1. /\ p \in Packet /\ a \in Buffer
      /\ p.size \in Nat \ {0} /\ p.chunk \in 0 .. NChunks(p.size) - 1
      /\ NChunks(p.size) \in Nat \ {0}
      /\ p.len = TextLen(p.size, p.chunk)
  BY PacketFacts
<1>2. /\ a.msgid = p.msgid /\ a.size = p.size /\ a.charcount \in Nat
      /\ a.text \in [Cells -> Cell]
      /\ OnlyOf(a.text, p.rpt) /\ (~Quiet => p.rpt = a.msgid + 1)
      /\ p.rpt \in Clean(h) => /\ a.charcount = p.chunk * ChunkLen
                               /\ Prefix(a.text, p.rpt, p.chunk)
  BY BufferFacts
<1>3. /\ b.msgid = p.msgid /\ b.size = p.size /\ b.text = Strcpy(a.text, p)
      /\ b.charcount = a.charcount + p.len
  BY <1>1, <1>2 DEF PktAssembly, Buffer
<1>4. PICK C \in Nat, k \in Nat, x \in Nat : C = ChunkLen /\ k = p.chunk /\ x = k * C /\ (k + 1) * C = x + C
  <2>1. ChunkLen \in Nat /\ p.chunk \in Nat
    BY <1>1, AssemblyAssumption
  <2>. QED  BY <2>1, Multiples
<1>5. /\ p.len \in Nat /\ x + p.len <= p.size
      /\ ~LastChunk(p) => p.len = C /\ x + p.len < p.size
      /\ LastChunk(p) => x + p.len = p.size
  <2>1. /\ TextLen(p.size, p.chunk) \in 1 .. ChunkLen
        /\ p.chunk # NChunks(p.size) - 1 =>
             /\ TextLen(p.size, p.chunk) = ChunkLen
             /\ (p.chunk * ChunkLen) + TextLen(p.size, p.chunk) < p.size
        /\ p.chunk = NChunks(p.size) - 1 => (p.chunk * ChunkLen) + TextLen(p.size, p.chunk) = p.size
        /\ (p.chunk * ChunkLen) + TextLen(p.size, p.chunk) <= p.size
    BY <1>1, TextLenFacts
  <2>2. p.len \in Nat
    BY <1>1, <2>1, <1>4
  <2>. QED  BY <1>1, <1>4, <2>1, <2>2 DEF LastChunk
<1>6. ~Overrun(b, p)
  <2>1. ~(x + p.len > p.size)
    BY <1>1, <1>5
  <2>. QED  BY <1>3, <1>4, <2>1 DEF Overrun
<1>7. /\ OnlyOf(a.text, p.rpt) => OnlyOf(b.text, p.rpt)
      /\ Prefix(a.text, p.rpt, p.chunk) /\ ~LastChunk(p) => Prefix(b.text, p.rpt, p.chunk + 1)
      /\ Prefix(a.text, p.rpt, p.chunk) /\ LastChunk(p) => Whole(b.text, p.rpt, p.size)
  BY <1>1, <1>2, <1>3, StrcpyFacts
<1>8. p.rpt \in Clean(h) => a.charcount = x
  BY <1>2, <1>4
<1>9. p.rpt \in Clean(h) /\ LastChunk(p) => b.charcount = p.size
  BY <1>3, <1>5, <1>8
<1>10. p.rpt \in Clean(h) /\ ~LastChunk(p) =>
         b.charcount # p.size /\ b.charcount = (p.chunk + 1) * ChunkLen
  BY <1>1, <1>3, <1>4, <1>5, <1>8
<1>. QED  BY <1>2, <1>3, <1>6, <1>7, <1>9, <1>10

\* What the turn applies is the packet's report, and that when the last packet of a clean
\* one came.
LEMMA AppliedFacts ==
  ASSUME NEW h \in Hosts, NEW p, NEW a, NEW left, Sound(h, p, a, left)
  PROVE  /\ Mixed \notin ToSet(applied'[h])
         /\ \A r : IsApplied(h, r) => r \in ToSet(applied'[h])
         /\ h # NullUuid /\ p.rpt \in Clean(h) /\ LastChunk(p) => p.rpt \in ToSet(applied'[h])
         /\ \A g \in Hosts \ {h} : applied'[g] = applied[g]
<1>1. PICK b : b = PktAssembly(a, p)
  OBVIOUS
<1>2. /\ ~Overrun(b, p) /\ OnlyOf(b.text, p.rpt)
      /\ p.rpt \in Clean(h) /\ LastChunk(p) => b.charcount = p.size /\ Whole(b.text, p.rpt, p.size)
  BY <1>1, AssembledFacts
<1>3. /\ p.rpt \in 1 .. Len(sent[h]) /\ p.size = sent[h][p.rpt]
      /\ sent[h] \in Seq(Sizes) /\ DOMAIN sent[h] = 1 .. Len(sent[h]) /\ Len(sent[h]) \in Nat
  <2>1. sent[h] \in Seq(Sizes) /\ p.rpt \in 1 .. Len(sent[h]) /\ p.size = sent[h][p.rpt]
    BY PacketFacts
  <2>. QED  BY <2>1
<1>4. /\ applied \in [Hosts -> Seq(Reports \cup {Mixed})]
      /\ Mixed \notin ToSet(applied[h])
  BY DEF Sound, Typed, TypeOK, HostInv
<1>5. PICK S : S = Reports \cup {Mixed}
  OBVIOUS
<1>6. applied[h] \in Seq(S) /\ <<>> \in Seq(S) /\ \A x \in S : <<x>> \in Seq(S)
  BY <1>4, <1>5
<1>7. ~IsMixture(h, b.text)
  BY <1>2, NoMixture
<1>8. CASE UNCHANGED applied
  <2>1. ~(h # NullUuid /\ p.rpt \in Clean(h) /\ LastChunk(p))
    <3>. SUFFICES ASSUME h # NullUuid, p.rpt \in Clean(h), LastChunk(p) PROVE FALSE
      OBVIOUS
    <3>1. IsReport(h, b.text, p.rpt)
      BY <1>2, <1>3, WholeIsReport
    <3>2. <<p.rpt>> \in Outcomes(h, b.text)
      BY <1>3, <3>1 DEF Outcomes
    <3>3. Apply(h, b.text)
      BY <1>1, <1>2 DEF Sound, Turn
    <3>4. PICK o \in Outcomes(h, b.text) : applied' = [applied EXCEPT ![h] = @ \o o]
      BY <3>2, <3>3 DEF Apply
    <3>5. \E r \in 1 .. Len(sent[h]) : o = <<r>>
      BY <1>3, <1>7, OutcomesType DEF Outcomes
    <3>6. applied'[h] = applied[h] \o o
      BY <1>4, <3>4
    <3>7. Len(applied[h] \o o) = Len(applied[h]) + 1 /\ Len(applied[h]) \in Nat
      BY <1>6, <3>5
    <3>. QED  BY <1>8, <3>6, <3>7
  <2>. QED  BY <1>4, <1>8, <2>1 DEF IsApplied
<1>9. ASSUME NEW o \in Outcomes(h, b.text), applied' = [applied EXCEPT ![h] = @ \o o]
      PROVE  /\ Mixed \notin ToSet(applied'[h])
             /\ \A r : IsApplied(h, r) => r \in ToSet(applied'[h])
             /\ h # NullUuid /\ p.rpt \in Clean(h) /\ LastChunk(p) => p.rpt \in ToSet(applied'[h])
             /\ \A g \in Hosts \ {h} : applied'[g] = applied[g]
  <2>1. applied'[h] = applied[h] \o o /\ \A g \in Hosts \ {h} : applied'[g] = applied[g]
    BY <1>4, <1>9
  <2>2. CASE h = NullUuid
    <3>1. o = <<>>
      BY <1>9, <2>2 DEF Outcomes
    <3>2. applied'[h] = applied[h]
      BY <1>6, <2>1, <3>1
    <3>. QED  BY <1>4, <2>1, <2>2, <3>2 DEF IsApplied
  <2>3. CASE h # NullUuid
    <3>1. PICK r \in 1 .. Len(sent[h]) : o = <<r>> /\ IsReport(h, b.text, r)
      BY <1>3, <1>7, <2>3 DEF Outcomes
    <3>2. p.rpt \in Clean(h) /\ LastChunk(p) => r = p.rpt
      BY <1>2, <1>3, <3>1, WholeIsReport
    <3>3. r # Mixed
      BY <1>3 DEF Mixed
    <3>4. ToSet(applied[h] \o <<r>>) = ToSet(applied[h]) \cup {r}
      <4>1. PICK s \in Seq(S) : s = applied[h]
        BY <1>6
      <4>2. r \in S
        <5>1. Len(sent[h]) <= MaxReports /\ MaxReports \in Nat
          BY AssemblyAssumption DEF Sound, Typed, Lengths
        <5>. QED  BY <1>3, <1>5, <5>1 DEF Reports
      <4>3. ToSet(Append(s, r)) = ToSet(s) \cup {r}
        <5>1. /\ Len(Append(s, r)) = Len(s) + 1 /\ Len(s) \in Nat
              /\ Append(s, r)[Len(s) + 1] = r
              /\ \A i \in 1 .. Len(s) : Append(s, r)[i] = s[i]
          BY <4>1, <4>2
        <5>2. /\ ToSet(s) = {s[i] : i \in 1 .. Len(s)}
              /\ ToSet(Append(s, r)) = {Append(s, r)[i] : i \in 1 .. Len(s) + 1}
          BY <4>1, <4>2, <5>1 DEF ToSet
        <5>3. \A i \in 1 .. Len(s) + 1 : i \in 1 .. Len(s) \/ i = Len(s) + 1
          BY <5>1
        <5>4. \A i \in 1 .. Len(s) : i \in 1 .. Len(s) + 1
          BY <5>1
        <5>5. Len(s) + 1 \in 1 .. Len(s) + 1
          BY <5>1
        <5>. QED  BY <5>1, <5>2, <5>3, <5>4, <5>5
      <4>4. s \o <<r>> = Append(s, r)
        BY <4>2
      <4>. QED  BY <4>1, <4>3, <4>4
    <3>. QED  BY <1>4, <2>1, <3>1, <3>2, <3>3, <3>4 DEF IsApplied
  <2>. QED  BY <2>2, <2>3
<1>10. UNCHANGED applied \/ Apply(h, b.text)
  BY <1>1, <1>2 DEF Sound, Turn
<1>. QED  BY <1>8, <1>9, <1>10 DEF Apply
\* The invariant of the host whose packet it was.
LEMMA OwnHost ==
  ASSUME NEW h \in Hosts, NEW p, NEW a, NEW left, Sound(h, p, a, left),
         Settled(HeldIn(left, h), h), Left(h, p, a, left), Quiet => Quiet'
  PROVE  HostInv(h)'
<1>1. PICK b : b = PktAssembly(a, p)
  OBVIOUS
<1>2. /\ b.msgid = p.msgid /\ b.size = p.size
      /\ OnlyOf(b.text, p.rpt) /\ (~Quiet => p.rpt = b.msgid + 1)
      /\ p.rpt \in Clean(h) /\ LastChunk(p) => b.charcount = p.size /\ Whole(b.text, p.rpt, p.size)
      /\ p.rpt \in Clean(h) /\ ~LastChunk(p) =>
           /\ b.charcount # p.size /\ b.charcount = (p.chunk + 1) * ChunkLen
           /\ Prefix(b.text, p.rpt, p.chunk + 1)
  BY <1>1, AssembledFacts
<1>3. /\ p \in Packet /\ a \in Buffer /\ sent[h] \in Seq(Sizes) /\ net[h] \in Seq(Packet)
      /\ p = net[h][1] /\ 1 \in 1 .. Len(net[h])
      /\ p.rpt \in 1 .. Len(sent[h]) /\ p.size = sent[h][p.rpt]
      /\ p.chunk \in Nat /\ NChunks(p.size) \in Nat \ {0}
  <2>1. p.chunk \in 0 .. NChunks(p.size) - 1
    BY PacketFacts
  <2>. QED  BY <2>1, PacketFacts
<1>4. /\ Typed /\ HostInv(h) /\ (Numbered \/ Quiet)
      /\ net' = [net EXCEPT ![h] = Tail(@)] /\ net[h] # <<>>
      /\ UNCHANGED <<msgid, sent, faults, hit, permuted>> /\ a.host = h
  BY DEF Sound, Turn, Opened
<1>5. PICK s \in Seq(Packet) : s = net[h]
  BY <1>3
<1>6. PICK q \in Seq(Packet) :
        q = net'[h] /\ Len(q) = Len(s) - 1 /\ \A i \in 1 .. Len(q) : q[i] = s[i + 1]
  <2>1. net'[h] = Tail(s)
    BY <1>4, <1>5 DEF Typed, TypeOK
  <2>2. Tail(s) \in Seq(Packet) /\ Len(Tail(s)) = Len(s) - 1 /\ \A i \in 1 .. Len(Tail(s)) : Tail(s)[i] = s[i + 1]
    BY <1>4, <1>5
  <2>. QED  BY <2>1, <2>2
<1>7. /\ Len(s) \in Nat \ {0} /\ Len(q) \in Nat
      /\ \A i \in 1 .. Len(q) : i \in 1 .. Len(s) /\ i + 1 \in 1 .. Len(s) /\ i + 1 > 1
  BY <1>3, <1>5, <1>6
<1>8. Straight(h)' = Straight(h) /\ Clean(h)' \subseteq Clean(h)
  BY <1>4 DEF Straight, Clean, Settled
<1>9. \A i \in 1 .. Len(s) : s[i].rpt \in Straight(h) =>
        /\ ~LastChunk(s[i]) => i < Len(s) /\ Follows(s[i + 1], s[i])
        /\ s[i].chunk > 0 /\ i > 1 => Follows(s[i], s[i - 1])
  BY <1>4, <1>5 DEF HostInv, InLine
<1>10. Genuine(h)'
  <2>1. ASSUME NEW i \in 1 .. Len(q)
        PROVE  /\ q[i].rpt \in 1 .. Len(sent[h])
               /\ q[i].size = sent[h][q[i].rpt]
               /\ q[i].chunk \in 0 .. NChunks(q[i].size) - 1
               /\ q[i].len = TextLen(q[i].size, q[i].chunk)
    <3>1. i + 1 \in 1 .. Len(net[h]) /\ q[i] = net[h][i + 1]
      BY <1>5, <1>6, <1>7
    <3>. QED  BY <1>4, <3>1 DEF HostInv, Genuine
  <2>. QED  BY <1>4, <1>6, <2>1, ZenonT(30) DEF Genuine
<1>11. InLine(h)'
  <2>1. ASSUME NEW i \in 1 .. Len(q), q[i].rpt \in Straight(h)
        PROVE  /\ ~LastChunk(q[i]) => i < Len(q) /\ Follows(q[i + 1], q[i])
               /\ q[i].chunk > 0 /\ i > 1 => Follows(q[i], q[i - 1])
    <3>1. q[i] = s[i + 1] /\ i + 1 \in 1 .. Len(s)
      BY <1>6, <1>7
    <3>2. /\ ~LastChunk(s[i + 1]) => i + 1 < Len(s) /\ Follows(s[i + 1 + 1], s[i + 1])
          /\ s[i + 1].chunk > 0 => Follows(s[i + 1], s[(i + 1) - 1])
      BY <1>7, <1>9, <2>1, <3>1
    <3>3. i + 1 < Len(s) => i + 1 \in 1 .. Len(q)
      BY <1>6, <1>7
    <3>4. i > 1 => i - 1 \in 1 .. Len(q) /\ (i - 1) + 1 = i
      BY <1>7
    <3>5. i + 1 < Len(s) => i < Len(q) /\ q[i + 1] = s[i + 1 + 1]
      BY <1>6, <1>7, <3>3
    <3>6. i > 1 => q[i - 1] = s[(i + 1) - 1]
      BY <1>6, <3>4
    <3>. QED  BY <3>1, <3>2, <3>5, <3>6
  <2>. QED  BY <1>6, <1>8, <2>1 DEF InLine
<1>12. Mixed \notin ToSet(applied'[h])
  BY AppliedFacts
<1>13. Pending(h)'
  <2>1. ASSUME h # NullUuid, NEW r \in Clean(h)'
        PROVE  r \in ToSet(applied'[h]) \/ \E i \in 1 .. Len(q) : q[i].rpt = r /\ LastChunk(q[i])
    <3>1. r \in Clean(h)
      BY <1>8
    <3>2. IsApplied(h, r) \/ \E i \in 1 .. Len(s) : s[i].rpt = r /\ LastChunk(s[i])
      BY <1>4, <1>5, <2>1, <3>1 DEF HostInv, Pending
    <3>3. CASE IsApplied(h, r)
      BY <3>3, AppliedFacts
    <3>4. ASSUME NEW i \in 1 .. Len(s), s[i].rpt = r, LastChunk(s[i])
          PROVE  r \in ToSet(applied'[h]) \/ \E j \in 1 .. Len(q) : q[j].rpt = r /\ LastChunk(q[j])
      <4>1. CASE i = 1
        <5>1. p.rpt = r /\ LastChunk(p)
          BY <1>3, <1>5, <3>4, <4>1
        <5>. QED  BY <2>1, <3>1, <5>1, AppliedFacts
      <4>2. CASE i # 1
        <5>1. i - 1 \in 1 .. Len(q) /\ (i - 1) + 1 = i
          BY <1>6, <1>7, <4>2
        <5>2. q[i - 1] = s[i]
          BY <1>6, <5>1
        <5>. QED  BY <3>4, <5>1, <5>2
      <4>. QED  BY <4>1, <4>2
    <3>. QED  BY <3>2, <3>3, <3>4
  <2>. QED  BY <1>6, <2>1 DEF Pending, IsApplied
<1>14. HeldIn(left, h) = IF b.charcount = p.size THEN {} ELSE {Content(b)}
  BY <1>1, <1>3, <1>4, HeldInLeft, SMTT(30)
<1>15. p = s[1] /\ 1 \in 1 .. Len(s)
  BY <1>3, <1>5
<1>16. p.rpt \in Clean(h) /\ ~LastChunk(p) => 1 < Len(s) /\ Follows(s[2], p)
  <2>1. p.rpt \in Clean(h) => s[1].rpt \in Straight(h)
    BY <1>15 DEF Clean
  <2>. QED  BY <1>9, <1>15, <2>1
<1>17. Len(q) > 0 => 1 \in 1 .. Len(q) /\ q[1] = s[2] /\ 1 < Len(s)
  BY <1>6, <1>7
<1>18. q # <<>> => Len(q) > 0
  BY <1>7
<1>19. Content(b).msgid = b.msgid /\ Content(b).size = b.size /\ Content(b).text = b.text /\ Content(b).charcount = b.charcount
  BY DEF Content
<1>20. Continued(h)'
  <2>. SUFFICES ASSUME q # <<>>, q[1].rpt \in Clean(h)'
                PROVE  IF q[1].chunk = 0
                         THEN \A c \in Held(h)' : c.msgid # q[1].msgid
                         ELSE \E c \in Held(h)' :
                                /\ c.msgid = q[1].msgid /\ c.size = q[1].size
                                /\ c.charcount = q[1].chunk * ChunkLen
                                /\ Prefix(c.text, q[1].rpt, q[1].chunk)
    BY <1>6 DEF Continued
  <2>1. q[1] = s[2] /\ 2 \in 1 .. Len(s) /\ q[1].rpt \in Clean(h) /\ q[1].rpt \notin pruned'[h]
    BY <1>7, <1>8, <1>17, <1>18 DEF Clean
  <2>2. CASE q[1].chunk = 0
    <3>. SUFFICES ASSUME NEW c \in Held(h)', c.msgid = q[1].msgid PROVE FALSE
      BY <2>2
    <3>1. b.charcount # p.size /\ c = Content(b)
      BY <1>14 DEF Settled
    <3>2. p.rpt \in Clean(h)
      <4>1. CASE Quiet
        BY <1>3, <4>1 DEF Quiet, Clean, Straight
      <4>2. CASE ~Quiet
        <5>1. q[1].msgid = q[1].rpt - 1
          BY <1>4, <1>5, <2>1, <4>2 DEF Numbered
        <5>2. p.rpt = q[1].msgid + 1
          BY <1>2, <1>19, <3>1, <4>2
        <5>3. q[1].rpt \in Nat
          BY <2>1 DEF Clean, Straight
        <5>. QED  BY <2>1, <5>1, <5>2, <5>3
      <4>. QED  BY <4>1, <4>2
    <3>3. ~LastChunk(p)
      BY <1>2, <3>1, <3>2
    <3>4. q[1].chunk = p.chunk + 1
      BY <1>16, <2>1, <3>2, <3>3 DEF Follows
    <3>. QED  BY <1>3, <2>2, <3>4
  <2>3. CASE q[1].chunk # 0
    <3>1. q[1] \in Packet /\ q[1].chunk \in Nat /\ q[1].chunk \in 0 .. NChunks(q[1].size) - 1 /\ q[1].size = sent[h][q[1].rpt]
      <4>1. q[1] \in Packet
        BY <1>17, <1>18
      <4>2. q[1].chunk \in 0 .. NChunks(q[1].size) - 1 /\ q[1].size = sent[h][q[1].rpt]
        BY <1>4, <1>5, <2>1 DEF HostInv, Genuine
      <4>. QED  BY <4>1, <4>2
    <3>2. Follows(q[1], p)
      <4>1. q[1].chunk > 0 /\ q[1].rpt \in Straight(h)
        BY <2>1, <2>3, <3>1 DEF Clean
      <4>. QED  BY <1>9, <1>15, <2>1, <4>1
    <3>3. q[1].rpt = p.rpt /\ q[1].msgid = p.msgid /\ q[1].chunk = p.chunk + 1 /\ q[1].size = p.size
      BY <1>3, <3>1, <3>2 DEF Follows
    <3>4. ~LastChunk(p)
      BY <1>3, <3>1, <3>3 DEF LastChunk
    <3>5. /\ b.charcount # p.size /\ b.charcount = q[1].chunk * ChunkLen
          /\ Prefix(b.text, q[1].rpt, q[1].chunk)
      BY <1>2, <2>1, <3>3, <3>4
    <3>6. b.text[0].rpt = q[1].rpt /\ q[1].rpt # 0 /\ 0 \in Cells
      <4>1. 0 \in Cells /\ b.text[0] = [rpt |-> q[1].rpt, len |-> ChunkLen]
        BY <2>3, <3>1, <3>5, CellsFacts DEF Prefix
      <4>2. q[1].rpt # 0
        BY <2>1 DEF Clean, Straight
      <4>. QED  BY <4>1, <4>2
    <3>7. Content(b) \in HeldIn(left, h)
      BY <1>14, <3>5
    <3>8. Content(b) \in Held(h)'
      BY <1>19, <2>1, <3>6, <3>7 DEF Settled
    <3>. QED  BY <1>2, <1>19, <2>3, <3>3, <3>5, <3>8
  <2>. QED  BY <2>2, <2>3
<1>21. OfOneReport(h)'
  <2>1. ASSUME NEW c \in Held(h)'
        PROVE  \E r \in 1 .. Len(sent[h]) :
                 /\ c.size = sent[h][r] /\ OnlyOf(c.text, r)
                 /\ ~Quiet' => r = c.msgid + 1
                 /\ r \in Clean(h)' => q # <<>> /\ q[1].rpt = r /\ q[1].chunk > 0
    <3>1. b.charcount # p.size /\ c = Content(b)
      BY <1>14 DEF Settled
    <3>2. c.size = sent[h][p.rpt] /\ OnlyOf(c.text, p.rpt) /\ (~Quiet' => p.rpt = c.msgid + 1)
      BY <1>2, <1>3, <1>19, <3>1
    <3>3. ASSUME p.rpt \in Clean(h)' PROVE q # <<>> /\ q[1].rpt = p.rpt /\ q[1].chunk > 0
      <4>1. p.rpt \in Clean(h) /\ ~LastChunk(p)
        BY <1>2, <1>8, <3>1, <3>3
      <4>2. 1 < Len(s) /\ Follows(s[2], p)
        BY <1>16, <4>1
      <4>3. Len(q) > 0 /\ q[1] = s[2]
        BY <1>6, <1>7, <1>17, <4>2
      <4>4. q # <<>>
        BY <4>3
      <4>. QED  BY <1>3, <4>2, <4>3, <4>4 DEF Follows
    <3>. QED  BY <1>3, <3>2, <3>3
  <2>. QED  BY <1>4, <1>6, <2>1 DEF OfOneReport
<1>. QED  BY <1>10, <1>11, <1>12, <1>13, <1>20, <1>21 DEF HostInv
\* After a turn the message ids still tell the reports apart, or it is as quiet as before.
LEMMA ModeAfterTurn ==
  ASSUME NEW h \in Hosts, NEW p, NEW a, NEW left, Sound(h, p, a, left), Left(h, p, a, left),
         NEW V, Pruned(left, V)
  PROVE  (Numbered => Numbered') /\ (Quiet => Quiet')
<1>1. /\ p \in Packet /\ a \in Buffer /\ net[h] \in Seq(Packet) /\ bufs \in Seq(Buffer)
      /\ net \in [Hosts -> Seq(Packet)] /\ net[h] # <<>>
      /\ net' = [net EXCEPT ![h] = Tail(@)]
      /\ UNCHANGED <<msgid, sent, faults, hit, permuted>> /\ Opened(h, p, a)
  BY DEF Sound, Turn, Typed, TypeOK
<1>2. ASSUME Numbered PROVE Numbered'
  <2>1. ASSUME NEW g \in Hosts
        PROVE  \A i \in 1 .. Len(net'[g]) : net'[g][i].msgid = net'[g][i].rpt - 1
    <3>1. CASE g # h
      BY <1>1, <1>2, <3>1 DEF Numbered
    <3>2. CASE g = h
      <4>1. net'[h] = Tail(net[h]) /\ Len(Tail(net[h])) = Len(net[h]) - 1 /\ Len(net[h]) \in Nat
        BY <1>1
      <4>2. \A i \in 1 .. Len(net[h]) - 1 : Tail(net[h])[i] = net[h][i + 1] /\ i + 1 \in 1 .. Len(net[h])
        BY <1>1, <4>1
      <4>. QED  BY <1>2, <3>2, <4>1, <4>2 DEF Numbered
    <3>. QED  BY <3>1, <3>2
  <2>. QED  BY <1>1, <1>2, <2>1 DEF Numbered
<1>3. ASSUME Quiet PROVE Quiet'
  <2>1. a.age = 0
    <3>1. \A x \in Elems(bufs) : x.age = 0
      BY <1>3 DEF Quiet, Elems
    <3>. QED  BY <1>1, <3>1 DEF Opened, NewBuf
  <2>2. PktAssembly(a, p).age = 0
    BY <1>1, <2>1 DEF PktAssembly, Buffer
  <2>3. \A x \in Elems(left) : x.age = 0
    <3>1. \A x \in Elems(bufs) : x.age = 0
      BY <1>3 DEF Quiet, Elems
    <3>. QED  BY <2>2, <3>1 DEF Left
  <2>4. V = {} /\ Elems(bufs') \subseteq Elems(left)
    BY <2>3 DEF Pruned
  <2>5. \A i \in 1 .. Len(bufs') : bufs'[i].age = 0
    BY <2>3, <2>4 DEF Elems
  <2>6. \A g \in Hosts : pruned'[g] = pruned[g]
    BY <2>4 DEF Pruned
  <2>. QED  BY <1>1, <1>3, <2>5, <2>6 DEF Quiet
<1>. QED  BY <1>2, <1>3

\* The listener's turn keeps the invariant.
LEMMA InvRecv ==
  ASSUME AssemblyInv, NEW h \in Hosts, Recv(h)
  PROVE  AssemblyInv'
<1>1. Typed /\ Typed' /\ (Numbered \/ Quiet) /\ \A g \in Hosts : HostInv(g)
  BY TypedRecv DEF AssemblyInv
<1>2. PICK p, a, left : Turn(h, p, a, left)
  BY <1>1, RecvCases DEF Typed
<1>3. Sound(h, p, a, left)
  BY <1>1, <1>2 DEF Sound
<1>4. ~Overrun(PktAssembly(a, p), p)
  BY <1>3, AssembledFacts
<1>5. /\ Left(h, p, a, left)
      /\ Prune(left) \/ (bufs' = left /\ CountPacket /\ UNCHANGED <<pruned, listener>>)
  BY <1>2, <1>4 DEF Turn
<1>6. left \in Seq(Buffer) /\ SortedList(left) /\ listener = "up"
  BY <1>2, <1>5 DEF Left, Turn
<1>7. PICK V : Pruned(left, V)
  BY <1>1, <1>5, <1>6, PruneCases DEF Typed
<1>8. (Numbered => Numbered') /\ (Quiet => Quiet')
  BY <1>3, <1>5, <1>7, ModeAfterTurn
<1>9. ASSUME NEW g \in Hosts PROVE HostInv(g)'
  <2>1. Settled(HeldIn(left, g), g)
    BY <1>1, <1>6, <1>7, PrunedSettles
  <2>2. CASE g = h
    BY <1>3, <1>5, <1>8, <2>1, <2>2, OwnHost
  <2>3. CASE g # h
    <3>1. p \in Packet /\ a \in Buffer /\ a.host = h
      BY <1>2 DEF Turn, Opened
    <3>2. HeldIn(left, g) = Held(g)
      BY <1>1, <1>5, <2>3, <3>1, HeldInLeft
    <3>3. Settled(Held(g), g)
      BY <2>1, <3>2, Zenon
    <3>4. /\ net'[g] = net[g] /\ sent'[g] = sent[g] /\ hit'[g] = hit[g] /\ permuted'[g] = permuted[g]
          /\ applied'[g] = applied[g]
      <4>1. applied'[g] = applied[g]
        BY <1>3, <2>3, AppliedFacts
      <4>. QED  BY <1>1, <1>2, <2>3, <4>1 DEF Turn, Typed, TypeOK
    <3>. QED  BY <1>1, <1>8, <3>3, <3>4, OtherHost
  <2>. QED  BY <2>2, <2>3
<1>10. WritesInBounds'
  BY <1>7 DEF Pruned, WritesInBounds
<1>. QED  BY <1>1, <1>8, <1>9, <1>10 DEF AssemblyInv
-----------------------------------------------------------------------------
(* The other steps. *)

\* A host whose buffer is as it was.
LEMMA SettledSame ==
  ASSUME NEW g \in Hosts, Held(g)' = Held(g), pruned' = pruned
  PROVE  Settled(Held(g), g)
BY DEF Settled

\* A new report keeps the invariant: its packets come last, in order, under an id of its own.
LEMMA InvReport ==
  ASSUME AssemblyInv, NEW h \in Hosts, NEW size \in Sizes, Report(h, size)
  PROVE  AssemblyInv'
<1>1. Typed /\ Typed' /\ WritesInBounds /\ (Numbered \/ Quiet) /\ \A g \in Hosts : HostInv(g)
  BY TypedReport DEF AssemblyInv
<1>2. /\ UNCHANGED <<bufs, pktc, listener, applied, pruned, faults, hit, permuted>>
      /\ Len(sent[h]) < MaxReports /\ sent' = [sent EXCEPT ![h] = Append(@, size)]
      /\ net' = [net EXCEPT ![h] = @ \o Packets(Len(sent[h]) + 1, size, msgid[h])]
      /\ msgid' = [msgid EXCEPT ![h] = @ + 1]
  BY DEF Report, listenerVars
<1>3. /\ sent[h] \in Seq(Sizes) /\ msgid[h] \in Nat /\ net[h] \in Seq(Packet) /\ MaxReports \in Nat
      /\ sent \in [Hosts -> Seq(Sizes)] /\ net \in [Hosts -> Seq(Packet)] /\ msgid \in [Hosts -> Nat]
  BY <1>1, AssemblyAssumption DEF Typed, TypeOK
<1>4. PICK m \in Nat, R \in Reports : m = Len(sent[h]) /\ R = m + 1
  BY <1>2, <1>3 DEF Reports
<1>5. PICK s \in Seq(Packet), w \in Seq(Packet), n \in Nat \ {0}, N \in Nat :
        /\ s = net[h] /\ w = Packets(R, size, msgid[h]) /\ n = NChunks(size) /\ Len(w) = n /\ N = Len(s)
        /\ \A k \in 1 .. n : w[k] = [rpt |-> R, size |-> size, chunk |-> k - 1,
                                     len |-> TextLen(size, k - 1), msgid |-> msgid[h]]
  <2>1. NChunks(size) \in Nat \ {0}
    BY CellsFacts
  <2>2. Packets(R, size, msgid[h]) \in Seq(Packet)
    BY <1>3, PacketsType
  <2>3. Len(Packets(R, size, msgid[h])) = NChunks(size)
    BY <1>3, PacketsType
  <2>4. \A k \in 1 .. NChunks(size) : Packets(R, size, msgid[h])[k] =
                [rpt |-> R, size |-> size, chunk |-> k - 1, len |-> TextLen(size, k - 1), msgid |-> msgid[h]]
    BY <1>3, PacketsType
  <2>5. Len(net[h]) \in Nat
    BY <1>3
  <2>. QED  BY <1>3, <2>1, <2>2, <2>3, <2>4, <2>5
<1>6. PICK q \in Seq(Packet) :
        /\ q = net'[h] /\ Len(q) = N + n
        /\ \A i \in 1 .. N : q[i] = s[i]
        /\ \A k \in 1 .. n : q[N + k] = w[k]
  <2>1. net'[h] = s \o w
    BY <1>2, <1>3, <1>4, <1>5
  <2>2. s \o w \in Seq(Packet) /\ Len(s \o w) = Len(s) + Len(w)
    BY ConcatProperties
  <2>3. \A i \in 1 .. Len(s) + Len(w) : (s \o w)[i] = IF i <= Len(s) THEN s[i] ELSE w[i - Len(s)]
    BY ConcatProperties
  <2>4. \A i \in 1 .. N : i \in 1 .. N + n /\ i <= N
    BY <1>5
  <2>5. \A k \in 1 .. n : N + k \in 1 .. N + n /\ ~(N + k <= N) /\ (N + k) - N = k
    BY <1>5
  <2>6. Len(s) = N /\ Len(w) = n
    BY <1>5
  <2>7. \A i \in 1 .. N : (s \o w)[i] = s[i]
    BY <2>3, <2>4, <2>6
  <2>8. \A k \in 1 .. n : (s \o w)[N + k] = w[k]
    BY <2>3, <2>5, <2>6
  <2>9. Len(s \o w) = N + n
    BY <2>2, <2>6
  <2>. QED  BY <2>1, <2>2, <2>7, <2>8, <2>9, Zenon
<1>7. \A k \in 1 .. n : /\ q[N + k].rpt = R /\ q[N + k].size = size /\ q[N + k].chunk = k - 1
                        /\ q[N + k].len = TextLen(size, k - 1) /\ q[N + k].msgid = msgid[h]
  <2>. TAKE k \in 1 .. n
  <2>1. q[N + k] = w[k]
    BY <1>6
  <2>2. w[k] = [rpt |-> R, size |-> size, chunk |-> k - 1,
                len |-> TextLen(size, k - 1), msgid |-> msgid[h]]
    BY <1>5
  <2>. QED  BY <2>1, <2>2
<1>8. PICK t \in Seq(Sizes) :
        t = sent'[h] /\ Len(t) = m + 1 /\ t[R] = size /\ \A r \in 1 .. m : t[r] = sent[h][r]
  <2>1. sent'[h] = Append(sent[h], size)
    BY <1>2, <1>3
  <2>2. /\ Append(sent[h], size) \in Seq(Sizes) /\ Len(Append(sent[h], size)) = m + 1
        /\ Append(sent[h], size)[m + 1] = size
    BY <1>3, <1>4
  <2>3. \A r \in 1 .. m : Append(sent[h], size)[r] = sent[h][r]
    BY <1>3, <1>4
  <2>. QED  BY <1>4, <2>1, <2>2, <2>3
<1>9. \A r \in 1 .. m : r \in 1 .. m + 1 /\ r # R
  BY <1>4
<1>10. /\ \A r \in Straight(h)' : r \in Straight(h) \/ r = R
       /\ \A r \in Clean(h)' : r \in Clean(h) \/ r = R
  <2>1. \A r \in 1 .. m + 1 : r \in 1 .. m \/ r = R
    BY <1>4
  <2>. QED  BY <1>2, <1>4, <1>8, <2>1 DEF Straight, Clean
<1>11. \A i \in 1 .. N + n : i \in 1 .. N \/ \E k \in 1 .. n : i = N + k
  <2>1. ASSUME NEW i \in 1 .. N + n, i \notin 1 .. N PROVE i - N \in 1 .. n /\ i = N + (i - N)
    BY <1>5, <2>1
  <2>. QED  BY <2>1
<1>12. \A i \in 1 .. N : s[i].rpt \in 1 .. m
  BY <1>1, <1>4, <1>5 DEF HostInv, Genuine
<1>13. Genuine(h)'
  <2>1. ASSUME NEW i \in 1 .. N + n
        PROVE  /\ q[i].rpt \in 1 .. Len(t)
               /\ q[i].size = t[q[i].rpt]
               /\ q[i].chunk \in 0 .. NChunks(q[i].size) - 1
               /\ q[i].len = TextLen(q[i].size, q[i].chunk)
    <3>1. CASE i \in 1 .. N
      <4>1. /\ s[i].rpt \in 1 .. m /\ s[i].size = sent[h][s[i].rpt]
            /\ s[i].chunk \in 0 .. NChunks(s[i].size) - 1
            /\ s[i].len = TextLen(s[i].size, s[i].chunk)
        BY <1>1, <1>4, <1>5, <3>1 DEF HostInv, Genuine
      <4>. QED  BY <1>6, <1>8, <1>9, <3>1, <4>1
    <3>2. ASSUME NEW k \in 1 .. n, i = N + k
          PROVE  /\ q[i].rpt \in 1 .. Len(t)
                 /\ q[i].size = t[q[i].rpt]
                 /\ q[i].chunk \in 0 .. NChunks(q[i].size) - 1
                 /\ q[i].len = TextLen(q[i].size, q[i].chunk)
      <4>1. k - 1 \in 0 .. n - 1 /\ R \in 1 .. m + 1
        BY <1>4
      <4>. QED  BY <1>5, <1>7, <1>8, <3>2, <4>1
    <3>. QED  BY <1>11, <3>1, <3>2
  <2>. QED  BY <1>6, <1>8, <2>1 DEF Genuine
<1>14. InLine(h)'
  <2>1. ASSUME NEW i \in 1 .. N + n, q[i].rpt \in Straight(h)'
        PROVE  /\ ~LastChunk(q[i]) => i < N + n /\ Follows(q[i + 1], q[i])
               /\ q[i].chunk > 0 /\ i > 1 => Follows(q[i], q[i - 1])
    <3>1. CASE i \in 1 .. N
      <4>1. q[i] = s[i] /\ s[i].rpt \in Straight(h)
        BY <1>6, <1>9, <1>10, <1>12, <2>1, <3>1
      <4>2. /\ ~LastChunk(s[i]) => i < N /\ Follows(s[i + 1], s[i])
            /\ s[i].chunk > 0 /\ i > 1 => Follows(s[i], s[i - 1])
        BY <1>1, <1>5, <3>1, <4>1 DEF HostInv, InLine
      <4>3. (i < N => i + 1 \in 1 .. N /\ i < N + n) /\ (i > 1 => i - 1 \in 1 .. N)
        BY <1>5, <3>1
      <4>. QED  BY <1>6, <4>1, <4>2, <4>3
    <3>2. ASSUME NEW k \in 1 .. n, i = N + k
          PROVE  /\ ~LastChunk(q[i]) => i < N + n /\ Follows(q[i + 1], q[i])
                 /\ q[i].chunk > 0 /\ i > 1 => Follows(q[i], q[i - 1])
      <4>1. q[i].chunk = k - 1 /\ q[i].rpt = R /\ q[i].size = size /\ q[i].msgid = msgid[h]
        BY <1>7, <3>2
      <4>2. ASSUME ~LastChunk(q[i]) PROVE i < N + n /\ Follows(q[i + 1], q[i])
        <5>1. k # n
          BY <1>5, <4>1, <4>2 DEF LastChunk
        <5>4. k \in 1 .. n /\ n \in Nat /\ N \in Nat /\ i = N + k
          BY <3>2
        <5>2. PICK j \in 1 .. n : i + 1 = N + j /\ i < N + n /\ j - 1 = (k - 1) + 1
          BY <5>1, <5>4
        <5>3. q[N + j].chunk = j - 1 /\ q[N + j].rpt = R /\ q[N + j].msgid = msgid[h]
          BY <1>7
        <5>. QED  BY <4>1, <5>2, <5>3 DEF Follows
      <4>3. ASSUME q[i].chunk > 0 PROVE Follows(q[i], q[i - 1])
        <5>1. PICK j \in 1 .. n : i - 1 = N + j /\ k - 1 = (j - 1) + 1
          BY <1>5, <3>2, <4>1, <4>3
        <5>2. q[N + j].chunk = j - 1 /\ q[N + j].rpt = R /\ q[N + j].msgid = msgid[h]
          BY <1>7
        <5>. QED  BY <4>1, <5>1, <5>2 DEF Follows
      <4>. QED  BY <4>2, <4>3
    <3>. QED  BY <1>11, <3>1, <3>2
  <2>. QED  BY <1>6, <2>1 DEF InLine
<1>15. Pending(h)'
  <2>1. ASSUME h # NullUuid, NEW r \in Clean(h)'
        PROVE  r \in ToSet(applied[h]) \/ \E i \in 1 .. Len(q) : q[i].rpt = r /\ LastChunk(q[i])
    <3>1. CASE r = R
      <4>1. n \in 1 .. n /\ N + n \in 1 .. Len(q)
        BY <1>5, <1>6
      <4>2. q[N + n].rpt = R /\ LastChunk(q[N + n])
        BY <1>5, <1>7, <4>1 DEF LastChunk
      <4>. QED  BY <3>1, <4>1, <4>2
    <3>2. CASE r \in Clean(h)
      <4>1. IsApplied(h, r) \/ \E i \in 1 .. N : s[i].rpt = r /\ LastChunk(s[i])
        BY <1>1, <1>5, <2>1, <3>2 DEF HostInv, Pending
      <4>2. \A i \in 1 .. N : i \in 1 .. Len(q) /\ q[i] = s[i]
        BY <1>5, <1>6
      <4>. QED  BY <4>1, <4>2 DEF IsApplied
    <3>. QED  BY <1>10, <3>1, <3>2
  <2>2. applied' = applied /\ net'[h] = q
    BY <1>2, <1>6
  <2>. QED  BY <2>1, <2>2 DEF Pending, IsApplied
<1>16. Held(h)' = Held(h) /\ (Quiet => Quiet') /\ (Quiet' => Quiet)
  BY <1>2 DEF Held, Quiet
<1>17. ASSUME N = 0 PROVE Continued(h)' /\ OfOneReport(h)'
  <2>1. q[1] = q[N + 1] /\ 1 \in 1 .. n
    BY <1>5, <1>17
  <2>2. q[1].chunk = 0 /\ q[1].msgid = msgid[h]
    BY <1>7, <1>17, <2>1
  <2>3. ASSUME NEW c \in Held(h)
        PROVE  /\ c.msgid # msgid[h]
               /\ \E r \in 1 .. m : /\ c.size = sent[h][r] /\ OnlyOf(c.text, r)
                                    /\ ~Quiet => r = c.msgid + 1
                                    /\ r \notin Clean(h)
    <3>1. PICK r \in 1 .. m :
            /\ c.size = sent[h][r] /\ OnlyOf(c.text, r)
            /\ ~Quiet => r = c.msgid + 1
            /\ r \in Clean(h) => net[h] # <<>>
      BY <1>1, <1>4, <2>3 DEF HostInv, OfOneReport
    <3>2. r \notin Clean(h)
      <4>1. net[h] = <<>>
        <5>1. s \in Seq(Packet) /\ s = net[h] /\ Len(s) = 0
          BY <1>5, <1>17
        <5>. QED  BY <5>1
      <4>. QED  BY <3>1, <4>1
    <3>3. ~Quiet
      <4>1. Quiet => r \in Clean(h)
        BY <1>4, <3>1 DEF Quiet, Clean, Straight
      <4>. QED  BY <3>2, <4>1
    <3>4. msgid[h] = m /\ c.msgid \in Nat
      <4>1. c \in Contents
        BY <1>1, <2>3, HeldFacts
      <4>. QED  BY <1>1, <1>4, <3>3, <4>1 DEF Numbered, Contents
    <3>5. c.msgid # msgid[h]
      BY <3>1, <3>3, <3>4
    <3>. QED  BY <3>1, <3>2, <3>5
  <2>4. Continued(h)'
    BY <1>6, <1>16, <2>2, <2>3 DEF Continued
  <2>5. OfOneReport(h)'
    <3>1. ASSUME NEW c \in Held(h)'
          PROVE  \E r \in 1 .. m + 1 :
                   /\ c.size = t[r] /\ OnlyOf(c.text, r)
                   /\ ~Quiet' => r = c.msgid + 1
                   /\ r \notin Clean(h)'
      <4>1. PICK r \in 1 .. m : /\ c.size = sent[h][r] /\ OnlyOf(c.text, r)
                                /\ ~Quiet => r = c.msgid + 1
                                /\ r \notin Clean(h)
        BY <1>16, <2>3, <3>1
      <4>2. r \in 1 .. m + 1 /\ r # R /\ t[r] = sent[h][r]
        BY <1>8, <1>9
      <4>3. r \notin Clean(h)'
        BY <1>10, <4>1, <4>2
      <4>. QED  BY <1>16, <4>1, <4>2, <4>3
    <3>. QED  BY <1>8, <3>1 DEF OfOneReport
  <2>. QED  BY <2>4, <2>5
<1>18. ASSUME N # 0 PROVE Continued(h)' /\ OfOneReport(h)'
  <2>1. 1 \in 1 .. N /\ q[1] = s[1] /\ s # <<>> /\ q # <<>>
    <3>1. 1 \in 1 .. N /\ N + n # 0
      BY <1>18
    <3>2. q[1] = s[1] /\ Len(q) # 0 /\ Len(s) # 0
      BY <1>5, <1>6, <1>18, <3>1
    <3>3. s # <<>> /\ q # <<>>
      BY <3>2
    <3>. QED  BY <3>1, <3>2, <3>3
  <2>2. Continued(h)'
    <3>1. q[1].rpt \in Clean(h)' => s[1].rpt \in Clean(h)
      BY <1>9, <1>10, <1>12, <2>1
    <3>2. s[1].rpt \in Clean(h) =>
            IF s[1].chunk = 0
              THEN \A c \in Held(h) : c.msgid # s[1].msgid
              ELSE \E c \in Held(h) :
                     /\ c.msgid = s[1].msgid /\ c.size = s[1].size
                     /\ c.charcount = s[1].chunk * ChunkLen
                     /\ Prefix(c.text, s[1].rpt, s[1].chunk)
      BY <1>1, <1>5, <2>1 DEF HostInv, Continued
    <3>. QED  BY <1>6, <1>16, <2>1, <3>1, <3>2 DEF Continued
  <2>3. OfOneReport(h)'
    <3>1. ASSUME NEW c \in Held(h)'
          PROVE  \E r \in 1 .. m + 1 :
                   /\ c.size = t[r] /\ OnlyOf(c.text, r)
                   /\ ~Quiet' => r = c.msgid + 1
                   /\ r \in Clean(h)' => q # <<>> /\ q[1].rpt = r /\ q[1].chunk > 0
      <4>1. PICK r \in 1 .. m : /\ c.size = sent[h][r] /\ OnlyOf(c.text, r)
                                /\ ~Quiet => r = c.msgid + 1
                                /\ r \in Clean(h) => s # <<>> /\ s[1].rpt = r /\ s[1].chunk > 0
        BY <1>1, <1>4, <1>5, <1>16, <3>1 DEF HostInv, OfOneReport
      <4>2. r \in 1 .. m + 1 /\ r # R /\ t[r] = sent[h][r]
        BY <1>8, <1>9
      <4>3. r \in Clean(h)' => r \in Clean(h)
        BY <1>10, <4>2
      <4>. QED  BY <1>16, <2>1, <4>1, <4>2, <4>3
    <3>. QED  BY <1>6, <1>8, <3>1 DEF OfOneReport
  <2>. QED  BY <2>2, <2>3
<1>19. HostInv(h)'
  <2>1. Mixed \notin ToSet(applied'[h])
    BY <1>1, <1>2 DEF HostInv
  <2>. QED  BY <1>13, <1>14, <1>15, <1>17, <1>18, <2>1 DEF HostInv
<1>20. ASSUME NEW g \in Hosts, g # h PROVE HostInv(g)'
  <2>1. Held(g)' = Held(g)
    BY <1>2 DEF Held
  <2>2. Settled(Held(g), g)
    BY <1>2, <2>1, SettledSame
  <2>3. net'[g] = net[g] /\ sent'[g] = sent[g]
    BY <1>2, <1>3, <1>20
  <2>. QED  BY <1>1, <1>2, <1>16, <2>2, <2>3, OtherHost
<1>21. Numbered => Numbered'
  <2>. SUFFICES ASSUME Numbered PROVE Numbered'
    OBVIOUS
  <2>1. ASSUME NEW g \in Hosts
        PROVE  /\ msgid'[g] = Len(sent'[g])
               /\ \A i \in 1 .. Len(net'[g]) : net'[g][i].msgid = net'[g][i].rpt - 1
    <3>1. CASE g # h
      BY <1>2, <1>3, <3>1 DEF Numbered
    <3>2. CASE g = h
      <4>1. msgid[h] = m /\ msgid'[h] = m + 1
        BY <1>2, <1>3, <1>4 DEF Numbered
      <4>2. ASSUME NEW i \in 1 .. N + n PROVE q[i].msgid = q[i].rpt - 1
        <5>1. CASE i \in 1 .. N
          <6>1. q[i] = net[h][i] /\ i \in 1 .. Len(net[h])
            BY <1>5, <1>6, <5>1
          <6>. QED  BY <6>1 DEF Numbered
        <5>2. ASSUME NEW k \in 1 .. n, i = N + k PROVE q[i].msgid = q[i].rpt - 1
          <6>1. q[i].rpt = R /\ q[i].msgid = msgid[h]
            BY <1>7, <5>2
          <6>. QED  BY <1>4, <4>1, <6>1
        <5>. QED  BY <1>11, <5>1, <5>2
      <4>. QED  BY <1>6, <1>8, <3>2, <4>1, <4>2
    <3>. QED  BY <3>1, <3>2
  <2>. QED  BY <1>2, <2>1 DEF Numbered
<1>22. WritesInBounds'
  BY <1>1, <1>2 DEF WritesInBounds
<1>. QED  BY <1>1, <1>16, <1>19, <1>20, <1>21, <1>22 DEF AssemblyInv
-----------------------------------------------------------------------------
(* Faults of the network. *)

InLineIn(s, R) ==
  \A i \in 1 .. Len(s) : s[i].rpt \in R =>
    /\ ~LastChunk(s[i]) => i < Len(s) /\ Follows(s[i + 1], s[i])
    /\ s[i].chunk > 0 /\ i > 1 => Follows(s[i], s[i - 1])

\* A fault makes q of the packets s, and leaves those of the reports R alone.
Disturbed(s, q, R) ==
  /\ InLineIn(q, R)
  /\ \A k \in 1 .. Len(q) : \E j \in 1 .. Len(s) : q[k] = s[j]
  /\ \A j \in 1 .. Len(s) : s[j].rpt \in R => \E k \in 1 .. Len(q) : q[k] = s[j]
  /\ Len(s) > 0 /\ s[1].rpt \in R => Len(q) > 0 /\ q[1] = s[1]
  /\ Len(q) > 0 /\ q[1].rpt \in R => q[1] = s[1] \/ (q[1].chunk = 0 /\ s[1].rpt \notin R)

\* A lost packet.
LEMMA LoseDisturbs ==
  ASSUME NEW s \in Seq(Packet), NEW R0, NEW R \in SUBSET R0, InLineIn(s, R0),
         NEW i \in 1 .. Len(s), s[i].rpt \notin R
  PROVE  Disturbed(s, RemoveAt(s, i), R)
<1>1. PICK n \in Nat, q \in Seq(Packet) :
        /\ n = Len(s) /\ q = RemoveAt(s, i) /\ Len(q) = n - 1 /\ i \in 1 .. n
        /\ \A j \in 1 .. n - 1 : q[j] = IF j < i THEN s[j] ELSE s[j + 1]
  <2>1. /\ RemoveAt(s, i) \in Seq(Packet) /\ Len(RemoveAt(s, i)) = Len(s) - 1
        /\ \A j \in 1 .. Len(s) - 1 : RemoveAt(s, i)[j] = IF j < i THEN s[j] ELSE s[j + 1]
    BY RemoveAtFacts
  <2>2. Len(s) \in Nat
    OBVIOUS
  <2>. QED  BY <2>1, <2>2
<1>2. \A k \in 1 .. n - 1 : (k < i => q[k] = s[k] /\ k \in 1 .. n) /\ (~(k < i) => q[k] = s[k + 1] /\ k + 1 \in 1 .. n)
  BY <1>1
<1>3. \A k \in 1 .. n : s[k].rpt \in R =>
        /\ ~LastChunk(s[k]) => k < n /\ Follows(s[k + 1], s[k])
        /\ s[k].chunk > 0 /\ k > 1 => Follows(s[k], s[k - 1])
  BY <1>1 DEF InLineIn
<1>4. \A k \in 1 .. n : s[k].rpt \in R =>
        /\ ~LastChunk(s[k]) => k + 1 # i
        /\ s[k].chunk > 0 /\ k > 1 => k - 1 # i
  BY <1>3 DEF Follows
<1>5. InLineIn(q, R)
  <2>1. ASSUME NEW k \in 1 .. n - 1, q[k].rpt \in R
        PROVE  /\ ~LastChunk(q[k]) => k < n - 1 /\ Follows(q[k + 1], q[k])
               /\ q[k].chunk > 0 /\ k > 1 => Follows(q[k], q[k - 1])
    <3>1. CASE k < i
      <4>1. q[k] = s[k] /\ k \in 1 .. n
        BY <1>2, <3>1
      <4>2. /\ ~LastChunk(s[k]) => k < n /\ Follows(s[k + 1], s[k]) /\ k + 1 # i
            /\ s[k].chunk > 0 /\ k > 1 => Follows(s[k], s[k - 1])
        BY <1>3, <1>4, <2>1, <4>1
      <4>3. k + 1 # i => k + 1 < i /\ k + 1 \in 1 .. n - 1 /\ k < n - 1
        BY <1>1, <3>1
      <4>4. k > 1 => k - 1 < i /\ k - 1 \in 1 .. n - 1
        BY <1>1, <3>1
      <4>. QED  BY <1>2, <4>1, <4>2, <4>3, <4>4
    <3>2. CASE ~(k < i)
      <4>1. q[k] = s[k + 1] /\ k + 1 \in 1 .. n /\ k + 1 > 1 /\ (k + 1) - 1 = k
        BY <1>1, <1>2, <3>2
      <4>2. /\ ~LastChunk(s[k + 1]) => k + 1 < n /\ Follows(s[k + 1 + 1], s[k + 1])
            /\ s[k + 1].chunk > 0 => Follows(s[k + 1], s[k]) /\ k # i
        BY <1>3, <1>4, <2>1, <4>1
      <4>3. k + 1 < n => k < n - 1 /\ ~(k + 1 < i) /\ k + 1 \in 1 .. n - 1
        BY <1>1, <3>2
      <4>4. k > 1 /\ k # i => ~(k - 1 < i) /\ k - 1 \in 1 .. n - 1 /\ (k - 1) + 1 = k
        BY <1>1, <3>2
      <4>. QED  BY <1>2, <4>1, <4>2, <4>3, <4>4
    <3>. QED  BY <3>1, <3>2
  <2>. QED  BY <1>1, <2>1 DEF InLineIn
<1>6. \A k \in 1 .. n - 1 : \E j \in 1 .. n : q[k] = s[j]
  BY <1>2
<1>7. ASSUME NEW j \in 1 .. n, s[j].rpt \in R PROVE \E k \in 1 .. n - 1 : q[k] = s[j]
  <2>1. j # i
    BY <1>7
  <2>2. CASE j < i
    <3>1. j \in 1 .. n - 1
      BY <1>1, <2>2
    <3>. QED  BY <1>2, <2>2, <3>1
  <2>3. CASE j > i
    <3>1. j - 1 \in 1 .. n - 1 /\ ~(j - 1 < i) /\ (j - 1) + 1 = j
      BY <1>1, <2>3
    <3>. QED  BY <1>2, <3>1
  <2>. QED  BY <1>1, <2>1, <2>2, <2>3
<1>8. ASSUME n > 0, s[1].rpt \in R PROVE n - 1 > 0 /\ q[1] = s[1]
  <2>1. 1 # i
    BY <1>8
  <2>2. 1 < i /\ 1 \in 1 .. n - 1 /\ n - 1 > 0
    BY <1>1, <2>1
  <2>. QED  BY <1>2, <2>2
<1>9. ASSUME n - 1 > 0, q[1].rpt \in R PROVE q[1] = s[1] \/ (q[1].chunk = 0 /\ s[1].rpt \notin R)
  <2>1. 1 \in 1 .. n - 1 /\ 1 + 1 = 2
    BY <1>1, <1>9
  <2>2. CASE i # 1
    <3>1. 1 < i
      BY <1>1, <2>2
    <3>. QED  BY <1>2, <2>1, <3>1
  <2>3. CASE i = 1
    <3>1. q[1] = s[2] /\ 2 \in 1 .. n /\ 2 > 1 /\ 2 - 1 = 1
      BY <1>2, <2>1, <2>3
    <3>2. ~(s[2].chunk > 0)
      BY <1>4, <1>9, <2>3, <3>1
    <3>3. s[2].chunk \in Nat
      <4>1. s[2] \in Packet
        BY <1>1, <3>1
      <4>2. s[2].chunk \in Cells
        BY <4>1 DEF Packet
      <4>. QED  BY <4>2, CellsFacts
    <3>. QED  BY <2>3, <3>1, <3>2, <3>3
  <2>. QED  BY <2>2, <2>3
<1>. QED  BY <1>1, <1>5, <1>6, <1>7, <1>8, <1>9 DEF Disturbed

\* A packet that arrives twice.
LEMMA DuplicateDisturbs ==
  ASSUME NEW s \in Seq(Packet), NEW R0, NEW R \in SUBSET R0, InLineIn(s, R0),
         NEW i \in 1 .. Len(s), s[i].rpt \notin R
  PROVE  Disturbed(s, InsertAt(s, i, s[i]), R)
<1>1. PICK n \in Nat, q \in Seq(Packet) :
        /\ n = Len(s) /\ q = InsertAt(s, i, s[i]) /\ Len(q) = n + 1 /\ i \in 1 .. n
        /\ \A j \in 1 .. n + 1 : q[j] = IF j < i THEN s[j] ELSE IF j = i THEN s[i] ELSE s[j - 1]
  <2>1. Len(s) \in Nat /\ i \in 1 .. Len(s) + 1
    OBVIOUS
  <2>2. PICK e \in Packet : e = s[i]
    OBVIOUS
  <2>3. /\ InsertAt(s, i, e) \in Seq(Packet) /\ Len(InsertAt(s, i, e)) = Len(s) + 1
        /\ \A j \in 1 .. Len(s) + 1 :
             InsertAt(s, i, e)[j] = IF j < i THEN s[j] ELSE IF j = i THEN e ELSE s[j - 1]
    BY <2>1, InsertAtFacts
  <2>. QED  BY <2>1, <2>2, <2>3
<1>2. \A k \in 1 .. n + 1 : (k <= i => q[k] = s[k] /\ k \in 1 .. n) /\ (~(k <= i) => q[k] = s[k - 1] /\ k - 1 \in 1 .. n)
  BY <1>1
<1>3. \A k \in 1 .. n : s[k].rpt \in R =>
        /\ ~LastChunk(s[k]) => k < n /\ Follows(s[k + 1], s[k])
        /\ s[k].chunk > 0 /\ k > 1 => Follows(s[k], s[k - 1])
  BY <1>1 DEF InLineIn
<1>4. \A k \in 1 .. n : s[k].rpt \in R =>
        /\ k # i
        /\ ~LastChunk(s[k]) => k + 1 # i
        /\ s[k].chunk > 0 /\ k > 1 => k - 1 # i
  BY <1>3 DEF Follows
<1>5. InLineIn(q, R)
  <2>1. ASSUME NEW k \in 1 .. n + 1, q[k].rpt \in R
        PROVE  /\ ~LastChunk(q[k]) => k < n + 1 /\ Follows(q[k + 1], q[k])
               /\ q[k].chunk > 0 /\ k > 1 => Follows(q[k], q[k - 1])
    <3>1. CASE k <= i
      <4>1. q[k] = s[k] /\ k \in 1 .. n
        BY <1>2, <3>1
      <4>2. /\ ~LastChunk(s[k]) => k < n /\ Follows(s[k + 1], s[k]) /\ k + 1 # i
            /\ s[k].chunk > 0 /\ k > 1 => Follows(s[k], s[k - 1])
            /\ k # i
        BY <1>3, <1>4, <2>1, <4>1
      <4>3. k # i => k + 1 <= i /\ k + 1 \in 1 .. n + 1 /\ k < n + 1
        BY <1>1, <3>1
      <4>4. k > 1 => k - 1 <= i /\ k - 1 \in 1 .. n + 1
        BY <1>1, <3>1
      <4>. QED  BY <1>2, <4>1, <4>2, <4>3, <4>4
    <3>2. CASE ~(k <= i)
      <4>1. PICK m \in 1 .. n : k = m + 1 /\ q[k] = s[m] /\ m >= i
        <5>1. q[k] = s[k - 1] /\ k - 1 \in 1 .. n /\ k = (k - 1) + 1 /\ k - 1 >= i
          BY <1>1, <1>2, <3>2
        <5>. QED  BY <5>1
      <4>2. /\ ~LastChunk(s[m]) => m < n /\ Follows(s[m + 1], s[m])
            /\ s[m].chunk > 0 /\ m > 1 => Follows(s[m], s[m - 1]) /\ m - 1 # i
            /\ m # i
        BY <1>3, <1>4, <2>1, <4>1
      <4>3. ASSUME ~LastChunk(s[m]) PROVE k < n + 1 /\ q[k + 1] = s[m + 1]
        <5>1. k + 1 \in 1 .. n + 1 /\ ~(k + 1 <= i) /\ (k + 1) - 1 = m + 1 /\ k < n + 1
          BY <1>1, <3>2, <4>1, <4>2, <4>3
        <5>. QED  BY <1>2, <5>1
      <4>4. ASSUME s[m].chunk > 0 PROVE m > 1 /\ q[k - 1] = s[m - 1]
        <5>1. m > i
          BY <1>1, <4>1, <4>2
        <5>2. m > 1 /\ k - 1 \in 1 .. n + 1 /\ ~(k - 1 <= i) /\ (k - 1) - 1 = m - 1
          BY <1>1, <4>1, <5>1
        <5>. QED  BY <1>2, <5>2
      <4>. QED  BY <4>1, <4>2, <4>3, <4>4
    <3>. QED  BY <1>1, <3>1, <3>2
  <2>. QED  BY <1>1, <2>1 DEF InLineIn
<1>6. \A k \in 1 .. n + 1 : \E j \in 1 .. n : q[k] = s[j]
  BY <1>2
<1>7. ASSUME NEW j \in 1 .. n, s[j].rpt \in R PROVE \E k \in 1 .. n + 1 : q[k] = s[j]
  <2>1. CASE j <= i
    <3>1. j \in 1 .. n + 1
      BY <1>1
    <3>. QED  BY <1>2, <2>1, <3>1
  <2>2. CASE ~(j <= i)
    <3>1. j + 1 \in 1 .. n + 1 /\ ~(j + 1 <= i) /\ (j + 1) - 1 = j
      BY <1>1, <2>2
    <3>. QED  BY <1>2, <3>1
  <2>. QED  BY <2>1, <2>2
<1>8. n + 1 > 0 /\ q[1] = s[1]
  <2>1. 1 \in 1 .. n + 1 /\ 1 <= i
    BY <1>1
  <2>. QED  BY <1>1, <1>2, <2>1
<1>. QED  BY <1>1, <1>5, <1>6, <1>7, <1>8 DEF Disturbed

\* Two packets that arrive in the other order.
LEMMA SwapDisturbs ==
  ASSUME NEW s \in Seq(Packet), NEW R0, NEW R \in SUBSET R0, InLineIn(s, R0),
         NEW i \in 1 .. Len(s), i < Len(s), s[i].rpt \notin R, s[i + 1].rpt \notin R
  PROVE  Disturbed(s, [s EXCEPT ![i] = s[i + 1], ![i + 1] = s[i]], R)
<1>1. PICK n \in Nat, q \in Seq(Packet) :
        /\ n = Len(s) /\ q = [s EXCEPT ![i] = s[i + 1], ![i + 1] = s[i]] /\ Len(q) = n
        /\ i \in 1 .. n - 1
        /\ q[i] = s[i + 1] /\ q[i + 1] = s[i]
        /\ \A j \in 1 .. n : j # i /\ j # i + 1 => q[j] = s[j]
  <2>1. PICK q : q = [s EXCEPT ![i] = s[i + 1], ![i + 1] = s[i]]
    OBVIOUS
  <2>2. Len(s) \in Nat /\ i \in 1 .. Len(s) - 1 /\ i + 1 \in 1 .. Len(s) /\ i # i + 1
    OBVIOUS
  <2>3. s[i] \in Packet /\ s[i + 1] \in Packet
    BY <2>2
  <2>4. q \in Seq(Packet) /\ Len(q) = Len(s)
    BY <2>1, <2>2, <2>3
  <2>5. q[i] = s[i + 1] /\ q[i + 1] = s[i] /\ \A j \in 1 .. Len(s) : j # i /\ j # i + 1 => q[j] = s[j]
    BY <2>1, <2>2
  <2>. QED  BY <2>1, <2>2, <2>4, <2>5
<1>2. i + 1 \in 1 .. n /\ i \in 1 .. n
  BY <1>1
<1>3. \A k \in 1 .. n : s[k].rpt \in R =>
        /\ ~LastChunk(s[k]) => k < n /\ Follows(s[k + 1], s[k])
        /\ s[k].chunk > 0 /\ k > 1 => Follows(s[k], s[k - 1])
  BY <1>1 DEF InLineIn
<1>4. \A k \in 1 .. n : s[k].rpt \in R => k # i /\ k # i + 1
  OBVIOUS
<1>5. \A k \in 1 .. n : s[k].rpt \in R \/ q[k].rpt \in R => k # i /\ k # i + 1 /\ q[k] = s[k]
  BY <1>1, <1>2, <1>4
<1>6. InLineIn(q, R)
  <2>1. ASSUME NEW k \in 1 .. n, q[k].rpt \in R
        PROVE  /\ ~LastChunk(q[k]) => k < n /\ Follows(q[k + 1], q[k])
               /\ q[k].chunk > 0 /\ k > 1 => Follows(q[k], q[k - 1])
    <3>1. q[k] = s[k] /\ s[k].rpt \in R
      BY <1>5, <2>1
    <3>2. ASSUME ~LastChunk(s[k]) PROVE k < n /\ Follows(q[k + 1], q[k])
      <4>1. k < n /\ Follows(s[k + 1], s[k]) /\ k + 1 \in 1 .. n
        BY <1>3, <3>1, <3>2
      <4>2. q[k + 1] = s[k + 1]
        BY <1>5, <3>1, <4>1 DEF Follows
      <4>. QED  BY <3>1, <4>1, <4>2
    <3>3. ASSUME s[k].chunk > 0, k > 1 PROVE Follows(q[k], q[k - 1])
      <4>1. Follows(s[k], s[k - 1]) /\ k - 1 \in 1 .. n
        BY <1>3, <3>1, <3>3
      <4>2. q[k - 1] = s[k - 1]
        BY <1>5, <3>1, <4>1 DEF Follows
      <4>. QED  BY <3>1, <4>1, <4>2
    <3>. QED  BY <3>1, <3>2, <3>3
  <2>. QED  BY <1>1, <2>1 DEF InLineIn
<1>7. \A k \in 1 .. n : \E j \in 1 .. n : q[k] = s[j]
  BY <1>1, <1>2
<1>8. \A j \in 1 .. n : s[j].rpt \in R => \E k \in 1 .. n : q[k] = s[j]
  BY <1>5
<1>9. 1 \in 1 .. n
  BY <1>1
<1>. QED  BY <1>1, <1>5, <1>6, <1>7, <1>8, <1>9 DEF Disturbed
\* The host it happens to: the message ids keep the packets that are left apart from
\* what the listener holds.
LEMMA FaultHost ==
  ASSUME Typed, Typed', Numbered, ~Quiet, NEW h \in Hosts, HostInv(h),
         UNCHANGED <<sent, bufs, applied, pruned>>,
         Straight(h)' \subseteq Straight(h), Disturbed(net[h], net'[h], Straight(h)')
  PROVE  HostInv(h)'
<1>1. PICK s, q, R : s = net[h] /\ q = net'[h] /\ R = Straight(h)'
  OBVIOUS
<1>2. R \subseteq Straight(h) /\ Clean(h)' \subseteq R /\ Clean(h)' \subseteq Clean(h)
  BY <1>1 DEF Clean
<1>3. Held(h)' = Held(h)
  BY DEF Held
<1>4. Disturbed(s, q, R)
  BY <1>1
<1>5. /\ Genuine(h) /\ Pending(h) /\ Continued(h) /\ OfOneReport(h)
      /\ Mixed \notin ToSet(applied'[h])
  BY DEF HostInv
<1>6. Genuine(h)'
  <2>1. ASSUME NEW k \in 1 .. Len(q)
        PROVE  /\ q[k].rpt \in 1 .. Len(sent[h])
               /\ q[k].size = sent[h][q[k].rpt]
               /\ q[k].chunk \in 0 .. NChunks(q[k].size) - 1
               /\ q[k].len = TextLen(q[k].size, q[k].chunk)
    <3>1. PICK j \in 1 .. Len(s) : q[k] = s[j]
      BY <1>4 DEF Disturbed
    <3>. QED  BY <1>1, <1>5, <3>1 DEF Genuine
  <2>. QED  BY <1>1, <2>1 DEF Genuine
<1>7. InLine(h)'
  BY <1>1, <1>4 DEF Disturbed, InLineIn, InLine
<1>8. Pending(h)'
  <2>1. ASSUME h # NullUuid, NEW r \in Clean(h)'
        PROVE  IsApplied(h, r) \/ \E k \in 1 .. Len(q) : q[k].rpt = r /\ LastChunk(q[k])
    <3>1. IsApplied(h, r) \/ \E j \in 1 .. Len(s) : s[j].rpt = r /\ LastChunk(s[j])
      BY <1>1, <1>2, <1>5, <2>1 DEF Pending
    <3>2. ASSUME NEW j \in 1 .. Len(s), s[j].rpt = r
          PROVE  \E k \in 1 .. Len(q) : q[k] = s[j]
      BY <1>2, <1>4, <2>1, <3>2 DEF Disturbed
    <3>. QED  BY <3>1, <3>2
  <2>. QED  BY <1>1, <2>1 DEF Pending, IsApplied
<1>9. s \in Seq(Packet) /\ (Len(s) > 0 <=> s # <<>>)
  <2>1. s \in Seq(Packet)
    BY <1>1 DEF Typed, TypeOK
  <2>. QED  BY <2>1
<1>10. \A k \in 1 .. Len(q) : q[k].rpt \in Nat /\ q[k].msgid = q[k].rpt - 1
  <2>1. ASSUME NEW k \in 1 .. Len(q) PROVE q[k].rpt \in Nat /\ q[k].msgid = q[k].rpt - 1
    <3>1. PICK j \in 1 .. Len(s) : q[k] = s[j]
      BY <1>4 DEF Disturbed
    <3>. QED  BY <1>1, <1>5, <3>1 DEF Genuine, Numbered
  <2>. QED  BY <2>1
<1>11. \A c \in Held(h) : \E r \in 1 .. Len(sent[h]) :
         /\ c.size = sent[h][r] /\ OnlyOf(c.text, r) /\ r = c.msgid + 1 /\ c.msgid \in Nat
         /\ r \in Clean(h) => Len(s) > 0 /\ s[1].rpt = r /\ s[1].chunk > 0
  <2>1. \A c \in Held(h) : c.msgid \in Nat
    BY HeldFacts DEF Contents
  <2>. QED  BY <1>1, <1>5, <1>9, <2>1 DEF OfOneReport
<1>12. OfOneReport(h)'
  <2>1. ASSUME NEW c \in Held(h)
        PROVE  \E r \in 1 .. Len(sent[h]) :
                 /\ c.size = sent[h][r] /\ OnlyOf(c.text, r) /\ r = c.msgid + 1
                 /\ r \in Clean(h)' => q # <<>> /\ q[1].rpt = r /\ q[1].chunk > 0
    <3>1. PICK r \in 1 .. Len(sent[h]) :
            /\ c.size = sent[h][r] /\ OnlyOf(c.text, r) /\ r = c.msgid + 1
            /\ r \in Clean(h) => Len(s) > 0 /\ s[1].rpt = r /\ s[1].chunk > 0
      BY <1>11
    <3>2. ASSUME r \in Clean(h)' PROVE q # <<>> /\ q[1].rpt = r /\ q[1].chunk > 0
      <4>1. Len(s) > 0 /\ s[1].rpt = r /\ s[1].chunk > 0 /\ s[1].rpt \in R
        BY <1>2, <3>1, <3>2
      <4>2. Len(q) > 0 /\ q[1] = s[1]
        BY <1>4, <4>1 DEF Disturbed
      <4>3. q # <<>>
        BY <4>2
      <4>. QED  BY <4>1, <4>2, <4>3
    <3>. QED  BY <3>1, <3>2
  <2>. QED  BY <1>1, <1>3, <2>1 DEF OfOneReport
<1>13. Continued(h)'
  <2>. SUFFICES ASSUME q # <<>>, q[1].rpt \in Clean(h)'
                PROVE  IF q[1].chunk = 0
                         THEN \A c \in Held(h) : c.msgid # q[1].msgid
                         ELSE \E c \in Held(h) :
                                /\ c.msgid = q[1].msgid /\ c.size = q[1].size
                                /\ c.charcount = q[1].chunk * ChunkLen
                                /\ Prefix(c.text, q[1].rpt, q[1].chunk)
    BY <1>1, <1>3 DEF Continued
  <2>1. Len(q) > 0 /\ 1 \in 1 .. Len(q)
    <3>1. q \in Seq(Packet)
      BY <1>1 DEF Typed, TypeOK
    <3>. QED  BY <3>1
  <2>2. q[1] = s[1] \/ (q[1].chunk = 0 /\ s[1].rpt \notin R)
    BY <1>2, <1>4, <2>1 DEF Disturbed
  <2>3. CASE q[1] = s[1]
    <3>1. s # <<>>
      BY <1>4, <1>9, <2>1 DEF Disturbed
    <3>. QED  BY <1>1, <1>2, <1>5, <2>3, <3>1 DEF Continued
  <2>4. CASE q[1].chunk = 0 /\ s[1].rpt \notin R
    <3>. SUFFICES ASSUME NEW c \in Held(h), c.msgid = q[1].msgid PROVE FALSE
      BY <2>4
    <3>1. PICK r \in 1 .. Len(sent[h]) :
            /\ r = c.msgid + 1
            /\ r \in Clean(h) => s[1].rpt = r
      BY <1>11
    <3>2. r = q[1].rpt
      BY <1>10, <2>1, <3>1
    <3>. QED  BY <1>2, <2>4, <3>1, <3>2
  <2>. QED  BY <2>2, <2>3, <2>4
<1>. QED  BY <1>5, <1>6, <1>7, <1>8, <1>12, <1>13 DEF HostInv
\* Every fault of the network keeps the invariant.
LEMMA InvFault ==
  ASSUME AssemblyInv, NEW h \in Hosts, NEW i \in DOMAIN net[h],
         Lose(h, i) \/ Duplicate(h, i) \/ Swap(h, i)
  PROVE  AssemblyInv'
<1>1. Typed /\ Typed' /\ WritesInBounds /\ (Numbered \/ Quiet) /\ \A g \in Hosts : HostInv(g)
  BY TypedFault DEF AssemblyInv
<1>2. PICK s \in Seq(Packet) : s = net[h] /\ i \in 1 .. Len(s)
  BY <1>1 DEF Typed, TypeOK
<1>3. UNCHANGED <<msgid, sent, bufs, pktc, listener, applied, pruned>>
  BY DEF Lose, Duplicate, Swap, agentVars, listenerVars
<1>4. PICK k \in FaultKind \ {"restart"} : faults[k] > 0 /\ faults' = [faults EXCEPT ![k] = @ - 1]
  BY DEF Lose, Duplicate, Swap, Fault, FaultKind
<1>5. Numbered /\ ~Quiet /\ faults'["restart"] = 0
  <2>1. ~Quiet
    BY <1>4 DEF Quiet
  <2>2. faults \in [FaultKind -> Nat] /\ "restart" \in FaultKind
    BY <1>1 DEF Typed, TypeOK, FaultKind
  <2>. QED  BY <1>1, <1>4, <2>1, <2>2 DEF Numbered
<1>6. /\ hit \in [Hosts -> SUBSET Reports] /\ permuted \in [Hosts -> SUBSET Reports]
      /\ net \in [Hosts -> Seq(Packet)]
  BY <1>1 DEF Typed, TypeOK
<1>7. InLineIn(s, Straight(h))
  BY <1>1, <1>2 DEF HostInv, InLine, InLineIn
<1>8. /\ \A g \in Hosts \ {h} : net'[g] = net[g] /\ hit'[g] = hit[g] /\ permuted'[g] = permuted[g]
      /\ Straight(h)' \subseteq Straight(h)
      /\ Disturbed(s, net'[h], Straight(h)')
  <2>1. CASE Lose(h, i)
    <3>1. /\ net' = [net EXCEPT ![h] = RemoveAt(@, i)] /\ permuted' = permuted
          /\ hit' = [hit EXCEPT ![h] = @ \cup {net[h][i].rpt}]
      BY <2>1 DEF Lose, Hit
    <3>2. net'[h] = RemoveAt(s, i) /\ hit'[h] = hit[h] \cup {s[i].rpt} /\ permuted'[h] = permuted[h]
      BY <1>2, <1>6, <3>1
    <3>3. PICK R : R = Straight(h)'
      OBVIOUS
    <3>4. R \subseteq Straight(h) /\ s[i].rpt \notin R
      BY <1>3, <3>2, <3>3 DEF Straight
    <3>5. Disturbed(s, RemoveAt(s, i), R)
      BY <1>2, <1>7, <3>4, LoseDisturbs
    <3>6. \A g \in Hosts \ {h} : net'[g] = net[g] /\ hit'[g] = hit[g] /\ permuted'[g] = permuted[g]
      BY <1>6, <3>1
    <3>. QED  BY <3>2, <3>3, <3>4, <3>5, <3>6
  <2>2. CASE Duplicate(h, i)
    <3>1. /\ net' = [net EXCEPT ![h] = InsertAt(@, i, @[i])] /\ permuted' = permuted
          /\ hit' = [hit EXCEPT ![h] = @ \cup {net[h][i].rpt}]
      BY <2>2 DEF Duplicate, Hit
    <3>2. net'[h] = InsertAt(s, i, s[i]) /\ hit'[h] = hit[h] \cup {s[i].rpt} /\ permuted'[h] = permuted[h]
      BY <1>2, <1>6, <3>1
    <3>3. PICK R : R = Straight(h)'
      OBVIOUS
    <3>4. R \subseteq Straight(h) /\ s[i].rpt \notin R
      BY <1>3, <3>2, <3>3 DEF Straight
    <3>5. Disturbed(s, InsertAt(s, i, s[i]), R)
      BY <1>2, <1>7, <3>4, DuplicateDisturbs
    <3>6. \A g \in Hosts \ {h} : net'[g] = net[g] /\ hit'[g] = hit[g] /\ permuted'[g] = permuted[g]
      BY <1>6, <3>1
    <3>. QED  BY <3>2, <3>3, <3>4, <3>5, <3>6
  <2>3. CASE Swap(h, i)
    <3>1. /\ i < Len(s)
          /\ net' = [net EXCEPT ![h] = [@ EXCEPT ![i] = net[h][i + 1], ![i + 1] = net[h][i]]]
          /\ IF s[i].rpt = s[i + 1].rpt
               THEN permuted' = [permuted EXCEPT ![h] = @ \cup {s[i].rpt}] /\ hit' = hit
               ELSE hit' = [hit EXCEPT ![h] = @ \cup {s[i].rpt, s[i + 1].rpt}] /\ permuted' = permuted
      BY <1>2, <2>3 DEF Swap, Hit
    <3>2. /\ net'[h] = [s EXCEPT ![i] = s[i + 1], ![i + 1] = s[i]]
          /\ hit[h] \subseteq hit'[h] /\ permuted[h] \subseteq permuted'[h]
          /\ s[i].rpt \in hit'[h] \cup permuted'[h] /\ s[i + 1].rpt \in hit'[h] \cup permuted'[h]
      <4>1. net'[h] = [s EXCEPT ![i] = s[i + 1], ![i + 1] = s[i]]
        BY <1>2, <1>6, <3>1
      <4>2. CASE s[i].rpt = s[i + 1].rpt
        BY <1>6, <3>1, <4>1, <4>2
      <4>3. CASE s[i].rpt # s[i + 1].rpt
        BY <1>6, <3>1, <4>1, <4>3
      <4>. QED  BY <4>2, <4>3
    <3>3. PICK R : R = Straight(h)'
      OBVIOUS
    <3>4. R \subseteq Straight(h) /\ s[i].rpt \notin R /\ s[i + 1].rpt \notin R
      BY <1>3, <3>2, <3>3 DEF Straight
    <3>5. Disturbed(s, [s EXCEPT ![i] = s[i + 1], ![i + 1] = s[i]], R)
      BY <1>2, <1>7, <3>1, <3>4, SwapDisturbs
    <3>6. \A g \in Hosts \ {h} : net'[g] = net[g] /\ hit'[g] = hit[g] /\ permuted'[g] = permuted[g]
      BY <1>6, <3>1
    <3>. QED  BY <3>2, <3>3, <3>4, <3>5, <3>6
  <2>. QED  BY <2>1, <2>2, <2>3
<1>9. HostInv(h)'
  BY <1>1, <1>2, <1>3, <1>5, <1>8, FaultHost
<1>10. ASSUME NEW g \in Hosts, g # h PROVE HostInv(g)'
  <2>1. Held(g)' = Held(g)
    BY <1>3 DEF Held
  <2>2. Settled(Held(g), g)
    BY <1>3, <2>1, SettledSame
  <2>. QED  BY <1>1, <1>3, <1>5, <1>8, <1>10, <2>2, OtherHost
<1>11. Numbered'
  <2>1. ASSUME NEW g \in Hosts
        PROVE  \A j \in 1 .. Len(net'[g]) : net'[g][j].msgid = net'[g][j].rpt - 1
    <3>1. CASE g # h
      BY <1>5, <1>8, <3>1 DEF Numbered
    <3>2. CASE g = h
      <4>1. \A j \in 1 .. Len(net'[h]) : \E n \in 1 .. Len(s) : net'[h][j] = s[n]
        BY <1>8 DEF Disturbed
      <4>. QED  BY <1>2, <1>5, <3>2, <4>1 DEF Numbered
    <3>. QED  BY <3>1, <3>2
  <2>. QED  BY <1>3, <1>5, <2>1 DEF Numbered
<1>12. WritesInBounds'
  BY <1>1, <1>3 DEF WritesInBounds
<1>. QED  BY <1>1, <1>9, <1>10, <1>11, <1>12 DEF AssemblyInv

\* Steps that touch no packet and no text: an agent starts again, time passes, a packet is
\* only counted.
LEMMA InvOther ==
  ASSUME AssemblyInv, (\E h \in Hosts : Restart(h)) \/ RecvOther \/ Tick \/ UNCHANGED vars
  PROVE  AssemblyInv'
<1>1. /\ Typed /\ Typed' /\ WritesInBounds /\ (Numbered \/ Quiet) /\ \A g \in Hosts : HostInv(g)
      /\ TypeOK
  <2>1. [Next]_vars
    BY DEF Next
  <2>. QED  BY <2>1, TypedStep DEF AssemblyInv, Typed
<1>2. ASSUME UNCHANGED <<net, sent, applied, pruned, hit, permuted, listener>>,
             \A g \in Hosts : Held(g)' = Held(g),
             Quiet => Quiet', Numbered => Numbered'
      PROVE  AssemblyInv'
  <2>1. ASSUME NEW g \in Hosts PROVE HostInv(g)'
    <3>1. Settled(Held(g), g)
      BY <1>2, SettledSame
    <3>. QED  BY <1>1, <1>2, <3>1, OtherHost
  <2>2. WritesInBounds'
    BY <1>1, <1>2 DEF WritesInBounds
  <2>. QED  BY <1>1, <1>2, <2>1, <2>2 DEF AssemblyInv
<1>3. ASSUME NEW h \in Hosts, Restart(h) PROVE AssemblyInv'
  <2>1. /\ UNCHANGED <<net, sent, bufs, listener, applied, pruned, hit, permuted>>
        /\ faults["restart"] > 0 /\ faults' = [faults EXCEPT !["restart"] = @ - 1]
    BY <1>3 DEF Restart, Fault, listenerVars
  <2>2. ~Numbered
    BY <2>1 DEF Numbered
  <2>3. Quiet => Quiet'
    <3>1. \A k \in FaultKind \ {"restart"} : faults'[k] = faults[k]
      BY <1>1, <2>1 DEF TypeOK
    <3>. QED  BY <2>1, <3>1 DEF Quiet
  <2>4. \A g \in Hosts : Held(g)' = Held(g)
    BY <2>1 DEF Held
  <2>. QED  BY <1>2, <2>1, <2>2, <2>3, <2>4
<1>4. ASSUME RecvOther \/ UNCHANGED vars PROVE AssemblyInv'
  <2>1. UNCHANGED <<msgid, net, sent, bufs, listener, applied, pruned, hit, permuted, faults>>
    BY <1>4 DEF RecvOther, vars, agentVars, listenerVars
  <2>2. (Quiet => Quiet') /\ (Numbered => Numbered') /\ \A g \in Hosts : Held(g)' = Held(g)
    BY <2>1 DEF Quiet, Numbered, Held
  <2>. QED  BY <1>2, <2>1, <2>2
<1>5. ASSUME Tick PROVE AssemblyInv'
  <2>1. /\ Len(bufs') = Len(bufs)
        /\ \A i \in 1 .. Len(bufs) : bufs'[i].host = bufs[i].host /\ Content(bufs'[i]) = Content(bufs[i])
        /\ faults["delay"] > 0 /\ faults' = [faults EXCEPT !["delay"] = @ - 1]
        /\ UNCHANGED <<msgid, sent, net, pktc, listener, applied, pruned, hit, permuted>>
    BY <1>1, <1>5, TickFacts
  <2>2. ~Quiet
    BY <2>1 DEF Quiet, FaultKind
  <2>3. Numbered => Numbered'
    <3>1. faults'["restart"] = faults["restart"]
      BY <1>1, <2>1 DEF TypeOK, FaultKind
    <3>. QED  BY <2>1, <3>1 DEF Numbered
  <2>4. \A g \in Hosts : Held(g)' = Held(g)
    BY <2>1 DEF Held, HeldIn, Elems
  <2>. QED  BY <1>2, <2>1, <2>2, <2>3, <2>4
<1>. QED  BY <1>3, <1>4, <1>5

-----------------------------------------------------------------------------
(* Theorems. *)

\* The bound on the faults that the last three theorems need: an agent that is started
\* again gives its reports the message ids of earlier ones, and a buffer that waits for
\* the rest of one would take another's for it.  A run has restarts, or other faults.
RestartsAlone ==
  \A b \in Budgets : b["restart"] = 0 \/ \A k \in FaultKind \ {"restart"} : b[k] = 0

\* The invariant holds at first.
LEMMA InvInit == RestartsAlone /\ Init => AssemblyInv
<1>. SUFFICES ASSUME RestartsAlone, Init PROVE AssemblyInv
  OBVIOUS
<1>1. Typed
  BY TypedInit
<1>2. /\ \A h \in Hosts : /\ net[h] = <<>> /\ sent[h] = <<>> /\ applied[h] = <<>> /\ msgid[h] = 0
                          /\ hit[h] = {} /\ permuted[h] = {} /\ pruned[h] = {}
      /\ bufs = <<>> /\ listener = "up" /\ faults \in Budgets
  BY DEF Init
<1>3. Numbered \/ Quiet
  <2>1. faults["restart"] = 0 => Numbered
    BY <1>2 DEF Numbered
  <2>2. (\A k \in FaultKind \ {"restart"} : faults[k] = 0) => Quiet
    BY <1>2 DEF Quiet
  <2>. QED  BY <1>2, <2>1, <2>2 DEF RestartsAlone
<1>4. ASSUME NEW h \in Hosts PROVE HostInv(h)
  <2>1. Held(h) = {}
    BY <1>2 DEF Held, HeldIn, Elems
  <2>2. Clean(h) = {}
    BY <1>2 DEF Clean, Straight
  <2>3. ToSet(applied[h]) = {}
    BY <1>2 DEF ToSet
  <2>. QED  BY <1>2, <2>1, <2>2, <2>3 DEF HostInv, Genuine, InLine, Pending, Continued, OfOneReport
<1>5. WritesInBounds
  BY <1>2 DEF WritesInBounds
<1>. QED  BY <1>1, <1>3, <1>4, <1>5 DEF AssemblyInv

\* Every step keeps it.
LEMMA InvStep == AssemblyInv /\ [Next]_vars => AssemblyInv'
<1>. SUFFICES ASSUME AssemblyInv, [Next]_vars PROVE AssemblyInv'
  OBVIOUS
<1>1. ASSUME NEW h \in Hosts, NEW size \in Sizes, Report(h, size) PROVE AssemblyInv'
  BY <1>1, InvReport
<1>2. ASSUME NEW h \in Hosts, NEW i \in DOMAIN net[h], Lose(h, i) \/ Duplicate(h, i) \/ Swap(h, i)
      PROVE  AssemblyInv'
  BY <1>2, InvFault
<1>3. ASSUME NEW h \in Hosts, Recv(h) PROVE AssemblyInv'
  BY <1>3, InvRecv
<1>4. ASSUME (\E h \in Hosts : Restart(h)) \/ RecvOther \/ Tick \/ UNCHANGED vars PROVE AssemblyInv'
  BY <1>4, InvOther
<1>. QED  BY <1>1, <1>2, <1>3, <1>4 DEF Next

\* The variables have their types in every state, whatever the faults: the bounds on
\* chunks and ages, the reports applied, the packets on their way.
THEOREM TypeCorrect == Spec => []TypeOK
<1>1. Typed => TypeOK
  BY DEF Typed
<1>. QED  BY <1>1, TypedAlways, PTL

\* The list stays ordered by uuid without a host twice, whatever faults happen: restarts
\* included.  What insert_assmbl_buf, destroy_assmbl_buf and prune_assmbl_buf do to it.
THEOREM SortedCorrect == Spec => []BuffersSorted
<1>1. Typed => BuffersSorted
  BY DEF Typed
<1>. QED  BY <1>1, TypedAlways, PTL

\* The inductive invariant holds in every state.
LEMMA InvAlways == RestartsAlone /\ Spec => []AssemblyInv
BY InvInit, InvStep, PTL DEF Spec

\* report_listener applies nothing that no agent sent, whatever is lost, doubled,
\* reordered and pruned.
THEOREM IntactCorrect == RestartsAlone /\ Spec => []AppliedIntact
<1>1. AssemblyInv => AppliedIntact
  BY DEF AssemblyInv, HostInv, AppliedIntact
<1>. QED  BY <1>1, InvAlways, PTL

\* pkt_assembly writes nothing past the end of a buffer: a buffer only ever takes the
\* packets of the report it was made for.
THEOREM BoundsCorrect == RestartsAlone /\ Spec => []WritesInBounds
<1>1. AssemblyInv => WritesInBounds
  BY DEF AssemblyInv
<1>. QED  BY <1>1, InvAlways, PTL

\* A report that no fault touches is applied once all its packets are received, whatever
\* happens to the reports around it.
THEOREM CleanCorrect == RestartsAlone /\ Spec => []CleanReportApplied
<1>1. AssemblyInv => CleanReportApplied
  <2>. SUFFICES ASSUME AssemblyInv, NEW h \in Hosts \ {NullUuid}, NEW r \in Reports,
                       Delivered(h, r), r \notin hit[h] \cup permuted[h] \cup pruned[h]
                PROVE  IsApplied(h, r)
    BY DEF CleanReportApplied
  <2>1. sent[h] \in Seq(Sizes) /\ net[h] \in Seq(Packet)
    BY DEF AssemblyInv, Typed, TypeOK
  <2>2. DOMAIN sent[h] = 1 .. Len(sent[h]) /\ DOMAIN net[h] = 1 .. Len(net[h])
    BY <2>1
  <2>3. r \in Clean(h)
    BY <2>2 DEF Delivered, Clean, Straight
  <2>4. \A i \in 1 .. Len(net[h]) : net[h][i].rpt # r
    BY <2>2 DEF Delivered
  <2>. QED  BY <2>3, <2>4 DEF AssemblyInv, HostInv, Pending
<1>. QED  BY <1>1, InvAlways, PTL
=============================================================================
