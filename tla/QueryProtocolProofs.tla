------------------------ MODULE QueryProtocolProofs ------------------------
(***************************************************************************)
(* What QueryProtocol's runs check of the data server and its client, for  *)
(* any clients, hosts, requests and sizes.  The inductive invariant says   *)
(* that a client has one query under way at a time and nothing of an older *)
(* answer; that what is on its way comes in order, the marker's NUL last;  *)
(* that what the server still has to send is the end of one answer; and    *)
(* that the client that left is the only one it can send to twice.         *)
(***************************************************************************)
EXTENDS QueryProtocol, ListLemmas

-----------------------------------------------------------------------------
(* The inductive invariant. *)

Units == {"json", "E1", "E2", "N"}
Kinds == {"list", "stats", "query"}
Entry == [id : Ids, host : Ids]

Typed ==
  /\ net \in {"whole", "any"} /\ on \in BOOLEAN
  /\ server \in {"ready", "busy", "exited", "dead"} /\ serving \in Clients \cup {Nobody}
  /\ out \in Seq(Seq(Units)) /\ unheard \in 0 .. 2 /\ stack \in Ids
  /\ conn \in [Clients -> {"none", "backlog", "open"}]
  /\ phase \in [Clients -> {"new", "wait", "done", "left"}]
  /\ request \in [Clients -> Requests]
  /\ ask \in [Clients -> [kind : Kinds \cup {"none"}, ids : Seq(Ids)]]
  /\ up \in [Clients -> Seq(Nat)]
  /\ down \in [Clients -> Seq(Units)] /\ got \in [Clients -> Seq(Units)]
  /\ answer \in [Clients -> Seq(Entry)]
  /\ result \in [Clients -> {"none", "whole", "cut", "junk"}]
  /\ known \in SUBSET Hosts /\ merging \in known \cup {Nobody}
  /\ aborts \in 0 .. MaxAborts /\ raced \in BOOLEAN

\* The server is busy with a client or has nothing to send; what it has is the rest of an
\* answer's text and the marker, or the rest of the marker.
ServerInv ==
  /\ server = "busy" => serving \in Clients /\ unheard + Len(out) <= 2
  /\ server \in {"ready", "exited"} => serving = Nobody /\ out = <<>>
  /\ serving = Nobody => out = <<>>
  /\ Len(out) <= 2
  /\ Len(out) = 2 => /\ out[1] # <<>> /\ \A j \in 1 .. Len(out[1]) : out[1][j] = "json"
                     /\ out[2] = Marker
  /\ Len(out) = 1 => /\ out[1] # <<>>
                     /\ \A j \in 1 .. Len(out[1]) : out[1][j] = "N" <=> j = Len(out[1])

\* The server has units to send to the client.
Owed(c) == serving = c /\ out # <<>>

\* A client has one query under way at a time, and nothing of an earlier answer.
OneQuery(c) ==
  /\ Len(up[c]) <= QueryLen(ask[c])
  /\ phase[c] = "new" => up[c] = <<>> /\ serving # c
  /\ up[c] # <<>> => phase[c] \in {"wait", "left"} /\ ask[c].kind # "none"
  /\ phase[c] = "new" \/ up[c] # <<>> => down[c] = <<>> /\ got[c] = <<>> /\ ~Owed(c)

\* What is on its way comes in order: the marker after the text, its NUL at the end.
InOrder(c) ==
  /\ serving = c /\ Len(out) = 2 => \A i \in 1 .. Len(down[c]) : down[c][i] = "json"
  /\ \A i \in 1 .. Len(down[c]) : down[c][i] = "N" => i = Len(down[c]) /\ ~Owed(c)
  /\ Len(down[c]) <= Window

\* What a client that waits reads first is not the NUL of an earlier answer.
StartsWell(c) ==
  phase[c] = "wait" =>
    /\ got[c] # <<>> => got[c][1] # "N"
    /\ got[c] = <<>> /\ down[c] # <<>> => down[c][1] # "N"
    /\ got[c] = <<>> /\ down[c] = <<>> /\ Owed(c) => out[1][1] # "N"

\* While no client left early, the server has one send() at most to make to a client
\* that has its answer.
Polite ==
  /\ server = "dead" => aborts > 0 \/ raced
  /\ aborts = 0 => \A c \in Clients :
       /\ phase[c] # "left"
       /\ server = "busy" /\ serving = c =>
            IF phase[c] = "wait" THEN unheard = 0 ELSE unheard + Len(out) <= 1

\* Over a network that keeps together what is sent at once, a marker that fits is not torn.
Untorn(c) ==
  net = "whole" /\ Fits(c) =>
    /\ phase[c] = "done" => result[c] = "whole"
    /\ phase[c] = "wait" =>
         /\ Len(down[c]) <= Chunk
         /\ ~Owed(c) /\ down[c] # <<>> => down[c][Len(down[c])] = "N"
         /\ Owed(c) /\ Len(out) = 2 =>
              down[c] = <<>> /\ Len(out[1]) + 3 <= Chunk /\ Len(out[1]) + 3 <= Window
         /\ Owed(c) /\ Len(out) = 1 =>
              /\ Len(out[1]) = 3 /\ Len(down[c]) + 3 <= Chunk /\ Len(down[c]) + 3 <= Window
              /\ \A i \in 1 .. Len(down[c]) : down[c][i] = "json"

ClientInv(c) ==
  /\ OneQuery(c) /\ InOrder(c) /\ StartsWell(c) /\ Untorn(c)
  /\ result[c] # "junk"
  /\ \A i \in 1 .. Len(answer[c]) : answer[c][i].id # NoHost => answer[c][i].host = answer[c][i].id

QueryInv == Typed /\ ServerInv /\ Polite /\ \A c \in Clients : ClientInv(c)

-----------------------------------------------------------------------------
(* Lists of units. *)

\* The two parts of a list.
LEMMA Cut ==
  ASSUME NEW S, NEW s \in Seq(S), NEW n \in 0 .. Len(s)
  PROVE  /\ Len(s) \in Nat
         /\ SubSeq(s, 1, n) \in Seq(S) /\ Len(SubSeq(s, 1, n)) = n
         /\ \A i \in 1 .. n : SubSeq(s, 1, n)[i] = s[i]
         /\ SubSeq(s, n + 1, Len(s)) \in Seq(S) /\ Len(SubSeq(s, n + 1, Len(s))) = Len(s) - n
         /\ \A i \in 1 .. Len(s) - n : SubSeq(s, n + 1, Len(s))[i] = s[n + i]
<1>1. Len(s) \in Nat
  OBVIOUS
<1>2. /\ SubSeq(s, 1, n) \in Seq(S) /\ Len(SubSeq(s, 1, n)) = n
      /\ \A i \in 1 .. n : SubSeq(s, 1, n)[i] = s[i]
  BY <1>1, SubSeqProperties
<1>3. /\ SubSeq(s, n + 1, Len(s)) \in Seq(S) /\ Len(SubSeq(s, n + 1, Len(s))) = Len(s) - n
      /\ \A i \in 1 .. Len(s) - n : SubSeq(s, n + 1, Len(s))[i] = s[n + i]
  BY <1>1, SubSeqProperties
<1>. QED  BY <1>1, <1>2, <1>3

\* One list after another.
LEMMA Joined ==
  ASSUME NEW S, NEW s \in Seq(S), NEW t \in Seq(S)
  PROVE  /\ s \o t \in Seq(S) /\ Len(s \o t) = Len(s) + Len(t)
         /\ Len(s) \in Nat /\ Len(t) \in Nat
         /\ \A i \in 1 .. Len(s) : (s \o t)[i] = s[i]
         /\ \A i \in 1 .. Len(t) : (s \o t)[Len(s) + i] = t[i]
<1>1. Len(s) \in Nat /\ Len(t) \in Nat
  OBVIOUS
<1>2. /\ s \o t \in Seq(S) /\ Len(s \o t) = Len(s) + Len(t)
      /\ \A i \in 1 .. Len(s) + Len(t) : (s \o t)[i] = IF i <= Len(s) THEN s[i] ELSE t[i - Len(s)]
  BY ConcatProperties
<1>3. \A i \in 1 .. Len(s) : i \in 1 .. Len(s) + Len(t) /\ i <= Len(s)
  BY <1>1
<1>4. \A i \in 1 .. Len(t) : Len(s) + i \in 1 .. Len(s) + Len(t) /\ ~(Len(s) + i <= Len(s)) /\ (Len(s) + i) - Len(s) = i
  BY <1>1
<1>. QED  BY <1>1, <1>2, <1>3, <1>4

\* Two lists of one element make a list of two.
LEMMA Pair ==
  ASSUME NEW S, NEW a \in S, NEW b \in S
  PROVE  <<a>> \o <<b>> = <<a, b>>
<1>1. <<a>> \in Seq(S) /\ <<b>> \in Seq(S) /\ Len(<<a>>) = 1 /\ Len(<<b>>) = 1
      /\ <<a>>[1] = a /\ <<b>>[1] = b /\ 1 \in 1 .. 1 /\ 1 + 1 = 2
  OBVIOUS
<1>2. /\ <<a>> \o <<b>> \in Seq(S) /\ Len(<<a>> \o <<b>>) = Len(<<a>>) + Len(<<b>>)
      /\ \A i \in 1 .. Len(<<a>>) : (<<a>> \o <<b>>)[i] = <<a>>[i]
      /\ \A i \in 1 .. Len(<<b>>) : (<<a>> \o <<b>>)[Len(<<a>>) + i] = <<b>>[i]
  BY <1>1, Joined
<1>3. PICK x \in Seq(S) : x = <<a>> \o <<b>> /\ Len(x) = 2 /\ x[1] = a /\ x[2] = b
  BY <1>1, <1>2
<1>4. x = <<a, b>>
  <2>1. <<a, b>> \in Seq(S) /\ Len(<<a, b>>) = 2 /\ <<a, b>>[1] = a /\ <<a, b>>[2] = b
    OBVIOUS
  <2>2. \A i \in 1 .. 2 : i = 1 \/ i = 2
    OBVIOUS
  <2>3. \A i \in 1 .. Len(x) : x[i] = <<a, b>>[i]
    BY <1>3, <2>1, <2>2
  <2>. QED  BY <1>3, <2>1, <2>3, SeqEqual
<1>. QED  BY <1>3, <1>4

\* The marker, and the text of an answer.
LEMMA MarkerFacts ==
  /\ Marker \in Seq(Units) /\ Len(Marker) = 3 /\ Marker # <<>>
  /\ \A j \in 1 .. 3 : Marker[j] = "N" <=> j = 3
  /\ \A n \in Nat : /\ Text(n) \in Seq(Units) /\ Len(Text(n)) = 1 + n /\ Text(n) # <<>>
                    /\ \A j \in 1 .. 1 + n : Text(n)[j] = "json"
<1>1. Marker \in Seq(Units) /\ Len(Marker) = 3 /\ Marker # <<>>
  BY DEF Marker, Units
<1>2. \A j \in 1 .. 3 : Marker[j] = "N" <=> j = 3
  <2>1. Marker[1] = "E1" /\ Marker[2] = "E2" /\ Marker[3] = "N"
    BY DEF Marker
  <2>2. \A j \in 1 .. 3 : j = 1 \/ j = 2 \/ j = 3
    OBVIOUS
  <2>. QED  BY <2>1, <2>2
<1>3. ASSUME NEW n \in Nat
      PROVE  /\ Text(n) \in Seq(Units) /\ Len(Text(n)) = 1 + n /\ Text(n) # <<>>
             /\ \A j \in 1 .. 1 + n : Text(n)[j] = "json"
  <2>1. Text(n) = [i \in 1 .. 1 + n |-> "json"] /\ 1 + n \in Nat
    BY DEF Text
  <2>2. Text(n) \in Seq(Units) /\ Len(Text(n)) = 1 + n
    BY <2>1, IsASeq DEF Units
  <2>3. Text(n) # <<>>
    BY <2>2
  <2>. QED  BY <2>1, <2>2, <2>3
<1>. QED  BY <1>1, <1>2, <1>3

\* The marker cannot be in a text, nor in what comes before it.
LEMMA NoMarkerIn ==
  ASSUME NEW chunk, \A i \in 1 .. Len(chunk) : chunk[i] = "json", Len(chunk) \in Nat
  PROVE  ~HasMarker(chunk)
<1>1. \A i \in 1 .. Len(chunk) - 1 : i \in 1 .. Len(chunk)
  OBVIOUS
<1>. QED  BY <1>1 DEF HasMarker

\* What one recv returns.
LEMMA ReceivedFacts ==
  ASSUME NEW S, NEW s \in Seq(S), s # <<>>, NEW size \in Nat \ {0}, NEW n \in Received(s, size)
  PROVE  /\ Len(s) \in Nat \ {0} /\ n \in 1 .. Len(s) /\ n <= size
         /\ net = "whole" /\ Len(s) <= size => n = Len(s)
<1>1. Len(s) \in Nat \ {0}
  OBVIOUS
<1>2. Min2(size, Len(s)) \in 1 .. Len(s) /\ Min2(size, Len(s)) <= size
  BY <1>1 DEF Min2
<1>3. n \in 1 .. Min2(size, Len(s)) /\ (net = "whole" => n = Min2(size, Len(s)))
  <2>1. n \in IF net = "whole" THEN {Min2(size, Len(s))} ELSE 1 .. Min2(size, Len(s))
    BY DEF Received
  <2>. QED  BY <1>2, <2>1
<1>4. Len(s) <= size => Min2(size, Len(s)) = Len(s)
  BY <1>1 DEF Min2
<1>. QED  BY <1>1, <1>2, <1>3, <1>4

-----------------------------------------------------------------------------
(* Answers. *)

\* What the uuid variable holds at an id, and what it held before the first.
LEMMA UuidFacts ==
  ASSUME NEW ids \in Seq(Ids), stack \in Ids, NEW i \in 0 .. Len(ids)
  PROVE  UuidAt(ids, i) \in Ids /\ (i > 0 /\ ids[i] # NoHost => UuidAt(ids, i) = ids[i])
<1>. DEFINE P == Parsed(ids, i)
<1>1. P \in SUBSET (1 .. i) /\ i \in Nat /\ UuidAt(ids, i) = IF P = {} THEN stack ELSE ids[Max(P)]
  BY DEF Parsed, UuidAt
<1>2. i > 0 /\ ids[i] # NoHost => i \in P
  BY DEF Parsed
<1>. HIDE DEF P
<1>3. CASE P = {}
  BY <1>1, <1>2, <1>3
<1>4. CASE P # {}
  <2>1. \E m \in P : \A k \in P : m >= k
    BY <1>1, <1>4, GreatestNumber
  <2>2. Max(P) \in P /\ \A k \in P : Max(P) >= k
    BY <2>1 DEF Max
  <2>3. PICK m \in P : m = Max(P) /\ \A k \in P : m >= k
    BY <2>2
  <2>4. m \in 1 .. i /\ m \in 1 .. Len(ids)
    BY <1>1
  <2>5. ids[m] \in Ids
    BY <2>4
  <2>6. i \in P => m = i
    BY <1>1, <2>3, <2>4
  <2>. QED  BY <1>1, <1>2, <1>4, <2>3, <2>5, <2>6
<1>. QED  BY <1>3, <1>4

\* An entry is under an id of the query, and the record of that host.
LEMMA EntryFacts ==
  ASSUME NEW ids \in Seq(Ids), stack \in Ids
  PROVE  /\ Entries(ids) \in Seq(Entry)
         /\ Len(Entries(ids)) \in Nat /\ Len(Entries(ids)) <= Len(ids)
         /\ \A k \in 1 .. Len(Entries(ids)) :
              Entries(ids)[k].id # NoHost => Entries(ids)[k].host = Entries(ids)[k].id
<1>. DEFINE pairs == [i \in DOMAIN ids |-> [id |-> ids[i], host |-> UuidAt(ids, i)]]
            K == {i \in Hits(ids) : \A j \in Hits(ids) : ids[j] = ids[i] => j <= i}
<1>1. Entries(ids) = Selected(pairs, K)
  BY DEF Entries
<1>2. DOMAIN ids = 1 .. Len(ids) /\ Len(ids) \in Nat
  OBVIOUS
<1>3. ASSUME NEW i \in 1 .. Len(ids)
      PROVE  /\ ids[i] \in Ids /\ UuidAt(ids, i) \in Ids
             /\ ids[i] # NoHost => UuidAt(ids, i) = ids[i]
  <2>1. i \in 0 .. Len(ids) /\ i > 0
    OBVIOUS
  <2>. QED  BY <2>1, UuidFacts
<1>4. \A i \in 1 .. Len(ids) : /\ pairs[i] \in Entry
                               /\ pairs[i].id # NoHost => pairs[i].host = pairs[i].id
  <2>. TAKE i \in 1 .. Len(ids)
  <2>1. pairs[i] = [id |-> ids[i], host |-> UuidAt(ids, i)]
    BY <1>2
  <2>2. pairs[i].id = ids[i] /\ pairs[i].host = UuidAt(ids, i)
    BY <2>1
  <2>3. pairs[i] \in Entry
    BY <1>3, <2>1 DEF Entry
  <2>. QED  BY <1>3, <2>2, <2>3
<1>5. pairs \in Seq(Entry) /\ Len(pairs) = Len(ids)
  <2>1. pairs \in [1 .. Len(ids) -> Entry]
    BY <1>2, <1>4
  <2>. HIDE DEF pairs
  <2>2. pairs \in Seq(Entry)
    BY <1>2, <2>1, IsASeq
  <2>3. DOMAIN pairs = 1 .. Len(ids)
    BY <2>1
  <2>. QED  BY <1>2, <2>2, <2>3, LenProperties
<1>. HIDE DEF pairs, K
<1>6. Selected(pairs, K) \in Seq(Entry)
  BY <1>5, SelectedFacts
<1>7. Len(Selected(pairs, K)) \in Nat /\ Len(Selected(pairs, K)) <= Len(ids)
  BY <1>5, SelectedLength
<1>8. ASSUME NEW k \in 1 .. Len(Selected(pairs, K))
      PROVE  \E n \in 1 .. Len(ids) : Selected(pairs, K)[k] = pairs[n]
  <2>1. \E n \in 1 .. Len(pairs) :
          n \in K /\ Position(K, n) = k /\ Selected(pairs, K)[k] = pairs[n]
    BY <1>5, SelectedFacts
  <2>. QED  BY <1>5, <2>1
<1>. QED  BY <1>1, <1>4, <1>6, <1>7, <1>8

-----------------------------------------------------------------------------
(* Clients that a step leaves alone. *)

\* What the server has for the client stays the same, or there was nothing more.
Untouched(d) ==
  /\ phase'[d] = phase[d] /\ ask'[d] = ask[d] /\ up'[d] = up[d] /\ down'[d] = down[d]
  /\ got'[d] = got[d] /\ answer'[d] = answer[d] /\ result'[d] = result[d] /\ net' = net
  /\ serving' = d => serving = d /\ out' = out
  /\ Owed(d) => serving' = d

\* A step of others keeps what is known of a client.
LEMMA UntouchedClient ==
  ASSUME NEW d \in Clients, ClientInv(d), Untouched(d)
  PROVE  ClientInv(d)'
<1>1. Owed(d)' <=> Owed(d)
  BY DEF Untouched, Owed
<1>2. OneQuery(d)'
  BY <1>1 DEF ClientInv, Untouched, OneQuery, QueryLen
<1>3. InOrder(d)'
  BY <1>1 DEF ClientInv, Untouched, InOrder
<1>4. StartsWell(d)'
  BY <1>1 DEF ClientInv, Untouched, StartsWell, Owed
<1>5. Untorn(d)'
  <2>1. Fits(d)' <=> Fits(d)
    BY DEF Fits, Untouched
  <2>2. Owed(d) => out' = out
    BY DEF Untouched, Owed
  <2>. QED  BY <1>1, <2>1, <2>2 DEF ClientInv, Untouched, Untorn
<1>. QED  BY <1>2, <1>3, <1>4, <1>5 DEF ClientInv, Untouched
-----------------------------------------------------------------------------
(* Steps. *)

\* Steps of the listener and of the server that touch no query and no answer.
LEMMA InvIdle ==
  ASSUME QueryInv,
         UNCHANGED <<net, phase, request, ask, result, got, up, down, answer, serving, out,
                     unheard, stack, aborts, raced>>,
         on' \in BOOLEAN, server' = server \/ (server = "ready" /\ server' = "exited"),
         conn' \in [Clients -> {"none", "backlog", "open"}],
         known' \in SUBSET Hosts, merging' \in known' \cup {Nobody}
  PROVE  QueryInv'
<1>1. Typed'
  BY DEF QueryInv, Typed
<1>2. ServerInv'
  BY DEF QueryInv, ServerInv
<1>3. Polite'
  BY DEF QueryInv, Polite
<1>4. ASSUME NEW d \in Clients PROVE ClientInv(d)'
  <2>1. Untouched(d)
    BY DEF Untouched, Owed
  <2>. QED  BY <2>1, UntouchedClient DEF QueryInv
<1>. QED  BY <1>1, <1>2, <1>3, <1>4 DEF QueryInv

\* A client with a query on its way and nothing else.
LEMMA FreshClient ==
  ASSUME QueryInv, NEW c \in Clients, ClientInv(c), phase'[c] = "wait", ask'[c].kind \in Kinds,
         up'[c] = Numbers(QueryLen(ask'[c])), QueryLen(ask'[c]) \in Nat,
         down'[c] = <<>>, got'[c] = <<>>, answer'[c] = answer[c], result'[c] # "junk",
         serving' = serving, out' = out, ~Owed(c)
  PROVE  ClientInv(c)'
<1>1. Len(up'[c]) = QueryLen(ask'[c])
  BY DEF Numbers
<1>2. ~Owed(c)'
  BY DEF Owed
<1>3. Chunk \in Nat /\ Window \in Nat
  BY QueryAssumption
<1>4. QueryLen(ask'[c]) = QueryLen(ask[c])'
  BY DEF QueryLen
<1>5. OneQuery(c)'
  BY <1>1, <1>2, <1>4 DEF OneQuery, Kinds
<1>6. InOrder(c)'
  BY <1>2, <1>3 DEF InOrder
<1>7. StartsWell(c)'
  BY <1>2 DEF StartsWell
<1>8. Untorn(c)'
  BY <1>2, <1>3 DEF Untorn
<1>. QED  BY <1>5, <1>6, <1>7, <1>8 DEF ClientInv

\* The queries of the views are commands, with a length.
LEMMA QueryFacts ==
  ASSUME QueryInv, NEW c \in Clients
  PROVE  /\ FirstQuery(request[c]) \in [kind : Kinds, ids : Seq(Ids)]
         /\ DumpQuery \in [kind : Kinds, ids : Seq(Ids)]
         /\ \A q \in [kind : Kinds \cup {"none"}, ids : Seq(Ids)] :
              QueryLen(q) \in Nat \ {0} /\ Numbers(QueryLen(q)) \in Seq(Nat)
<1>1. PICK r : r = request[c] /\ r.view \in {"stats", "list", "dump", "query"} /\ r.ids \in Seq(Ids)
  <2>1. request[c] \in [view : {"stats", "list", "dump", "query"}, ids : Seq(Ids)]
    BY QueryAssumption DEF QueryInv, Typed, Ids
  <2>. QED  BY <2>1
<1>2. FirstQuery(r) \in [kind : Kinds, ids : Seq(Ids)]
  <2>1. CASE r.view \in {"stats", "list"}
    <3>1. FirstQuery(r) = [kind |-> r.view, ids |-> <<>>]
      BY <2>1 DEF FirstQuery
    <3>. QED  BY <2>1, <3>1 DEF Kinds
  <2>2. CASE r.view = "dump"
    BY <2>2 DEF FirstQuery, Kinds
  <2>3. CASE r.view = "query"
    BY <1>1, <2>3 DEF FirstQuery, Kinds
  <2>. QED  BY <1>1, <2>1, <2>2, <2>3
<1>3. DumpQuery \in [kind : Kinds, ids : Seq(Ids)]
  BY DEF DumpQuery, Kinds
<1>4. ASSUME NEW q \in [kind : Kinds \cup {"none"}, ids : Seq(Ids)]
      PROVE  QueryLen(q) \in Nat \ {0} /\ Numbers(QueryLen(q)) \in Seq(Nat)
  <2>1. Len(q.ids) \in Nat
    OBVIOUS
  <2>2. QueryLen(q) \in Nat \ {0}
    BY <2>1 DEF QueryLen
  <2>3. \A n \in Nat : Numbers(n) \in Seq(Nat)
    BY IsASeq DEF Numbers
  <2>. QED  BY <2>2, <2>3
<1>. QED  BY <1>1, <1>2, <1>3, <1>4

\* A view is called.
LEMMA InvCall ==
  ASSUME QueryInv, NEW c \in Clients, Call(c)
  PROVE  QueryInv'
<1>1. PICK q \in [kind : Kinds, ids : Seq(Ids)] :
        /\ q = FirstQuery(request[c])
        /\ ask' = [ask EXCEPT ![c] = q]
        /\ up' = [up EXCEPT ![c] = Numbers(QueryLen(q))]
        /\ got' = [got EXCEPT ![c] = <<>>]
  BY QueryFacts DEF Call, SendQuery
<1>2. /\ phase[c] = "new" /\ conn' = [conn EXCEPT ![c] = "backlog"]
      /\ phase' = [phase EXCEPT ![c] = "wait"]
      /\ UNCHANGED <<net, on, server, serving, out, unheard, stack, request, result, down, answer,
                     known, merging, aborts, raced>>
  BY DEF Call, serverVars, storeVars
<1>3. q \in [kind : Kinds \cup {"none"}, ids : Seq(Ids)] /\ q.kind \in Kinds
  OBVIOUS
<1>4. QueryLen(q) \in Nat /\ Numbers(QueryLen(q)) \in Seq(Nat)
  BY <1>3, QueryFacts
<1>5. Typed /\ ServerInv /\ Polite /\ \A d \in Clients : ClientInv(d)
  BY DEF QueryInv
<1>6. Typed'
  <2>1. /\ ask' \in [Clients -> [kind : Kinds \cup {"none"}, ids : Seq(Ids)]]
        /\ up' \in [Clients -> Seq(Nat)] /\ got' \in [Clients -> Seq(Units)]
    BY <1>1, <1>3, <1>4, <1>5, SMTT(30) DEF Typed
  <2>2. /\ phase' \in [Clients -> {"new", "wait", "done", "left"}]
        /\ conn' \in [Clients -> {"none", "backlog", "open"}]
    BY <1>2, <1>5 DEF Typed
  <2>. QED  BY <1>2, <1>5, <2>1, <2>2 DEF Typed
<1>7. ServerInv'
  BY <1>2, <1>5 DEF ServerInv
<1>8. /\ ask'[c] = q /\ up'[c] = Numbers(QueryLen(q)) /\ got'[c] = <<>> /\ phase'[c] = "wait"
      /\ \A d \in Clients \ {c} : /\ ask'[d] = ask[d] /\ up'[d] = up[d] /\ got'[d] = got[d]
                                  /\ phase'[d] = phase[d]
  BY <1>1, <1>2, <1>5 DEF Typed
<1>9. down[c] = <<>> /\ ~Owed(c) /\ serving # c
  BY <1>2, <1>5 DEF ClientInv, OneQuery
<1>10. Polite'
  BY <1>2, <1>5, <1>8, <1>9 DEF Polite
<1>11. ClientInv(c)'
  <2>1. result'[c] # "junk" /\ answer'[c] = answer[c]
    BY <1>2, <1>5 DEF ClientInv
  <2>. QED  BY <1>2, <1>3, <1>4, <1>5, <1>8, <1>9, <2>1, FreshClient
<1>12. ASSUME NEW d \in Clients, d # c PROVE ClientInv(d)'
  <2>1. Untouched(d)
    BY <1>2, <1>8, <1>12 DEF Untouched, Owed
  <2>. QED  BY <1>5, <2>1, UntouchedClient
<1>. QED  BY <1>6, <1>7, <1>10, <1>11, <1>12 DEF QueryInv

\* Sums of at most two, as the parts of a query have them.
LEMMA SmallNumbers ==
  \A k \in Nat : /\ k <= 2 /\ k # 2 => k <= 1
                 /\ k <= 1 /\ k # 0 => k = 1
                 /\ k <= 2 /\ k # 0 => k = 1 \/ k = 2
                 /\ k + 2 <= 2 => k = 0
                 /\ \A l \in {1, 2} : k + l <= 1 => k = 0 /\ l = 1
                 /\ k + 1 <= 2 => k <= 1 /\ k + 1 + 0 <= 2
OBVIOUS

\* What a client has, with what a recv adds to it.
LEMMA MsgFacts ==
  ASSUME NEW g \in Seq(Units), NEW h \in Seq(Units), h # <<>>,
         g # <<>> => g[1] # "N", g = <<>> => h[1] # "N"
  PROVE  /\ g \o h \in Seq(Units) /\ g \o h # <<>> /\ (g \o h)[1] # "N"
         /\ (g \o h)[Len(g \o h)] = h[Len(h)]
<1>1. /\ g \o h \in Seq(Units) /\ Len(g \o h) = Len(g) + Len(h)
      /\ \A i \in 1 .. Len(g) : (g \o h)[i] = g[i]
      /\ \A i \in 1 .. Len(h) : (g \o h)[Len(g) + i] = h[i]
  BY Joined
<1>2. Len(g) \in Nat /\ Len(h) \in Nat \ {0}
  OBVIOUS
<1>3. g \o h # <<>>
  BY <1>1, <1>2
<1>4. (g \o h)[Len(g \o h)] = h[Len(h)]
  BY <1>1, <1>2
<1>5. (g \o h)[1] # "N"
  <2>1. CASE g = <<>>
    <3>1. Len(g) = 0 /\ 1 \in 1 .. Len(h)
      BY <1>2, <2>1
    <3>2. (g \o h)[0 + 1] = h[1]
      BY <1>1, <3>1
    <3>. QED  BY <2>1, <3>2
  <2>2. CASE g # <<>>
    <3>1. 1 \in 1 .. Len(g)
      BY <2>2
    <3>. QED  BY <1>1, <2>2, <3>1
  <2>. QED  BY <2>1, <2>2
<1>. QED  BY <1>1, <1>3, <1>4, <1>5

\* What stays on its way to a client that reads is in order.
LEMMA RestInOrder ==
  ASSUME NEW c \in Clients, InOrder(c), serving' = serving, out' = out,
         NEW n \in Nat, Len(down[c]) \in Nat, Len(down'[c]) = Len(down[c]) - n,
         Len(down'[c]) \in Nat,
         \A i \in 1 .. Len(down[c]) - n : down'[c][i] = down[c][n + i]
  PROVE  InOrder(c)'
<1>1. Owed(c)' <=> Owed(c)
  BY DEF Owed
<1>2. ASSUME NEW i \in 1 .. Len(down'[c])
      PROVE  /\ n + i \in 1 .. Len(down[c]) /\ down'[c][i] = down[c][n + i]
             /\ n + i = Len(down[c]) => i = Len(down'[c])
  <2>1. n + i \in 1 .. Len(down[c]) /\ (n + i = Len(down[c]) => i = Len(down'[c]))
    OBVIOUS
  <2>. QED  BY <2>1
<1>3. Len(down'[c]) <= Window
  BY QueryAssumption DEF InOrder
<1>. QED  BY <1>1, <1>2, <1>3 DEF InOrder

\* A recv of the client without the marker.
LEMMA InvReadOn ==
  ASSUME QueryInv, NEW c \in Clients, ReadOn(c)
  PROVE  QueryInv'
<1>1. PICK s \in Seq(Units), g \in Seq(Units) : s = down[c] /\ g = got[c] /\ s # <<>>
  BY DEF QueryInv, Typed, ReadOn
<1>2. Chunk \in Nat \ {0} /\ Window \in Nat
  BY QueryAssumption
<1>3. PICK n \in Received(s, Chunk) :
        /\ got' = [got EXCEPT ![c] = @ \o SubSeq(s, 1, n)]
        /\ down' = [down EXCEPT ![c] = SubSeq(@, n + 1, Len(@))]
  BY <1>1 DEF ReadOn
<1>4. /\ phase[c] = "wait"
      /\ UNCHANGED <<net, on, server, serving, out, unheard, stack, conn, phase, request, ask,
                     result, up, answer, known, merging, aborts, raced>>
  BY DEF ReadOn, serverVars, storeVars
<1>5. Typed /\ ServerInv /\ Polite /\ \A d \in Clients : ClientInv(d)
  BY DEF QueryInv
<1>6. /\ Len(s) \in Nat \ {0} /\ n \in 1 .. Len(s) /\ n \in 0 .. Len(s)
      /\ net = "whole" /\ Len(s) <= Chunk => n = Len(s)
  BY <1>1, <1>2, <1>3, ReceivedFacts
<1>7. PICK head \in Seq(Units), rest \in Seq(Units) :
        /\ head = SubSeq(s, 1, n) /\ Len(head) = n /\ \A i \in 1 .. n : head[i] = s[i]
        /\ rest = SubSeq(s, n + 1, Len(s)) /\ Len(rest) = Len(s) - n
        /\ \A i \in 1 .. Len(s) - n : rest[i] = s[n + i]
  <2>1. /\ SubSeq(s, 1, n) \in Seq(Units) /\ Len(SubSeq(s, 1, n)) = n
        /\ \A i \in 1 .. n : SubSeq(s, 1, n)[i] = s[i]
        /\ SubSeq(s, n + 1, Len(s)) \in Seq(Units) /\ Len(SubSeq(s, n + 1, Len(s))) = Len(s) - n
        /\ \A i \in 1 .. Len(s) - n : SubSeq(s, n + 1, Len(s))[i] = s[n + i]
    BY <1>6, Cut
  <2>. QED  BY <2>1
<1>8. g \o head \in Seq(Units) /\ g \o head # <<>> /\ (g \o head)[1] # "N"
  <2>1. (g # <<>> => g[1] # "N") /\ (g = <<>> => s[1] # "N")
    BY <1>1, <1>4, <1>5 DEF ClientInv, StartsWell
  <2>2. head # <<>> /\ head[1] = s[1]
    BY <1>6, <1>7
  <2>. QED  BY <2>1, <2>2, MsgFacts
<1>9. /\ got'[c] = g \o head /\ down'[c] = rest
      /\ got' \in [Clients -> Seq(Units)] /\ down' \in [Clients -> Seq(Units)]
      /\ \A d \in Clients \ {c} : got'[d] = got[d] /\ down'[d] = down[d]
  BY <1>1, <1>3, <1>5, <1>7, <1>8 DEF Typed
<1>10. Typed'
  BY <1>4, <1>5, <1>9 DEF Typed
<1>11. ServerInv' /\ Polite'
  BY <1>4, <1>5 DEF ServerInv, Polite
<1>12. Owed(c)' <=> Owed(c)
  BY <1>4 DEF Owed
<1>14. ClientInv(c)'
  <2>1. OneQuery(c)'
    <3>1. up[c] = <<>> /\ Len(up[c]) <= QueryLen(ask[c])
      BY <1>1, <1>5 DEF ClientInv, OneQuery
    <3>2. QueryLen(ask[c])' = QueryLen(ask[c])
      BY <1>4 DEF QueryLen
    <3>. QED  BY <1>4, <3>1, <3>2 DEF OneQuery
  <2>2. InOrder(c)'
    <3>1. InOrder(c) /\ n \in Nat /\ Len(rest) \in Nat
      BY <1>5, <1>6, <1>7 DEF ClientInv
    <3>2. /\ Len(down[c]) \in Nat /\ Len(down'[c]) \in Nat /\ Len(down'[c]) = Len(down[c]) - n
          /\ \A i \in 1 .. Len(down[c]) - n : down'[c][i] = down[c][n + i]
      BY <1>1, <1>6, <1>7, <1>9, <3>1
    <3>. QED  BY <1>4, <3>1, <3>2, RestInOrder
  <2>3. StartsWell(c)'
    BY <1>8, <1>9 DEF StartsWell
  <2>4. Untorn(c)'
    <3>1. Fits(c)' <=> Fits(c)
      BY <1>4 DEF Fits
    <3>. SUFFICES ASSUME net = "whole", Fits(c)
                  PROVE  /\ Len(rest) <= Chunk
                         /\ ~Owed(c) /\ rest # <<>> => rest[Len(rest)] = "N"
                         /\ Owed(c) /\ Len(out) = 2 =>
                              rest = <<>> /\ Len(out[1]) + 3 <= Chunk /\ Len(out[1]) + 3 <= Window
                         /\ Owed(c) /\ Len(out) = 1 =>
                              /\ Len(out[1]) = 3 /\ Len(rest) + 3 <= Chunk /\ Len(rest) + 3 <= Window
                              /\ \A i \in 1 .. Len(rest) : rest[i] = "json"
      BY <1>4, <1>9, <1>12, <3>1 DEF Untorn
    <3>2. /\ Len(s) <= Chunk
          /\ Owed(c) /\ Len(out) = 2 => s = <<>>
          /\ Owed(c) /\ Len(out) = 1 => Len(out[1]) = 3 /\ Len(s) + 3 <= Chunk /\ Len(s) + 3 <= Window
      BY <1>1, <1>4, <1>5 DEF ClientInv, Untorn
    <3>3. Len(rest) = 0 /\ rest = <<>>
      BY <1>6, <1>7, <3>2
    <3>. QED  BY <1>1, <1>2, <1>6, <3>2, <3>3
  <2>. QED  BY <1>4, <1>5, <2>1, <2>2, <2>3, <2>4 DEF ClientInv
<1>15. ASSUME NEW d \in Clients, d # c PROVE ClientInv(d)'
  <2>1. Untouched(d)
    BY <1>4, <1>9, <1>15 DEF Untouched, Owed
  <2>. QED  BY <1>5, <2>1, UntouchedClient
<1>. QED  BY <1>10, <1>11, <1>14, <1>15 DEF QueryInv

\* A recv of the client with the marker.
LEMMA InvReadEnd ==
  ASSUME QueryInv, NEW c \in Clients, ReadEnd(c)
  PROVE  QueryInv'
<1>1. PICK s \in Seq(Units), g \in Seq(Units) : s = down[c] /\ g = got[c] /\ s # <<>>
  BY DEF QueryInv, Typed, ReadEnd
<1>2. Chunk \in Nat \ {0} /\ Window \in Nat
  BY QueryAssumption
<1>3. PICK n \in Received(s, Chunk) :
        /\ HasMarker(SubSeq(s, 1, n))
        /\ down' = [down EXCEPT ![c] = SubSeq(@, n + 1, Len(@))]
        /\ result' = [result EXCEPT ![c] = Chopped(g \o SubSeq(s, 1, n))]
  BY <1>1 DEF ReadEnd
<1>4. /\ phase[c] = "wait"
      /\ UNCHANGED <<net, on, server, serving, out, unheard, stack, conn, request, answer,
                     known, merging, aborts, raced>>
  BY DEF ReadEnd, serverVars, storeVars
<1>5. Typed /\ ServerInv /\ Polite /\ \A d \in Clients : ClientInv(d)
  BY DEF QueryInv
<1>6. /\ Len(s) \in Nat \ {0} /\ n \in 1 .. Len(s) /\ n \in 0 .. Len(s)
      /\ net = "whole" /\ Len(s) <= Chunk => n = Len(s)
  BY <1>1, <1>2, <1>3, ReceivedFacts
<1>7. PICK head \in Seq(Units), rest \in Seq(Units) :
        /\ head = SubSeq(s, 1, n) /\ Len(head) = n /\ \A i \in 1 .. n : head[i] = s[i]
        /\ rest = SubSeq(s, n + 1, Len(s)) /\ Len(rest) = Len(s) - n
        /\ \A i \in 1 .. Len(s) - n : rest[i] = s[n + i]
  <2>1. /\ SubSeq(s, 1, n) \in Seq(Units) /\ Len(SubSeq(s, 1, n)) = n
        /\ \A i \in 1 .. n : SubSeq(s, 1, n)[i] = s[i]
        /\ SubSeq(s, n + 1, Len(s)) \in Seq(Units) /\ Len(SubSeq(s, n + 1, Len(s))) = Len(s) - n
        /\ \A i \in 1 .. Len(s) - n : SubSeq(s, n + 1, Len(s))[i] = s[n + i]
    BY <1>6, Cut
  <2>. QED  BY <2>1
<1>8. PICK r \in {"whole", "cut"} : r = Chopped(g \o head) /\ (r = "whole" <=> s[n] = "N")
  <2>1. (g # <<>> => g[1] # "N") /\ (g = <<>> => s[1] # "N")
    BY <1>1, <1>4, <1>5 DEF ClientInv, StartsWell
  <2>2. head # <<>> /\ head[1] = s[1] /\ head[Len(head)] = s[n]
    <3>1. 1 \in 1 .. n /\ n \in 1 .. n /\ Len(head) # 0
      BY <1>6, <1>7
    <3>. QED  BY <1>7, <3>1
  <2>3. PICK m \in Seq(Units) : m = g \o head /\ m # <<>> /\ m[1] # "N" /\ m[Len(m)] = s[n]
    <3>1. /\ g \o head \in Seq(Units) /\ g \o head # <<>> /\ (g \o head)[1] # "N"
          /\ (g \o head)[Len(g \o head)] = head[Len(head)]
      BY <2>1, <2>2, MsgFacts
    <3>. QED  BY <2>2, <3>1
  <2>4. Head(m) = m[1] /\ Last(m) = m[Len(m)]
    BY <2>3 DEF Last
  <2>5. Chopped(m) = IF s[n] = "N" THEN "whole" ELSE "cut"
    BY <2>3, <2>4 DEF Chopped
  <2>. QED  BY <2>3, <2>5
<1>9. /\ result'[c] = r /\ down'[c] = rest
      /\ result' \in [Clients -> {"none", "whole", "cut", "junk"}]
      /\ down' \in [Clients -> Seq(Units)]
      /\ \A d \in Clients \ {c} : result'[d] = result[d] /\ down'[d] = down[d]
  BY <1>1, <1>3, <1>5, <1>7, <1>8 DEF Typed
<1>10. ServerInv'
  BY <1>4, <1>5 DEF ServerInv
<1>11. Owed(c)' <=> Owed(c)
  BY <1>4 DEF Owed
<1>12. \E i \in 1 .. Len(s) : s[i] # "json"
  <2>1. PICK i \in 1 .. n - 1 : head[i] = "E1"
    BY <1>3, <1>7 DEF HasMarker
  <2>2. i \in 1 .. n /\ i \in 1 .. Len(s)
    BY <1>6
  <2>. QED  BY <1>7, <2>1, <2>2
<1>13. serving = c => Len(out) <= 1
  <2>1. ~(serving = c /\ Len(out) = 2)
    BY <1>1, <1>5, <1>12 DEF ClientInv, InOrder
  <2>2. Len(out) \in Nat /\ Len(out) <= 2
    BY <1>5 DEF Typed, ServerInv
  <2>3. Len(out) # 2 => Len(out) <= 1
    BY <2>2, SmallNumbers
  <2>. QED  BY <2>1, <2>3
<1>14. up[c] = <<>> /\ Len(up[c]) <= QueryLen(ask[c])
  BY <1>1, <1>5 DEF ClientInv, OneQuery
<1>15. CASE request[c].view = "dump" /\ ask[c].kind = "list" /\ result'[c] = "whole"
  <2>1. PICK q \in [kind : Kinds, ids : Seq(Ids)] :
          /\ q = DumpQuery
          /\ ask' = [ask EXCEPT ![c] = q]
          /\ up' = [up EXCEPT ![c] = Numbers(QueryLen(q))]
          /\ got' = [got EXCEPT ![c] = <<>>]
          /\ phase' = phase
    BY <1>15, QueryFacts DEF ReadEnd, SendQuery
  <2>2. q \in [kind : Kinds \cup {"none"}, ids : Seq(Ids)] /\ q.kind \in Kinds
    OBVIOUS
  <2>3. QueryLen(q) \in Nat /\ Numbers(QueryLen(q)) \in Seq(Nat)
    BY <2>2, QueryFacts
  <2>4. Typed'
    <3>1. /\ ask' \in [Clients -> [kind : Kinds \cup {"none"}, ids : Seq(Ids)]]
          /\ up' \in [Clients -> Seq(Nat)] /\ got' \in [Clients -> Seq(Units)]
      <4>1. ask' \in [Clients -> [kind : Kinds \cup {"none"}, ids : Seq(Ids)]]
        BY <1>5, <2>1, <2>2 DEF Typed
      <4>2. up' \in [Clients -> Seq(Nat)]
        BY <1>5, <2>1, <2>3 DEF Typed
      <4>3. got' \in [Clients -> Seq(Units)]
        BY <1>5, <2>1 DEF Typed
      <4>. QED  BY <4>1, <4>2, <4>3
    <3>. QED  BY <1>4, <1>5, <1>9, <2>1, <3>1 DEF Typed
  <2>5. /\ ask'[c] = q /\ up'[c] = Numbers(QueryLen(q)) /\ got'[c] = <<>> /\ phase'[c] = "wait"
        /\ \A d \in Clients \ {c} : /\ ask'[d] = ask[d] /\ up'[d] = up[d] /\ got'[d] = got[d]
                                    /\ phase'[d] = phase[d]
    BY <1>4, <1>5, <2>1 DEF Typed
  <2>6. Polite'
    BY <1>4, <1>5, <2>1 DEF Polite
  <2>7. s[n] = "N"
    BY <1>8, <1>9, <1>15
  <2>8. n = Len(s) /\ ~Owed(c)
    BY <1>1, <1>5, <1>6, <2>7 DEF ClientInv, InOrder
  <2>9. rest = <<>>
    BY <1>6, <1>7, <2>8
  <2>10. ClientInv(c)'
    <3>1. result'[c] # "junk" /\ answer'[c] = answer[c] /\ ClientInv(c)
      BY <1>4, <1>5, <1>8, <1>9
    <3>. QED  BY <1>4, <1>5, <1>9, <2>2, <2>3, <2>5, <2>8, <2>9, <3>1, FreshClient
  <2>11. ASSUME NEW d \in Clients, d # c PROVE ClientInv(d)'
    <3>1. Untouched(d)
      BY <1>4, <1>9, <2>5, <2>11 DEF Untouched, Owed
    <3>. QED  BY <1>5, <3>1, UntouchedClient
  <2>. QED  BY <1>10, <2>4, <2>6, <2>10, <2>11 DEF QueryInv
<1>16. CASE ~(request[c].view = "dump" /\ ask[c].kind = "list" /\ result'[c] = "whole")
  <2>1. /\ phase' = [phase EXCEPT ![c] = "done"] /\ got' = [got EXCEPT ![c] = <<>>]
        /\ ask' = ask /\ up' = up
    BY <1>16 DEF ReadEnd
  <2>2. /\ phase' \in [Clients -> {"new", "wait", "done", "left"}]
        /\ got' \in [Clients -> Seq(Units)]
    BY <1>5, <2>1 DEF Typed
  <2>3. Typed'
    BY <1>4, <1>5, <1>9, <2>1, <2>2 DEF Typed
  <2>4. /\ phase'[c] = "done" /\ got'[c] = <<>>
        /\ \A d \in Clients \ {c} : got'[d] = got[d] /\ phase'[d] = phase[d]
    BY <1>5, <2>1 DEF Typed
  <2>5. Polite'
    <3>1. ASSUME aborts = 0, server = "busy", serving = c PROVE unheard + Len(out) <= 1
      <4>1. unheard = 0
        BY <1>4, <1>5, <3>1 DEF Polite
      <4>2. Len(out) \in Nat
        BY <1>5 DEF Typed
      <4>. QED  BY <1>13, <3>1, <4>1, <4>2
    <3>. QED  BY <1>4, <1>5, <2>4, <3>1 DEF Polite
  <2>6. ClientInv(c)'
    <3>1. OneQuery(c)'
      <4>1. QueryLen(ask[c])' = QueryLen(ask[c])
        BY <2>1 DEF QueryLen
      <4>. QED  BY <1>14, <2>1, <2>4, <4>1 DEF OneQuery
    <3>2. InOrder(c)'
      <4>1. InOrder(c) /\ n \in Nat /\ Len(rest) \in Nat
        BY <1>5, <1>6, <1>7 DEF ClientInv
      <4>. QED  BY <1>1, <1>4, <1>6, <1>7, <1>9, <4>1, RestInOrder, ZenonT(30)
    <3>3. StartsWell(c)'
      BY <2>4 DEF StartsWell
    <3>4. Untorn(c)'
      <4>1. Fits(c)' <=> Fits(c)
        BY <2>1 DEF Fits
      <4>2. ASSUME net = "whole", Fits(c) PROVE r = "whole"
        <5>1. /\ Len(s) <= Chunk
              /\ ~Owed(c) => s[Len(s)] = "N"
              /\ Owed(c) /\ Len(out) = 1 => \A i \in 1 .. Len(s) : s[i] = "json"
          BY <1>1, <1>4, <1>5, <4>2 DEF ClientInv, Untorn
        <5>2. n = Len(s)
          BY <1>6, <4>2, <5>1
        <5>3. ~Owed(c)
          <6>1. Owed(c) => Len(out) = 1
            <7>1. out \in Seq(Seq(Units))
              BY <1>5 DEF Typed
            <7>2. out # <<>> => Len(out) \in Nat \ {0}
              BY <7>1
            <7>3. ASSUME Owed(c) PROVE Len(out) = 1
              <8>1. Len(out) <= 1 /\ Len(out) \in Nat \ {0}
                BY <1>13, <7>2, <7>3 DEF Owed
              <8>. QED  BY <8>1, SmallNumbers
            <7>. QED  BY <7>3
          <6>. QED  BY <1>12, <5>1, <6>1
        <5>. QED  BY <1>8, <5>1, <5>2, <5>3
      <4>. QED  BY <1>4, <1>9, <2>4, <4>1, <4>2 DEF Untorn
    <3>. QED  BY <1>4, <1>5, <1>8, <1>9, <3>1, <3>2, <3>3, <3>4 DEF ClientInv
  <2>7. ASSUME NEW d \in Clients, d # c PROVE ClientInv(d)'
    <3>1. Untouched(d)
      BY <1>4, <1>9, <2>1, <2>4, <2>7 DEF Untouched, Owed
    <3>. QED  BY <1>5, <3>1, UntouchedClient
  <2>. QED  BY <1>10, <2>3, <2>5, <2>6, <2>7 DEF QueryInv
<1>. QED  BY <1>15, <1>16

\* A web worker is stopped while it waits.
LEMMA InvLeave ==
  ASSUME QueryInv, NEW c \in Clients, Leave(c)
  PROVE  QueryInv'
<1>1. /\ phase[c] = "wait" /\ aborts < MaxAborts /\ aborts' = aborts + 1
      /\ phase' = [phase EXCEPT ![c] = "left"]
      /\ got' = [got EXCEPT ![c] = <<>>] /\ down' = [down EXCEPT ![c] = <<>>]
      /\ UNCHANGED <<net, on, server, serving, out, unheard, stack, conn, request, ask, result, up,
                     answer, known, merging, raced>>
  BY DEF Leave, serverVars, storeVars
<1>2. Typed /\ ServerInv /\ Polite /\ \A d \in Clients : ClientInv(d)
  BY DEF QueryInv
<1>3. MaxAborts \in Nat /\ aborts \in 0 .. MaxAborts /\ Window \in Nat
  BY <1>2, QueryAssumption DEF Typed
<1>4. aborts' \in 0 .. MaxAborts /\ aborts' > 0 /\ aborts' # 0
  BY <1>1, <1>3
<1>5. /\ phase' \in [Clients -> {"new", "wait", "done", "left"}]
      /\ got' \in [Clients -> Seq(Units)] /\ down' \in [Clients -> Seq(Units)]
  BY <1>1, <1>2 DEF Typed
<1>6. Typed'
  BY <1>1, <1>2, <1>4, <1>5 DEF Typed
<1>7. ServerInv' /\ Polite'
  BY <1>1, <1>2, <1>4 DEF ServerInv, Polite
<1>8. /\ phase'[c] = "left" /\ got'[c] = <<>> /\ down'[c] = <<>>
      /\ \A d \in Clients \ {c} : phase'[d] = phase[d] /\ got'[d] = got[d] /\ down'[d] = down[d]
  BY <1>1, <1>2 DEF Typed
<1>9. ClientInv(c)'
  <2>1. QueryLen(ask[c])' = QueryLen(ask[c]) /\ (Owed(c)' <=> Owed(c))
    BY <1>1 DEF QueryLen, Owed
  <2>2. OneQuery(c)'
    BY <1>1, <1>2, <1>8, <2>1 DEF ClientInv, OneQuery
  <2>3. InOrder(c)' /\ StartsWell(c)' /\ Untorn(c)'
    BY <1>3, <1>8 DEF InOrder, StartsWell, Untorn
  <2>. QED  BY <1>1, <1>2, <2>2, <2>3 DEF ClientInv
<1>10. ASSUME NEW d \in Clients, d # c PROVE ClientInv(d)'
  <2>1. Untouched(d)
    BY <1>1, <1>8, <1>10 DEF Untouched, Owed
  <2>. QED  BY <1>2, <2>1, UntouchedClient
<1>. QED  BY <1>6, <1>7, <1>9, <1>10 DEF QueryInv

\* A recv of the server takes parts of the query off the connection.
LEMMA PartsFacts ==
  ASSUME QueryInv, NEW c \in Clients, NEW n, TakeParts(c, n)
  PROVE  /\ server = "ready" /\ serving = Nobody /\ out = <<>> /\ ~Owed(c)
         /\ up[c] # <<>> /\ phase[c] \in {"wait", "left"} /\ ask[c].kind \in Kinds
         /\ down[c] = <<>> /\ got[c] = <<>>
         /\ up' \in [Clients -> Seq(Nat)]
         /\ \A d \in Clients \ {c} : up'[d] = up[d]
         /\ Len(up'[c]) <= QueryLen(ask[c])
         /\ n = QueryLen(ask[c]) => up'[c] = <<>>
<1>1. /\ server = "ready" /\ up[c] # <<>> /\ n \in Received(up[c], BufLen)
      /\ up' = [up EXCEPT ![c] = SubSeq(@, n + 1, Len(@))]
  BY DEF TakeParts
<1>2. Typed /\ ServerInv /\ ClientInv(c) /\ BufLen \in Nat \ {0}
  BY QueryAssumption DEF QueryInv
<1>3. PICK s \in Seq(Nat) : s = up[c] /\ s # <<>>
  BY <1>1, <1>2 DEF Typed
<1>4. Len(s) \in Nat \ {0} /\ n \in 1 .. Len(s) /\ n \in 0 .. Len(s)
  BY <1>1, <1>2, <1>3, ReceivedFacts
<1>5. PICK rest \in Seq(Nat) : rest = SubSeq(s, n + 1, Len(s)) /\ Len(rest) = Len(s) - n
  BY <1>4, Cut, ZenonT(30)
<1>6. up' = [up EXCEPT ![c] = rest]
  BY <1>1, <1>3, <1>5
<1>7. up' \in [Clients -> Seq(Nat)] /\ up'[c] = rest /\ \A d \in Clients \ {c} : up'[d] = up[d]
  BY <1>2, <1>6 DEF Typed
<1>8. /\ Len(s) <= QueryLen(ask[c]) /\ phase[c] \in {"wait", "left"} /\ ask[c].kind # "none"
      /\ down[c] = <<>> /\ got[c] = <<>>
  BY <1>2, <1>3 DEF ClientInv, OneQuery
<1>9. ask[c] \in [kind : Kinds \cup {"none"}, ids : Seq(Ids)]
  BY <1>2 DEF Typed
<1>10. ask[c].kind \in Kinds
  BY <1>8, <1>9
<1>11. QueryLen(ask[c]) \in Nat
  BY <1>9, QueryFacts
<1>12. Len(rest) <= QueryLen(ask[c]) /\ (n = QueryLen(ask[c]) => rest = <<>>)
  <2>1. Len(rest) <= QueryLen(ask[c]) /\ (n = QueryLen(ask[c]) => Len(rest) = 0)
    BY <1>4, <1>5, <1>8, <1>11
  <2>. QED  BY <2>1
<1>13. serving = Nobody /\ out = <<>> /\ ~Owed(c)
  BY <1>1, <1>2 DEF ServerInv, Owed
<1>. QED  BY <1>1, <1>7, <1>8, <1>10, <1>12, <1>13

\* Parts that are not a whole query.
LEMMA InvDropParts ==
  ASSUME QueryInv, NEW c \in Clients, DropParts(c)
  PROVE  QueryInv'
<1>1. PICK n \in 1 .. BufLen :
        /\ TakeParts(c, n)
        /\ UNCHANGED <<net, on, conn, phase, request, ask, got, result, down, known, merging, aborts,
                       server, serving, out, unheard, stack, answer, raced>>
  BY DEF DropParts, TakeParts, clientVars, storeVars, serverVars
<1>2. Typed /\ ServerInv /\ Polite /\ \A d \in Clients : ClientInv(d)
  BY DEF QueryInv
<1>3. /\ ~Owed(c) /\ phase[c] \in {"wait", "left"} /\ ask[c].kind \in Kinds
      /\ down[c] = <<>> /\ got[c] = <<>> /\ up' \in [Clients -> Seq(Nat)]
      /\ Len(up'[c]) <= QueryLen(ask[c]) /\ \A d \in Clients \ {c} : up'[d] = up[d]
  BY <1>1, PartsFacts
<1>4. Typed'
  BY <1>1, <1>2, <1>3 DEF Typed
<1>5. ServerInv' /\ Polite'
  BY <1>1, <1>2 DEF ServerInv, Polite
<1>6. ClientInv(c)'
  <2>1. QueryLen(ask[c])' = QueryLen(ask[c]) /\ (Owed(c)' <=> Owed(c)) /\ (Fits(c)' <=> Fits(c))
    BY <1>1 DEF QueryLen, Owed, Fits
  <2>2. OneQuery(c)'
    BY <1>1, <1>3, <2>1 DEF OneQuery, Kinds
  <2>3. InOrder(c)'
    BY <1>1, <1>2, <2>1 DEF ClientInv, InOrder
  <2>4. StartsWell(c)'
    BY <1>1, <1>2, <2>1 DEF ClientInv, StartsWell
  <2>5. Untorn(c)'
    BY <1>1, <1>2, <2>1 DEF ClientInv, Untorn
  <2>. QED  BY <1>1, <1>2, <2>2, <2>3, <2>4, <2>5 DEF ClientInv
<1>7. ASSUME NEW d \in Clients, d # c PROVE ClientInv(d)'
  <2>1. Untouched(d)
    BY <1>1, <1>3, <1>7 DEF Untouched, Owed
  <2>. QED  BY <1>2, <2>1, UntouchedClient
<1>. QED  BY <1>4, <1>5, <1>6, <1>7 DEF QueryInv

\* The two sends of an answer; the text is no longer than Fits allows for.
LEMMA SendsFacts ==
  ASSUME QueryInv, NEW c \in Clients, ask[c].kind \in Kinds
  PROVE  \E t \in Seq(Units) :
           /\ Sends(ask[c]) = <<t, Marker>> /\ t # <<>> /\ t[1] # "N"
           /\ \A j \in 1 .. Len(t) : t[j] = "json"
           /\ Fits(c) => Len(t) + 3 <= Chunk /\ Len(t) + 3 <= Window
<1>1. ask[c] \in [kind : Kinds \cup {"none"}, ids : Seq(Ids)] /\ stack \in Ids /\ known \in SUBSET Hosts
  BY DEF QueryInv, Typed
<1>2. PICK q : q = ask[c] /\ q.kind \in Kinds /\ q.ids \in Seq(Ids)
  BY <1>1
<1>3. Cardinality(known) \in Nat /\ Cardinality(Hosts) \in Nat /\ Cardinality(known) <= Cardinality(Hosts)
  BY <1>1, QueryAssumption, FS_Subset, FS_CardinalityType
<1>4. Len(Entries(q.ids)) \in Nat /\ Len(Entries(q.ids)) <= Len(q.ids) /\ Len(q.ids) \in Nat
  BY <1>1, <1>2, EntryFacts
<1>5. Chunk \in Nat /\ Window \in Nat /\ Len(Marker) = 3
  BY QueryAssumption, MarkerFacts
<1>6. ASSUME NEW k \in Nat, NEW m \in Nat, k <= m, Sends(q) = <<Text(k), Marker>>,
             Fits(c) => 1 + m + 3 <= Chunk /\ 1 + m + 3 <= Window
      PROVE  \E t \in Seq(Units) :
               /\ Sends(ask[c]) = <<t, Marker>> /\ t # <<>> /\ t[1] # "N"
               /\ \A j \in 1 .. Len(t) : t[j] = "json"
               /\ Fits(c) => Len(t) + 3 <= Chunk /\ Len(t) + 3 <= Window
  <2>1. PICK t \in Seq(Units) : /\ t = Text(k) /\ Len(t) = 1 + k /\ t # <<>>
                                /\ \A j \in 1 .. 1 + k : t[j] = "json"
    BY MarkerFacts
  <2>2. t[1] # "N"
    <3>1. 1 \in 1 .. 1 + k
      OBVIOUS
    <3>. QED  BY <2>1, <3>1
  <2>3. Fits(c) => Len(t) + 3 <= Chunk /\ Len(t) + 3 <= Window
    BY <1>5, <1>6, <2>1
  <2>. QED  BY <1>2, <1>6, <2>1, <2>2, <2>3
<1>7. CASE q.kind = "list"
  <2>1. Sends(q) = <<Text(Cardinality(known)), Marker>>
    BY <1>7 DEF Sends
  <2>2. Fits(c) => 1 + Cardinality(Hosts) + 3 <= Chunk /\ 1 + Cardinality(Hosts) + 3 <= Window
    BY <1>2, <1>5, <1>7 DEF Fits
  <2>. QED  BY <1>3, <1>6, <2>1, <2>2
<1>8. CASE q.kind = "stats"
  <2>1. Sends(q) = <<Text(0), Marker>>
    BY <1>8 DEF Sends
  <2>2. Fits(c) => 1 + 0 + 3 <= Chunk /\ 1 + 0 + 3 <= Window
    BY <1>2, <1>5, <1>8 DEF Fits
  <2>3. 0 \in Nat /\ 0 <= 0
    OBVIOUS
  <2>. QED  BY <1>6, <2>1, <2>2, <2>3
<1>9. CASE q.kind = "query"
  <2>1. Sends(q) = <<Text(Len(Entries(q.ids))), Marker>>
    BY <1>9 DEF Sends
  <2>2. Fits(c) => 1 + Len(q.ids) + 3 <= Chunk /\ 1 + Len(q.ids) + 3 <= Window
    BY <1>2, <1>5, <1>9 DEF Fits
  <2>. QED  BY <1>4, <1>6, <2>1, <2>2
<1>. QED  BY <1>2, <1>7, <1>8, <1>9 DEF Kinds

\* A whole query is answered, or its answer ends the process.
LEMMA InvHandleQuery ==
  ASSUME QueryInv, NEW c \in Clients, HandleQuery(c)
  PROVE  QueryInv'
<1>1. PICK n \in 1 .. BufLen :
        /\ TakeParts(c, n) /\ Understood(c, n)
        /\ answer' = [answer EXCEPT ![c] = IF ask[c].kind = "query" THEN Entries(ask[c].ids) ELSE <<>>]
        /\ stack' = IF ask[c].kind = "query" THEN UuidAt(ask[c].ids, Len(ask[c].ids)) ELSE stack
        /\ raced' = (raced \/ merging \in ReadFor(ask[c]))
        /\ \/ server' = "busy" /\ serving' = c /\ out' = Sends(ask[c]) /\ unheard' = 0
           \/ /\ merging \in ReadFor(ask[c])
              /\ server' = "dead" /\ UNCHANGED <<serving, out, unheard>>
  BY DEF HandleQuery
<1>2. UNCHANGED <<net, on, conn, phase, request, ask, got, result, down, known, merging, aborts>>
  BY <1>1 DEF TakeParts, clientVars, storeVars
<1>3. Typed /\ ServerInv /\ Polite /\ \A d \in Clients : ClientInv(d)
  BY DEF QueryInv
<1>4. /\ server = "ready" /\ serving = Nobody /\ out = <<>> /\ ~Owed(c)
      /\ phase[c] \in {"wait", "left"} /\ ask[c].kind \in Kinds
      /\ down[c] = <<>> /\ got[c] = <<>> /\ up' \in [Clients -> Seq(Nat)]
      /\ up'[c] = <<>> /\ \A d \in Clients \ {c} : up'[d] = up[d]
  BY <1>1, PartsFacts DEF Understood
<1>5. ask[c] \in [kind : Kinds \cup {"none"}, ids : Seq(Ids)] /\ stack \in Ids
  BY <1>3 DEF Typed
<1>6. PICK ids \in Seq(Ids) : ids = ask[c].ids
  BY <1>5
<1>7. PICK new \in Seq(Entry) :
        /\ answer' = [answer EXCEPT ![c] = new]
        /\ \A i \in 1 .. Len(new) : new[i].id # NoHost => new[i].host = new[i].id
  <2>1. CASE ask[c].kind = "query"
    <3>1. /\ Entries(ids) \in Seq(Entry)
          /\ \A k \in 1 .. Len(Entries(ids)) :
               Entries(ids)[k].id # NoHost => Entries(ids)[k].host = Entries(ids)[k].id
      BY <1>5, EntryFacts
    <3>. QED  BY <1>1, <1>6, <2>1, <3>1
  <2>2. CASE ask[c].kind # "query"
    <3>1. <<>> \in Seq(Entry) /\ Len(<<>>) = 0
      OBVIOUS
    <3>2. \A i \in 1 .. Len(<<>>) : FALSE
      BY <3>1
    <3>3. answer' = [answer EXCEPT ![c] = <<>>]
      BY <1>1, <2>2
    <3>. QED  BY <3>1, <3>2, <3>3
  <2>. QED  BY <2>1, <2>2
<1>8. stack' \in Ids
  <2>1. Len(ids) \in 0 .. Len(ids)
    OBVIOUS
  <2>2. UuidAt(ids, Len(ids)) \in Ids
    BY <1>5, <2>1, UuidFacts
  <2>. QED  BY <1>1, <1>5, <1>6, <2>2
<1>9. /\ answer' \in [Clients -> Seq(Entry)] /\ answer'[c] = new
      /\ \A d \in Clients \ {c} : answer'[d] = answer[d]
  BY <1>3, <1>7 DEF Typed
<1>10. PICK t \in Seq(Units) :
         /\ Sends(ask[c]) = <<t, Marker>> /\ t # <<>> /\ t[1] # "N"
         /\ \A j \in 1 .. Len(t) : t[j] = "json"
         /\ Fits(c) => Len(t) + 3 <= Chunk /\ Len(t) + 3 <= Window
  BY <1>4, SendsFacts
<1>11. PICK o \in Seq(Seq(Units)) : o = <<t, Marker>> /\ Len(o) = 2 /\ o[1] = t /\ o[2] = Marker /\ o # <<>>
  <2>1. \A m \in Seq(Units) :
          /\ <<t, m>> \in Seq(Seq(Units)) /\ Len(<<t, m>>) = 2 /\ <<t, m>>[1] = t /\ <<t, m>>[2] = m
          /\ <<t, m>> # <<>>
    OBVIOUS
  <2>. QED  BY <2>1, MarkerFacts
<1>12. raced' \in BOOLEAN
  BY <1>1, <1>3 DEF Typed
<1>13. \A d \in Clients \ {c} : ~Owed(d)
  BY <1>4 DEF Owed
<1>14. (Fits(c)' <=> Fits(c)) /\ QueryLen(ask[c])' = QueryLen(ask[c])
  BY <1>2 DEF Fits, QueryLen
<1>15. Chunk \in Nat /\ Window \in Nat /\ QueryLen(ask[c]) \in Nat
  BY <1>5, QueryFacts, QueryAssumption
<1>16. Nobody \notin Clients
  BY QueryAssumption
<1>17. CASE server' = "busy" /\ serving' = c /\ out' = Sends(ask[c]) /\ unheard' = 0
  <2>1. out' = o
    BY <1>10, <1>11, <1>17
  <2>2. Typed'
    BY <1>2, <1>3, <1>4, <1>8, <1>9, <1>12, <1>17, <2>1 DEF Typed
  <2>3. ServerInv'
    BY <1>10, <1>11, <1>16, <1>17, <2>1 DEF ServerInv
  <2>4. Polite'
    BY <1>2, <1>3, <1>4, <1>17 DEF Polite
  <2>5. ClientInv(c)'
    <3>1. OneQuery(c)'
      BY <1>2, <1>4, <1>14, <1>15 DEF OneQuery
    <3>2. InOrder(c)'
      BY <1>2, <1>4, <1>15 DEF InOrder
    <3>3. StartsWell(c)'
      BY <1>2, <1>4, <1>10, <1>11, <2>1 DEF StartsWell
    <3>4. Untorn(c)'
      BY <1>2, <1>4, <1>10, <1>11, <1>14, <1>15, <2>1 DEF Untorn
    <3>. QED  BY <1>2, <1>3, <1>7, <1>9, <3>1, <3>2, <3>3, <3>4 DEF ClientInv
  <2>6. ASSUME NEW d \in Clients, d # c PROVE ClientInv(d)'
    <3>1. Untouched(d)
      BY <1>2, <1>4, <1>9, <1>13, <1>17, <2>6 DEF Untouched
    <3>. QED  BY <1>3, <3>1, UntouchedClient
  <2>. QED  BY <2>2, <2>3, <2>4, <2>5, <2>6 DEF QueryInv
<1>18. CASE merging \in ReadFor(ask[c]) /\ server' = "dead" /\ UNCHANGED <<serving, out, unheard>>
  <2>1. Typed'
    BY <1>2, <1>3, <1>4, <1>8, <1>9, <1>12, <1>18 DEF Typed
  <2>2. ServerInv'
    BY <1>3, <1>18 DEF ServerInv
  <2>3. Polite'
    BY <1>1, <1>2, <1>3, <1>18 DEF Polite
  <2>4. ClientInv(c)'
    <3>1. ~Owed(c)'
      BY <1>4, <1>18 DEF Owed
    <3>2. OneQuery(c)' /\ InOrder(c)' /\ StartsWell(c)' /\ Untorn(c)'
      <4>1. OneQuery(c)'
        BY <1>2, <1>4, <1>14, <1>15, <3>1 DEF OneQuery
      <4>2. InOrder(c)'
        BY <1>2, <1>4, <1>15 DEF InOrder
      <4>3. StartsWell(c)' /\ Untorn(c)'
        BY <1>2, <1>4, <1>15, <3>1 DEF StartsWell, Untorn
      <4>. QED  BY <4>1, <4>2, <4>3
    <3>. QED  BY <1>2, <1>3, <1>7, <1>9, <3>2 DEF ClientInv
  <2>5. ASSUME NEW d \in Clients, d # c PROVE ClientInv(d)'
    <3>1. Untouched(d)
      BY <1>2, <1>4, <1>9, <1>13, <1>18, <2>5 DEF Untouched
    <3>. QED  BY <1>3, <3>1, UntouchedClient
  <2>. QED  BY <2>1, <2>2, <2>3, <2>4, <2>5 DEF QueryInv
<1>. QED  BY <1>1, <1>17, <1>18

\* What the server has for a client is one list or two.
LEMMA OutFacts ==
  ASSUME QueryInv, server = "busy", out # <<>>
  PROVE  /\ serving \in Clients
         /\ Head(out) = out[1] /\ out[1] \in Seq(Units) /\ out[1] # <<>>
         /\ \/ Len(out) = 2 /\ Tail(out) = <<Marker>>
               /\ \A j \in 1 .. Len(out[1]) : out[1][j] = "json"
            \/ Len(out) = 1 /\ Tail(out) = <<>>
               /\ \A j \in 1 .. Len(out[1]) : out[1][j] = "N" <=> j = Len(out[1])
<1>1. Typed /\ ServerInv
  BY DEF QueryInv
<1>2. PICK o \in Seq(Seq(Units)) : o = out /\ o # <<>>
  BY <1>1 DEF Typed
<1>3. Len(o) \in Nat /\ Len(o) # 0 /\ Len(o) <= 2
  BY <1>1, <1>2 DEF ServerInv
<1>4. Len(o) = 1 \/ Len(o) = 2
  BY <1>3, SmallNumbers
<1>5. Head(o) = o[1] /\ o[1] \in Seq(Units)
  BY <1>2
<1>6. PICK tail \in Seq(Seq(Units)) :
        /\ tail = Tail(o) /\ Len(tail) = Len(o) - 1
        /\ \A i \in 1 .. Len(o) - 1 : tail[i] = o[i + 1]
  <2>1. /\ Tail(o) \in Seq(Seq(Units)) /\ Len(Tail(o)) = Len(o) - 1
        /\ \A i \in 1 .. Len(o) - 1 : Tail(o)[i] = o[i + 1]
    BY <1>2, HeadTailProperties
  <2>. QED  BY <2>1
<1>7. ASSUME Len(o) = 1 PROVE Tail(o) = <<>>
  <2>1. Len(tail) = 0
    BY <1>6, <1>7
  <2>2. tail = <<>>
    BY <2>1
  <2>. QED  BY <1>6, <2>2
<1>8. ASSUME Len(o) = 2 PROVE Tail(o) = <<Marker>>
  <2>1. o[2] = Marker
    BY <1>1, <1>2, <1>8 DEF ServerInv
  <2>2. Len(tail) = 1 /\ tail[1] = Marker
    <3>1. Len(tail) = 1 /\ 1 \in 1 .. Len(o) - 1 /\ 1 + 1 = 2
      BY <1>6, <1>8
    <3>. QED  BY <1>6, <2>1, <3>1
  <2>3. \A m \in Seq(Units) : Len(tail) = 1 /\ tail[1] = m => tail = <<m>>
    OBVIOUS
  <2>. QED  BY <1>6, <2>2, <2>3, MarkerFacts
<1>. QED  BY <1>1, <1>2, <1>4, <1>5, <1>7, <1>8 DEF ServerInv

\* Nobody is there to take the answer.
LEMMA InvSendUnheard ==
  ASSUME QueryInv, SendUnheard
  PROVE  QueryInv'
<1>1. /\ server = "busy" /\ out # <<>> /\ phase[serving] # "wait"
      /\ unheard' = unheard + 1
      /\ \/ out' = Tail(out) /\ server' = server
         \/ unheard > 0 /\ server' = "dead" /\ out' = out
      /\ UNCHANGED <<net, on, serving, stack, conn, phase, request, ask, got, result, up, down, answer,
                     known, merging, aborts, raced>>
  BY DEF SendUnheard, ClientOpen, clientVars, storeVars
<1>2. Typed /\ ServerInv /\ Polite /\ \A d \in Clients : ClientInv(d)
  BY DEF QueryInv
<1>3. PICK c \in Clients : c = serving /\ Owed(c)
  BY <1>1, OutFacts DEF Owed
<1>4. /\ (Len(out) = 2 /\ Tail(out) = <<Marker>>) \/ (Len(out) = 1 /\ Tail(out) = <<>>)
      /\ out \in Seq(Seq(Units)) /\ unheard \in Nat /\ unheard + Len(out) <= 2
      /\ <<Marker>> \in Seq(Seq(Units))
  <2>1. (Len(out) = 2 /\ Tail(out) = <<Marker>>) \/ (Len(out) = 1 /\ Tail(out) = <<>>)
    BY <1>1, OutFacts
  <2>2. out \in Seq(Seq(Units)) /\ unheard \in Nat /\ unheard + Len(out) <= 2
    BY <1>1, <1>2 DEF Typed, ServerInv
  <2>3. <<Marker>> \in Seq(Seq(Units))
    BY MarkerFacts
  <2>. QED  BY <2>1, <2>2, <2>3
<1>5. unheard' \in 0 .. 2 /\ Len(out') <= 2 /\ (aborts = 0 => unheard = 0 /\ Len(out) = 1)
  <2>1. aborts = 0 => unheard + Len(out) <= 1
    BY <1>1, <1>2, <1>3 DEF Polite
  <2>2. Len(out) \in {1, 2}
    BY <1>4
  <2>3. aborts = 0 => unheard = 0 /\ Len(out) = 1
    BY <1>4, <2>1, <2>2, SmallNumbers
  <2>4. unheard' \in 0 .. 2
    BY <1>1, <1>4, <2>2
  <2>5. Len(out') <= 2
    BY <1>1, <1>4
  <2>. QED  BY <2>3, <2>4, <2>5
<1>6. Typed'
  <2>1. out' \in Seq(Seq(Units))
    BY <1>1, <1>4
  <2>2. server' \in {"ready", "busy", "exited", "dead"}
    BY <1>1
  <2>. QED  BY <1>1, <1>2, <1>5, <2>1, <2>2 DEF Typed
<1>7. Nobody \notin Clients
  BY QueryAssumption
<1>8. ServerInv'
  <2>1. CASE out' = Tail(out) /\ server' = server
    <3>1. CASE Len(out) = 2 /\ Tail(out) = <<Marker>>
      <4>1. out' = <<Marker>>
        BY <2>1, <3>1
      <4>2. Len(out') = 1 /\ out'[1] = Marker
        BY <4>1
      <4>3. unheard = 0
        BY <1>4, <3>1, SmallNumbers
      <4>4. unheard' + Len(out') <= 2
        BY <1>1, <4>2, <4>3
      <4>5. server' = "busy" /\ serving' \in Clients /\ serving' # Nobody
        BY <1>1, <1>3, <1>7, <2>1
      <4>6. ~(Len(out') = 2) /\ Len(out') <= 2
        BY <4>2
      <4>. QED  BY <4>2, <4>4, <4>5, <4>6, MarkerFacts DEF ServerInv
    <3>2. CASE Len(out) = 1 /\ Tail(out) = <<>>
      <4>1. out' = <<>>
        BY <2>1, <3>2
      <4>2. Len(out') = 0
        BY <4>1
      <4>3. unheard' + Len(out') <= 2
        BY <1>1, <1>4, <3>2, <4>2
      <4>4. server' = "busy" /\ serving' \in Clients
        BY <1>1, <1>3, <2>1
      <4>5. ~(Len(out') = 2) /\ ~(Len(out') = 1) /\ Len(out') <= 2
        BY <4>2
      <4>. QED  BY <4>1, <4>3, <4>4, <4>5 DEF ServerInv
    <3>. QED  BY <1>4, <3>1, <3>2
  <2>2. CASE unheard > 0 /\ server' = "dead" /\ out' = out
    BY <1>1, <1>2, <1>3, <1>7, <2>2 DEF ServerInv
  <2>. QED  BY <1>1, <2>1, <2>2
<1>9. Polite'
  <2>1. CASE out' = Tail(out) /\ server' = server
    <3>1. aborts = 0 => unheard' + Len(out') <= 1
      <4>1. ASSUME aborts = 0 PROVE unheard' = 1 /\ Len(out') = 0
        BY <1>1, <1>4, <1>5, <2>1, <4>1
      <4>. QED  BY <4>1
    <3>. QED  BY <1>1, <1>2, <1>3, <2>1, <3>1 DEF Polite
  <2>2. CASE unheard > 0 /\ server' = "dead" /\ out' = out
    <3>1. aborts # 0 /\ aborts \in Nat
      <4>1. aborts # 0
        BY <1>5, <2>2
      <4>2. aborts \in Nat
        BY <1>2, QueryAssumption DEF Typed
      <4>. QED  BY <4>1, <4>2
    <3>. QED  BY <1>1, <1>2, <2>2, <3>1 DEF Polite
  <2>. QED  BY <1>1, <2>1, <2>2
<1>10. ClientInv(c)'
  <2>1. OneQuery(c)'
    <3>1. up[c] = <<>> /\ phase[c] # "new" /\ Len(up[c]) <= QueryLen(ask[c])
      BY <1>2, <1>3 DEF ClientInv, OneQuery
    <3>2. QueryLen(ask[c])' = QueryLen(ask[c])
      BY <1>1 DEF QueryLen
    <3>. QED  BY <1>1, <3>1, <3>2 DEF OneQuery
  <2>2. InOrder(c)'
    <3>1. /\ Len(out) = 2 => \A i \in 1 .. Len(down[c]) : down[c][i] = "json"
          /\ \A i \in 1 .. Len(down[c]) : down[c][i] # "N"
          /\ Len(down[c]) <= Window
      BY <1>2, <1>3 DEF ClientInv, InOrder
    <3>2. Len(out') = 2 => Len(out) = 2
      BY <1>1, <1>4
    <3>. QED  BY <1>1, <3>1, <3>2 DEF InOrder
  <2>3. StartsWell(c)'
    BY <1>1, <1>3 DEF StartsWell
  <2>4. Untorn(c)'
    <3>1. Fits(c)' <=> Fits(c)
      BY <1>1 DEF Fits
    <3>. QED  BY <1>1, <1>2, <1>3, <3>1 DEF ClientInv, Untorn
  <2>. QED  BY <1>1, <1>2, <2>1, <2>2, <2>3, <2>4 DEF ClientInv
<1>11. ASSUME NEW d \in Clients, d # c PROVE ClientInv(d)'
  <2>1. Untouched(d)
    BY <1>1, <1>3, <1>11 DEF Untouched, Owed
  <2>. QED  BY <1>2, <2>1, UntouchedClient
<1>. QED  BY <1>6, <1>8, <1>9, <1>10, <1>11 DEF QueryInv

\* The handler returns.
LEMMA InvAnswered ==
  ASSUME QueryInv, Answered
  PROVE  QueryInv'
<1>1. /\ server = "busy" /\ out = <<>> /\ server' = "ready" /\ serving' = Nobody /\ unheard' = 0
      /\ UNCHANGED <<net, on, out, stack, conn, phase, request, ask, got, result, up, down, answer,
                     known, merging, aborts, raced>>
  BY DEF Answered, clientVars, storeVars
<1>2. Typed /\ ServerInv /\ Polite /\ (\A d \in Clients : ClientInv(d)) /\ Nobody \notin Clients
  BY QueryAssumption DEF QueryInv
<1>3. Typed'
  BY <1>1, <1>2 DEF Typed
<1>4. ServerInv'
  BY <1>1 DEF ServerInv
<1>5. Polite'
  BY <1>1, <1>2 DEF Polite
<1>6. ASSUME NEW d \in Clients PROVE ClientInv(d)'
  <2>1. Untouched(d)
    BY <1>1, <1>2, <1>6 DEF Untouched, Owed
  <2>. QED  BY <1>2, <2>1, UntouchedClient
<1>. QED  BY <1>3, <1>4, <1>5, <1>6 DEF QueryInv

\* A send to a client that waits.
LEMMA InvSend ==
  ASSUME QueryInv, Send
  PROVE  QueryInv'
<1>1. /\ server = "busy" /\ out # <<>> /\ phase[serving] = "wait"
      /\ UNCHANGED <<net, on, server, serving, unheard, stack, conn, phase, request, ask, got, result,
                     up, answer, known, merging, aborts, raced>>
  BY DEF Send, ClientOpen, clientVars, storeVars
<1>2. Typed /\ ServerInv /\ Polite /\ \A d \in Clients : ClientInv(d)
  BY DEF QueryInv
<1>3. PICK c \in Clients : c = serving /\ Owed(c)
  BY <1>1, OutFacts DEF Owed
<1>4. PICK h \in Seq(Units) : h = Head(out) /\ h = out[1] /\ h # <<>> /\ Len(h) \in Nat \ {0}
  BY <1>1, OutFacts
<1>5. PICK s \in Seq(Units) : s = down[c] /\ Len(s) \in Nat /\ Len(s) <= Window
  BY <1>2 DEF Typed, ClientInv, InOrder
<1>6. Window \in Nat /\ Chunk \in Nat
  BY QueryAssumption
<1>7. PICK n \in 1 .. Len(h) :
        /\ n <= Window - Len(s) /\ (Len(h) <= Window - Len(s) => n = Len(h))
        /\ down' = [down EXCEPT ![c] = s \o SubSeq(h, 1, n)]
        /\ out' = (IF SubSeq(h, n + 1, Len(h)) = <<>> THEN <<>> ELSE <<SubSeq(h, n + 1, Len(h))>>) \o Tail(out)
  <2>. DEFINE m == Min2(Window - Len(s), Len(h))
  <2>1. /\ m > 0 /\ down' = [down EXCEPT ![c] = s \o SubSeq(h, 1, m)]
        /\ out' = (IF SubSeq(h, m + 1, Len(h)) = <<>> THEN <<>> ELSE <<SubSeq(h, m + 1, Len(h))>>) \o Tail(out)
    BY <1>3, <1>4, <1>5 DEF Send
  <2>2. m \in Int /\ m <= Window - Len(s) /\ m <= Len(h) /\ (Len(h) <= Window - Len(s) => m = Len(h))
    <3>1. \A a \in Nat, b \in Nat : /\ Min2(a, b) \in Int /\ Min2(a, b) <= a /\ Min2(a, b) <= b
                                    /\ b <= a => Min2(a, b) = b
      BY DEF Min2
    <3>2. Window - Len(s) \in Nat /\ Len(h) \in Nat
      BY <1>4, <1>5, <1>6
    <3>. QED  BY <3>1, <3>2
  <2>. HIDE DEF m
  <2>3. m \in 1 .. Len(h)
    BY <1>4, <2>1, <2>2
  <2>. QED  BY <2>1, <2>2, <2>3
<1>8. PICK head \in Seq(Units), rest \in Seq(Units) :
        /\ head = SubSeq(h, 1, n) /\ Len(head) = n /\ \A i \in 1 .. n : head[i] = h[i]
        /\ rest = SubSeq(h, n + 1, Len(h)) /\ Len(rest) = Len(h) - n
        /\ \A i \in 1 .. Len(h) - n : rest[i] = h[n + i]
  <2>1. n \in 0 .. Len(h)
    BY <1>4
  <2>2. /\ SubSeq(h, 1, n) \in Seq(Units) /\ Len(SubSeq(h, 1, n)) = n
        /\ \A i \in 1 .. n : SubSeq(h, 1, n)[i] = h[i]
        /\ SubSeq(h, n + 1, Len(h)) \in Seq(Units) /\ Len(SubSeq(h, n + 1, Len(h))) = Len(h) - n
        /\ \A i \in 1 .. Len(h) - n : SubSeq(h, n + 1, Len(h))[i] = h[n + i]
    BY <2>1, Cut
  <2>. QED  BY <2>2
<1>9. PICK t \in Seq(Units) :
        /\ t = s \o head /\ Len(t) = Len(s) + n
        /\ \A i \in 1 .. Len(s) : t[i] = s[i]
        /\ \A i \in 1 .. n : t[Len(s) + i] = h[i]
  <2>1. /\ s \o head \in Seq(Units) /\ Len(s \o head) = Len(s) + Len(head)
        /\ \A i \in 1 .. Len(s) : (s \o head)[i] = s[i]
        /\ \A i \in 1 .. Len(head) : (s \o head)[Len(s) + i] = head[i]
    BY Joined
  <2>2. PICK t \in Seq(Units) : t = s \o head
    BY <2>1
  <2>3. \A i \in 1 .. n : t[Len(s) + i] = h[i]
    BY <1>8, <2>1, <2>2
  <2>. QED  BY <1>8, <2>1, <2>2, <2>3
<1>10. /\ n \in Nat /\ Len(t) \in Nat /\ Len(t) <= Window /\ t # <<>>
       /\ \A i \in 1 .. Len(t) : i \in 1 .. Len(s) \/ \E j \in 1 .. n : i = Len(s) + j
  <2>1. n \in Nat /\ Len(t) \in Nat /\ Len(t) <= Window /\ Len(t) # 0
    BY <1>4, <1>5, <1>6, <1>7, <1>9
  <2>2. ASSUME NEW i \in 1 .. Len(t), i \notin 1 .. Len(s) PROVE \E j \in 1 .. n : i = Len(s) + j
    <3>1. i - Len(s) \in 1 .. n /\ i = Len(s) + (i - Len(s))
      BY <1>5, <1>9, <2>1, <2>2
    <3>. QED  BY <3>1
  <2>. QED  BY <2>1, <2>2
<1>11. /\ down' \in [Clients -> Seq(Units)] /\ down'[c] = t
       /\ \A d \in Clients \ {c} : down'[d] = down[d]
  BY <1>2, <1>7, <1>8, <1>9 DEF Typed
<1>12. (rest = <<>> <=> n = Len(h)) /\ Len(rest) \in Nat
  <2>1. Len(rest) = 0 <=> n = Len(h)
    BY <1>4, <1>8
  <2>. QED  BY <2>1
\* The four ways in which what the server has changes.
<1>13. \/ /\ Len(out) = 2 /\ \A j \in 1 .. Len(h) : h[j] = "json"
          /\ rest # <<>> /\ out' = <<rest, Marker>>
       \/ /\ Len(out) = 2 /\ \A j \in 1 .. Len(h) : h[j] = "json"
          /\ rest = <<>> /\ out' = <<Marker>>
       \/ /\ Len(out) = 1 /\ \A j \in 1 .. Len(h) : h[j] = "N" <=> j = Len(h)
          /\ rest # <<>> /\ out' = <<rest>>
       \/ /\ Len(out) = 1 /\ \A j \in 1 .. Len(h) : h[j] = "N" <=> j = Len(h)
          /\ rest = <<>> /\ out' = <<>>
  <2>1. out' = (IF rest = <<>> THEN <<>> ELSE <<rest>>) \o Tail(out)
    BY <1>7, <1>8
  <2>2. \A m \in Seq(Units) : <<rest>> \o <<m>> = <<rest, m>>
    BY Pair
  <2>3. \A m \in Seq(Units) : <<>> \o <<m>> = <<m>>
    OBVIOUS
  <2>4. <<rest>> \o <<>> = <<rest>> /\ <<>> \o <<>> = <<>>
    OBVIOUS
  <2>5. CASE Len(out) = 2 /\ Tail(out) = <<Marker>> /\ \A j \in 1 .. Len(h) : h[j] = "json"
    BY <2>1, <2>2, <2>3, <2>5, MarkerFacts
  <2>6. CASE Len(out) = 1 /\ Tail(out) = <<>> /\ \A j \in 1 .. Len(h) : h[j] = "N" <=> j = Len(h)
    BY <2>1, <2>4, <2>6
  <2>. QED  BY <1>1, <1>4, <2>5, <2>6, OutFacts
<1>14. \A j \in 1 .. Len(rest) : rest[j] = h[n + j] /\ n + j \in 1 .. Len(h) /\ (n + j = Len(h) <=> j = Len(rest))
  <2>1. ASSUME NEW j \in 1 .. Len(rest)
        PROVE  j \in 1 .. Len(h) - n /\ n + j \in 1 .. Len(h) /\ (n + j = Len(h) <=> j = Len(rest))
    BY <1>4, <1>8
  <2>. QED  BY <1>8, <2>1
<1>15. /\ out' \in Seq(Seq(Units)) /\ Len(out') <= Len(out)
       /\ Len(out') = 2 => out'[1] = rest /\ out'[2] = Marker /\ Len(out) = 2 /\ rest # <<>>
       /\ Len(out') = 1 => \/ out'[1] = Marker /\ Len(out) = 2 /\ rest = <<>>
                           \/ out'[1] = rest /\ Len(out) = 1 /\ rest # <<>>
       /\ (Len(out') \in {0, 1, 2}) /\ (Len(out') = 0 => out' = <<>>)
       /\ out' = <<>> => rest = <<>> /\ Len(out) = 1
  <2>1. \A m \in Seq(Units) : /\ <<rest, m>> \in Seq(Seq(Units)) /\ Len(<<rest, m>>) = 2
                              /\ <<rest, m>>[1] = rest /\ <<rest, m>>[2] = m /\ <<rest, m>> # <<>>
                              /\ <<m>> \in Seq(Seq(Units)) /\ Len(<<m>>) = 1 /\ <<m>>[1] = m
                              /\ <<m>> # <<>>
    OBVIOUS
  <2>2. <<>> \in Seq(Seq(Units)) /\ Len(<<>>) = 0 /\ (0 <= 1 /\ 1 <= 1 /\ 1 <= 2 /\ 2 <= 2)
    OBVIOUS
  <2>3. 0 # 1 /\ 0 # 2 /\ 1 # 2
    OBVIOUS
  <2>4. CASE Len(out) = 2 /\ rest # <<>> /\ out' = <<rest, Marker>>
    BY <2>1, <2>2, <2>3, <2>4, MarkerFacts
  <2>5. CASE Len(out) = 2 /\ rest = <<>> /\ out' = <<Marker>>
    BY <2>1, <2>2, <2>3, <2>5, MarkerFacts
  <2>6. CASE Len(out) = 1 /\ rest # <<>> /\ out' = <<rest>>
    BY <2>1, <2>2, <2>3, <2>6
  <2>7. CASE Len(out) = 1 /\ rest = <<>> /\ out' = <<>>
    BY <2>2, <2>3, <2>7
  <2>. QED  BY <1>13, <2>4, <2>5, <2>6, <2>7
<1>16. /\ Len(out) = 2 => \A j \in 1 .. Len(h) : h[j] = "json"
       /\ Len(out) = 1 => \A j \in 1 .. Len(h) : h[j] = "N" <=> j = Len(h)
       /\ Len(out) \in {1, 2}
  <2>1. 1 # 2
    OBVIOUS
  <2>. QED  BY <1>13, <2>1
<1>. HIDE DEF Units
<1>17. Typed'
  BY <1>1, <1>2, <1>11, <1>15 DEF Typed
<1>18. ServerInv'
  <2>1. unheard + Len(out') <= 2 /\ Len(out') <= 2
    <3>1. unheard \in Nat /\ unheard + Len(out) <= 2
      BY <1>1, <1>2 DEF Typed, ServerInv
    <3>. QED  BY <1>15, <1>16, <3>1
  <2>2. Len(out') = 2 => /\ out'[1] # <<>> /\ (\A j \in 1 .. Len(out'[1]) : out'[1][j] = "json")
                         /\ out'[2] = Marker
    BY <1>14, <1>15, <1>16
  <2>3. Len(out') = 1 => /\ out'[1] # <<>>
                         /\ \A j \in 1 .. Len(out'[1]) : out'[1][j] = "N" <=> j = Len(out'[1])
    <3>1. CASE out'[1] = Marker
      BY <3>1, MarkerFacts
    <3>2. CASE out'[1] = rest /\ Len(out) = 1 /\ rest # <<>>
      BY <1>14, <1>16, <3>2
    <3>. QED  BY <1>15, <3>1, <3>2
  <2>4. server' = "busy" /\ serving' \in Clients /\ serving' # Nobody
    BY <1>1, <1>3, QueryAssumption
  <2>. QED  BY <1>1, <2>1, <2>2, <2>3, <2>4 DEF ServerInv
<1>19. Polite'
  BY <1>1, <1>2, <1>3 DEF Polite
<1>20. Owed(c) /\ (Owed(c)' <=> out' # <<>>)
  BY <1>1, <1>3 DEF Owed
<1>21. /\ \A i \in 1 .. Len(s) : s[i] # "N"
       /\ Len(out) = 2 => \A i \in 1 .. Len(s) : s[i] = "json"
  BY <1>2, <1>3, <1>5 DEF ClientInv, InOrder
<1>22. OneQuery(c)'
  <2>1. up[c] = <<>> /\ phase[c] # "new" /\ Len(up[c]) <= QueryLen(ask[c])
    BY <1>2, <1>3 DEF ClientInv, OneQuery
  <2>2. QueryLen(ask[c])' = QueryLen(ask[c])
    BY <1>1 DEF QueryLen
  <2>. QED  BY <1>1, <2>1, <2>2 DEF OneQuery
<1>23. InOrder(c)'
  <2>1. Len(out') = 2 => \A i \in 1 .. Len(t) : t[i] = "json"
    <3>1. ASSUME Len(out) = 2, NEW i \in 1 .. Len(t) PROVE t[i] = "json"
      <4>1. CASE i \in 1 .. Len(s)
        BY <1>9, <1>21, <3>1, <4>1
      <4>2. ASSUME NEW j \in 1 .. n, i = Len(s) + j PROVE t[i] = "json"
        <5>1. j \in 1 .. Len(h)
          BY <1>4
        <5>. QED  BY <1>9, <1>16, <3>1, <4>2, <5>1
      <4>. QED  BY <1>10, <4>1, <4>2
    <3>. QED  BY <1>15, <3>1
  <2>2. ASSUME NEW i \in 1 .. Len(t), t[i] = "N" PROVE i = Len(t) /\ out' = <<>>
    <3>1. i \notin 1 .. Len(s)
      BY <1>9, <1>21, <2>2
    <3>2. PICK j \in 1 .. n : i = Len(s) + j
      BY <1>10, <3>1
    <3>3. j \in 1 .. Len(h) /\ h[j] = "N"
      BY <1>4, <1>9, <2>2, <3>2, SMTT(30)
    <3>4. Len(out) = 1 /\ j = Len(h)
      BY <1>16, <3>3
    <3>5. n = Len(h) /\ j = n
      BY <1>4, <3>4
    <3>6. i = Len(t)
      BY <1>9, <3>2, <3>5
    <3>7. rest = <<>> /\ Len(out') # 2 /\ Len(out') # 1
      BY <1>12, <1>15, <3>4, <3>5
    <3>. QED  BY <1>15, <3>6, <3>7
  <2>. QED  BY <1>10, <1>11, <1>20, <2>1, <2>2 DEF InOrder
<1>24. StartsWell(c)'
  <2>1. got[c] # <<>> => got[c][1] # "N"
    BY <1>1, <1>2, <1>3 DEF ClientInv, StartsWell
  <2>2. t[1] # "N" \/ got[c] # <<>>
    <3>1. CASE s = <<>>
      <4>1. Len(s) = 0 /\ 1 \in 1 .. n /\ 0 + 1 = 1
        BY <1>4, <3>1
      <4>2. t[1] = h[1]
        BY <1>9, <4>1
      <4>3. got[c] = <<>> => h[1] # "N"
        BY <1>1, <1>2, <1>3, <1>4, <1>5, <3>1 DEF ClientInv, StartsWell
      <4>. QED  BY <4>2, <4>3
    <3>2. CASE s # <<>>
      <4>1. 1 \in 1 .. Len(s)
        BY <3>2
      <4>. QED  BY <1>9, <1>21, <4>1
    <3>. QED  BY <3>1, <3>2
  <2>. QED  BY <1>1, <1>10, <1>11, <2>1, <2>2 DEF StartsWell
<1>25. Untorn(c)'
  <2>1. Fits(c)' <=> Fits(c)
    BY <1>1 DEF Fits
  <2>. SUFFICES ASSUME net = "whole", Fits(c)
                PROVE  /\ Len(t) <= Chunk
                       /\ out' = <<>> => t[Len(t)] = "N"
                       /\ Len(out') # 2
                       /\ Len(out') = 1 => /\ Len(out'[1]) = 3
                                           /\ Len(t) + 3 <= Chunk /\ Len(t) + 3 <= Window
                                           /\ \A i \in 1 .. Len(t) : t[i] = "json"
    BY <1>1, <1>3, <1>11, <1>20, <2>1 DEF Untorn
  <2>2. /\ Len(out) = 2 => s = <<>> /\ Len(h) + 3 <= Chunk /\ Len(h) + 3 <= Window
        /\ Len(out) = 1 => Len(h) = 3 /\ Len(s) + 3 <= Chunk /\ Len(s) + 3 <= Window
    BY <1>1, <1>2, <1>3, <1>4, <1>5 DEF ClientInv, Untorn
  <2>3. CASE Len(out) = 2
    <3>1. Len(s) = 0 /\ Len(h) <= Window - Len(s)
      BY <1>4, <1>6, <2>2, <2>3
    <3>2. n = Len(h) /\ rest = <<>>
      BY <1>7, <1>12, <3>1
    <3>3. Len(t) = Len(h) /\ Len(t) <= Chunk
      BY <1>4, <1>6, <1>9, <2>2, <2>3, <3>1, <3>2
    <3>4. out' # <<>> /\ Len(out') # 2 /\ (Len(out') = 1 => Len(out'[1]) = 3)
      BY <1>15, <2>3, <3>2, MarkerFacts, 1 # 2
    <3>5. \A i \in 1 .. Len(t) : t[i] = "json"
      <4>. TAKE i \in 1 .. Len(t)
      <4>1. i \in 1 .. n /\ i \in 1 .. Len(h) /\ Len(s) + i = i
        BY <3>1, <3>2, <3>3
      <4>. QED  BY <1>9, <1>16, <2>3, <4>1
    <3>. QED  BY <2>2, <2>3, <3>3, <3>4, <3>5
  <2>4. CASE Len(out) = 1
    <3>1. Len(h) <= Window - Len(s)
      <4>1. Len(h) = 3 /\ Len(s) + 3 <= Window
        BY <2>2, <2>4
      <4>2. 3 <= Window - Len(s)
        BY <1>5, <1>6, <4>1
      <4>. QED  BY <4>1, <4>2
    <3>2. n = Len(h) /\ rest = <<>>
      BY <1>7, <1>12, <3>1
    <3>3. Len(out') # 2 /\ Len(out') # 1
      BY <1>15, <2>4, <3>2, 1 # 2
    <3>4. Len(t) <= Chunk
      BY <1>5, <1>6, <1>9, <2>2, <2>4, <3>2
    <3>5. t[Len(t)] = "N"
      <4>1. n \in 1 .. n /\ n \in 1 .. Len(h)
        BY <1>4, <3>2
      <4>. QED  BY <1>9, <1>16, <2>4, <3>2, <4>1
    <3>. QED  BY <3>3, <3>4, <3>5
  <2>. QED  BY <1>16, <2>3, <2>4
<1>26. ClientInv(c)'
  BY <1>1, <1>2, <1>22, <1>23, <1>24, <1>25 DEF ClientInv
<1>27. ASSUME NEW d \in Clients, d # c PROVE ClientInv(d)'
  <2>1. Untouched(d)
    BY <1>1, <1>3, <1>11, <1>27 DEF Untouched, Owed
  <2>. QED  BY <1>2, <2>1, UntouchedClient
<1>. QED  BY <1>17, <1>18, <1>19, <1>26, <1>27 DEF QueryInv

-----------------------------------------------------------------------------
(* The invariant, and the properties of the runs. *)

\* At the start no client has asked and nothing was sent.
LEMMA InvInit ==
  Init => QueryInv
<1>. SUFFICES ASSUME Init PROVE QueryInv
  OBVIOUS
<1>1. PICK s \in Scenarios : net = s.net /\ request = s.request
  BY DEF Init
<1>2. net \in {"whole", "any"} /\ request \in [Clients -> Requests]
  BY <1>1, QueryAssumption
<1>3. MaxAborts \in Nat /\ Window \in Nat /\ Nobody \notin Clients
  BY QueryAssumption
<1>4. Len(<<>>) = 0 /\ \A i \in 1 .. Len(<<>>) : FALSE
  OBVIOUS
<1>5. Typed
  <2>1. /\ conn \in [Clients -> {"none", "backlog", "open"}]
        /\ phase \in [Clients -> {"new", "wait", "done", "left"}]
        /\ result \in [Clients -> {"none", "whole", "cut", "junk"}]
    BY DEF Init
  <2>2. ask \in [Clients -> [kind : Kinds \cup {"none"}, ids : Seq(Ids)]]
    BY DEF Init
  <2>3. /\ up \in [Clients -> Seq(Nat)] /\ answer \in [Clients -> Seq(Entry)]
        /\ down \in [Clients -> Seq(Units)] /\ got \in [Clients -> Seq(Units)]
    BY DEF Init
  <2>4. out \in Seq(Seq(Units)) /\ stack \in Ids /\ unheard \in 0 .. 2 /\ aborts \in 0 .. MaxAborts
    BY <1>3 DEF Init, Ids
  <2>. QED  BY <1>2, <2>1, <2>2, <2>3, <2>4 DEF Init, Typed
<1>6. ServerInv
  BY <1>4 DEF Init, ServerInv
<1>7. Polite
  BY DEF Init, Polite
<1>8. ASSUME NEW c \in Clients PROVE ClientInv(c)
  <2>1. /\ serving # c /\ ~Owed(c) /\ phase[c] = "new" /\ up[c] = <<>> /\ down[c] = <<>>
        /\ got[c] = <<>> /\ answer[c] = <<>> /\ result[c] = "none" /\ ask[c].kind = "none"
    BY <1>3 DEF Init, Owed
  <2>2. QueryLen(ask[c]) = 1 /\ 0 <= 1
    BY <2>1 DEF QueryLen
  <2>3. OneQuery(c)
    BY <1>4, <2>1, <2>2 DEF OneQuery
  <2>4. InOrder(c) /\ StartsWell(c) /\ Untorn(c)
    BY <1>3, <1>4, <2>1 DEF InOrder, StartsWell, Untorn
  <2>. QED  BY <1>4, <2>1, <2>3, <2>4 DEF ClientInv
<1>. QED  BY <1>5, <1>6, <1>7, <1>8 DEF QueryInv

\* Each step of the server, of a client and of TCP keeps the invariant.
LEMMA InvStep ==
  QueryInv /\ [Next]_vars => QueryInv'
<1>. SUFFICES ASSUME QueryInv, [Next]_vars PROVE QueryInv'
  OBVIOUS
<1>. USE DEF serverVars, clientVars, storeVars, restOfStore
<1>1. Typed
  BY DEF QueryInv
<1>2. ASSUME NEW h \in Hosts, AddHost(h) PROVE QueryInv'
  BY <1>1, <1>2, InvIdle DEF AddHost, Typed
<1>3. ASSUME NEW h \in Hosts, MergeBegin(h) PROVE QueryInv'
  BY <1>1, <1>3, InvIdle DEF MergeBegin, Typed
<1>4. ASSUME MergeEnd PROVE QueryInv'
  BY <1>1, <1>4, InvIdle DEF MergeEnd, Typed
<1>5. ASSUME NEW c \in Clients, Call(c) PROVE QueryInv'
  BY <1>5, InvCall
<1>6. ASSUME NEW c \in Clients, ReadOn(c) PROVE QueryInv'
  BY <1>6, InvReadOn
<1>7. ASSUME NEW c \in Clients, ReadEnd(c) PROVE QueryInv'
  BY <1>7, InvReadEnd
<1>8. ASSUME NEW c \in Clients, Leave(c) PROVE QueryInv'
  BY <1>8, InvLeave
<1>9. ASSUME NEW c \in Clients, Accept(c) PROVE QueryInv'
  <2>1. conn' \in [Clients -> {"none", "backlog", "open"}]
    BY <1>1, <1>9 DEF Accept, Typed
  <2>. QED  BY <1>1, <1>9, <2>1, InvIdle DEF Accept, Typed
<1>10. ASSUME NEW c \in Clients, HangUp(c) PROVE QueryInv'
  <2>1. conn' \in [Clients -> {"none", "backlog", "open"}]
    BY <1>1, <1>10 DEF HangUp, Typed
  <2>. QED  BY <1>1, <1>10, <2>1, InvIdle DEF HangUp, Typed
<1>11. ASSUME NEW c \in Clients, DropParts(c) PROVE QueryInv'
  BY <1>11, InvDropParts
<1>12. ASSUME NEW c \in Clients, HandleQuery(c) PROVE QueryInv'
  BY <1>12, InvHandleQuery
<1>13. ASSUME Send PROVE QueryInv'
  BY <1>13, InvSend
<1>14. ASSUME SendUnheard PROVE QueryInv'
  BY <1>14, InvSendUnheard
<1>15. ASSUME Answered PROVE QueryInv'
  BY <1>15, InvAnswered
<1>16. ASSUME Quitit PROVE QueryInv'
  BY <1>1, <1>16, InvIdle DEF Quitit, Typed
<1>17. ASSUME ServerExit PROVE QueryInv'
  BY <1>1, <1>17, InvIdle DEF ServerExit, Typed
<1>18. ASSUME UNCHANGED vars PROVE QueryInv'
  BY <1>1, <1>18, InvIdle DEF vars, Typed
<1>. QED  BY <1>2, <1>3, <1>4, <1>5, <1>6, <1>7, <1>8, <1>9, <1>10, <1>11, <1>12, <1>13, <1>14,
             <1>15, <1>16, <1>17, <1>18 DEF Next

\* The invariant holds in every reachable state.
LEMMA InvCorrect ==
  Spec => []QueryInv
<1>. QED  BY InvInit, InvStep, PTL DEF Spec

\* The data server and its clients keep to their types: with nothing under way the server is
\* with nobody, it makes two sends for a client that left at most before it has stopped, and
\* TCP never holds more for a client than it has room for.
THEOREM TypeCorrect ==
  Spec => []TypeOK
<1>1. QueryInv => TypeOK
  <2>. SUFFICES ASSUME QueryInv PROVE TypeOK
    OBVIOUS
  <2>1. Typed /\ ServerInv /\ \A c \in Clients : InOrder(c)
    BY DEF QueryInv, ClientInv
  <2>2. ASSUME NEW c \in Clients
        PROVE  /\ conn[c] \in {"none", "backlog", "open"}
               /\ phase[c] \in {"new", "wait", "done", "left"}
               /\ request[c] \in Requests
               /\ \A i \in DOMAIN down[c] : down[c][i] \in {"json", "E1", "E2", "N"}
               /\ Len(down[c]) <= Window
               /\ result[c] \in {"none", "whole", "cut", "junk"}
    <3>1. PICK s \in Seq(Units) : s = down[c]
      BY <2>1 DEF Typed
    <3>2. \A i \in DOMAIN s : s[i] \in {"json", "E1", "E2", "N"}
      BY DEF Units
    <3>. QED  BY <2>1, <3>1, <3>2 DEF Typed, InOrder
  <2>. QED  BY <2>1, <2>2 DEF Typed, ServerInv, TypeOK
<1>. QED  BY <1>1, InvCorrect, PTL

\* The data server ends the master only when a client left before its answer, so that the
\* second send raises SIGPIPE, or when parse_query read a record that the listener was
\* changing: whatever else the clients ask, and however TCP delivers it.
THEOREM SurvivesCorrect ==
  Spec => []SurvivesPoliteClients
<1>1. QueryInv => SurvivesPoliteClients
  <2>1. QueryInv => aborts \in Nat
    BY QueryAssumption DEF QueryInv, Typed
  <2>. QED  BY <2>1 DEF QueryInv, Polite, SurvivesPoliteClients
<1>. QED  BY <1>1, InvCorrect, PTL

\* An entry that parse_query files under a uuid is the record of that host: the uuid left over
\* from an earlier query shows only under an id that is no uuid.
THEOREM EntriesCorrect ==
  Spec => []EntriesOfTheirHosts
<1>1. QueryInv => EntriesOfTheirHosts
  <2>. SUFFICES ASSUME QueryInv, NEW c \in Clients, NEW i \in DOMAIN answer[c]
                PROVE  answer[c][i].id # NoHost => answer[c][i].host = answer[c][i].id
    BY DEF EntriesOfTheirHosts
  <2>1. answer[c] \in Seq(Entry)
    BY DEF QueryInv, Typed
  <2>2. i \in 1 .. Len(answer[c])
    BY <2>1
  <2>. QED  BY <2>2 DEF QueryInv, ClientInv
<1>. QED  BY <1>1, InvCorrect, PTL

\* get_json_msg never takes the NUL of one answer for the start of the next, for any size of
\* its recv and of TCP's window; and over a network that keeps together what is sent at once
\* it returns the whole of an answer that fits in one recv.
THEOREM AnswersCorrect ==
  Spec => []AnswersWhole
<1>1. QueryInv => AnswersWhole
  BY DEF QueryInv, ClientInv, Untorn, AnswersWhole
<1>. QED  BY <1>1, InvCorrect, PTL
=============================================================================
