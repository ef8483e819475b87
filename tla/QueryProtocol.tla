---------------------------- MODULE QueryProtocol ----------------------------
(***************************************************************************)
(* The data server of the master (master/mstr_datasrv.c), one thread that  *)
(* answers queries over TCP from the records that the listener goes on     *)
(* updating, and its client, the views of deadbeat/at_client/views.py.     *)
(* Texts are counted in units, the parts in which TCP may deliver them: a  *)
(* query is numbered parts; an answer is "json" parts, the last with its   *)
(* NUL, and the marker <<EOF>> in two parts with a NUL of its own.         *)
(***************************************************************************)
EXTENDS Integers, Sequences, FiniteSets, SequencesExt, Lists

CONSTANTS
  Clients, Hosts,
  NoHost,       \* an id that is not a uuid
  Requests,     \* what the views are asked for: [view, ids]
  BufLen,       \* units in the server's static buf (1024 bytes)
  Chunk,        \* units in one recv of the client (max_chunk_sz)
  Window,       \* units that TCP takes before send() blocks
  Scenarios,    \* how TCP delivers, "whole" sends or "any" parts of them, and a
                \* request for each client
  MaxAborts     \* bound: clients that leave without their answer

Nobody == "nobody"

Min2(m, n) == IF m < n THEN m ELSE n

ASSUME QueryAssumption ==
  /\ Requests \subseteq [view : {"stats", "list", "dump", "query"}, ids : Seq(Hosts \cup {NoHost})]
  /\ NoHost \notin Hosts /\ Nobody \notin Clients \cup Hosts /\ IsFiniteSet(Hosts)
  /\ BufLen \in Nat \ {0} /\ Chunk \in Nat \ {0} /\ Window \in Nat \ {0}
  /\ \A s \in Scenarios : s.net \in {"whole", "any"} /\ s.request \in [Clients -> Requests]
  /\ MaxAborts \in Nat

VARIABLES
  net,          \* how TCP delivers
  on,           \* the flag of that name
  server,       \* "ready" for select, "busy" with a client, "exited", or "dead"
  serving,      \* the client it is busy with
  out,          \* the send() calls it still has to make for it
  unheard,      \* how many it made since the client left
  stack,        \* what parse_query's uuid holds before it is parsed into
  conn,         \* client -> its connection: "none", "backlog", "open"
  phase,        \* client -> "new", "wait", "done", or "left" (without its answer)
  request,      \* client -> its request
  ask,          \* client -> the query it sent last
  up,           \* client -> parts of that query the server has not received
  down,         \* client -> units of answers the client has not received
  got,          \* client -> msg of get_json_msg
  answer,       \* client -> the entries of the last answer to it: id and whose record
  result,       \* client -> what get_json_msg made of it
  known,        \* hosts with a record
  merging,      \* the host whose record the listener is changing
  aborts,       \* clients that left without their answer (history)
  raced         \* a record was read while it was changed (history)

serverVars == <<server, serving, out, unheard, stack>>
clientVars == <<phase, request, ask, got, result>>
storeVars == <<known, merging>>
vars == <<net, on, serverVars, conn, clientVars, up, down, answer, storeVars, aborts, raced>>

Ids == Hosts \cup {NoHost}
Marker == <<"E1", "E2", "N">>

TypeOK ==
  /\ net \in {"whole", "any"} /\ on \in BOOLEAN
  /\ server \in {"ready", "busy", "exited", "dead"} /\ serving \in Clients \cup {Nobody}
  /\ server = "ready" => serving = Nobody /\ out = <<>>
  /\ unheard \in 0 .. 2 /\ stack \in Ids
  /\ \A c \in Clients :
       /\ conn[c] \in {"none", "backlog", "open"}
       /\ phase[c] \in {"new", "wait", "done", "left"}
       /\ request[c] \in Requests
       /\ \A i \in DOMAIN down[c] : down[c][i] \in {"json", "E1", "E2", "N"}
       /\ Len(down[c]) <= Window
       /\ result[c] \in {"none", "whole", "cut", "junk"}
  /\ known \subseteq Hosts /\ merging \in known \cup {Nobody}
  /\ aborts \in 0 .. MaxAborts /\ raced \in BOOLEAN

Init ==
  /\ \E s \in Scenarios : net = s.net /\ request = s.request
  /\ on = TRUE
  /\ server = "ready" /\ serving = Nobody /\ out = <<>> /\ unheard = 0 /\ stack = NoHost
  /\ conn = [c \in Clients |-> "none"]
  /\ phase = [c \in Clients |-> "new"]
  /\ ask = [c \in Clients |-> [kind |-> "none", ids |-> <<>>]]
  /\ up = [c \in Clients |-> <<>>] /\ down = [c \in Clients |-> <<>>]
  /\ got = [c \in Clients |-> <<>>] /\ answer = [c \in Clients |-> <<>>]
  /\ result = [c \in Clients |-> "none"]
  /\ known = {} /\ merging = Nobody
  /\ aborts = 0 /\ raced = FALSE

-----------------------------------------------------------------------------
(* The listener's work on the records (apply_assmb_buf). *)

restOfStore == <<net, on, serverVars, conn, clientVars, up, down, answer, aborts, raced>>

AddHost(h) ==
  /\ server # "dead" /\ on /\ merging = Nobody
  /\ h \notin known /\ known' = known \cup {h}
  /\ UNCHANGED <<merging, restOfStore>>

\* Mutated form of MergeBegin: a report of a host without a record.
MergeBegin_Unknown(h) ==
  /\ server # "dead" /\ on /\ merging = Nobody
  /\ merging' = h
  /\ UNCHANGED <<known, restOfStore>>

MergeBegin(h) ==
  /\ server # "dead" /\ on /\ merging = Nobody
  /\ h \in known /\ merging' = h
  /\ UNCHANGED <<known, restOfStore>>

MergeEnd ==
  /\ server # "dead" /\ merging # Nobody
  /\ merging' = Nobody
  /\ UNCHANGED <<known, restOfStore>>

-----------------------------------------------------------------------------
(* The client. *)

ClientOpen(c) == phase[c] = "wait"
Numbers(n) == [i \in 1 .. n |-> i]

\* A command is one part; every uuid takes the query further.
QueryLen(q) == IF q.kind = "query" THEN 1 + Len(q.ids) ELSE 1

FirstQuery(r) ==
  CASE r.view \in {"stats", "list"} -> [kind |-> r.view, ids |-> <<>>]
    [] r.view = "dump" -> [kind |-> "list", ids |-> <<>>]
    [] r.view = "query" -> [kind |-> "query", ids |-> r.ids]

\* at_master_dump takes the key "id" of each host in the list, where the server
\* sent "uuid"; the exception is passed over.
DumpQuery == [kind |-> "query", ids |-> <<>>]

SendQuery(c, q) ==
  /\ ask' = [ask EXCEPT ![c] = q]
  /\ up' = [up EXCEPT ![c] = Numbers(QueryLen(q))]
  /\ got' = [got EXCEPT ![c] = <<>>]

\* Mutated form of Call: the view closes its connection without waiting.
Call_NoWait(c) ==
  /\ phase[c] = "new" /\ server \in {"ready", "busy"}
  /\ conn' = [conn EXCEPT ![c] = "backlog"]
  /\ phase' = [phase EXCEPT ![c] = "left"]
  /\ SendQuery(c, FirstQuery(request[c]))
  /\ UNCHANGED <<net, on, serverVars, request, result, down, answer, storeVars, aborts, raced>>

\* A view is called: get_master_sock, send_query.
Call(c) ==
  /\ phase[c] = "new" /\ server \in {"ready", "busy"}
  /\ conn' = [conn EXCEPT ![c] = "backlog"]
  /\ phase' = [phase EXCEPT ![c] = "wait"]
  /\ SendQuery(c, FirstQuery(request[c]))
  /\ UNCHANGED <<net, on, serverVars, request, result, down, answer, storeVars, aborts, raced>>

\* What one recv with room for size units returns.
Received(s, size) ==
  LET most == Min2(size, Len(s)) IN IF net = "whole" THEN {most} ELSE 1 .. most

\* chunk[-12:].find(b'<<EOF>>'): nothing ever follows the marker but its NUL.
HasMarker(chunk) ==
  \E i \in 1 .. Len(chunk) - 1 : chunk[i] = "E1" /\ chunk[i + 1] = "E2"

\* Mutated form of Chopped: the NUL after the marker is not counted.
Chopped_NoNul(msg) ==
  IF msg # <<>> /\ Last(msg) = "N" THEN "junk"
  ELSE IF Head(msg) = "N" THEN "junk" ELSE "whole"

\* msg[:-9] takes away two NULs and the marker: all of it, or, when the last NUL
\* is still to come, the end of the answer; an older NUL may be in front.
Chopped(msg) ==
  CASE Head(msg) = "N" -> "junk"
    [] Head(msg) # "N" /\ Last(msg) = "N" -> "whole"
    [] OTHER -> "cut"

\* A turn of get_json_msg's loop without the marker: the text goes on.
ReadOn(c) ==
  /\ phase[c] = "wait" /\ down[c] # <<>>
  /\ \E n \in Received(down[c], Chunk) :
       LET chunk == SubSeq(down[c], 1, n) IN
       /\ ~HasMarker(chunk)
       /\ got' = [got EXCEPT ![c] = @ \o chunk]
       /\ down' = [down EXCEPT ![c] = SubSeq(@, n + 1, Len(@))]
  /\ UNCHANGED <<net, on, serverVars, conn, phase, request, ask, result, up, answer, storeVars,
                 aborts, raced>>

\* A turn with the marker: the answer is there, and at_master_dump asks again.
ReadEnd(c) ==
  /\ phase[c] = "wait" /\ down[c] # <<>>
  /\ \E n \in Received(down[c], Chunk) :
       LET chunk == SubSeq(down[c], 1, n) IN
       /\ HasMarker(chunk)
       /\ down' = [down EXCEPT ![c] = SubSeq(@, n + 1, Len(@))]
       /\ result' = [result EXCEPT ![c] = Chopped(got[c] \o chunk)]
  /\ IF request[c].view = "dump" /\ ask[c].kind = "list" /\ result'[c] = "whole"
       THEN SendQuery(c, DumpQuery) /\ UNCHANGED phase
       ELSE /\ phase' = [phase EXCEPT ![c] = "done"]
            /\ got' = [got EXCEPT ![c] = <<>>]
            /\ UNCHANGED <<ask, up>>
  /\ UNCHANGED <<net, on, serverVars, conn, request, answer, storeVars, aborts, raced>>

\* A web worker is stopped while it waits.
Leave(c) ==
  /\ phase[c] = "wait" /\ aborts < MaxAborts
  /\ phase' = [phase EXCEPT ![c] = "left"]
  /\ aborts' = aborts + 1
  /\ got' = [got EXCEPT ![c] = <<>>] /\ down' = [down EXCEPT ![c] = <<>>]
  /\ UNCHANGED <<net, on, serverVars, conn, request, ask, result, up, answer, storeVars, raced>>

-----------------------------------------------------------------------------
(* The server. *)

Accept(c) ==
  /\ server = "ready" /\ conn[c] = "backlog"
  /\ conn' = [conn EXCEPT ![c] = "open"]
  /\ UNCHANGED <<net, on, serverVars, clientVars, up, down, answer, storeVars, aborts, raced>>

\* recv returns 0: query_handler closes the socket.
HangUp(c) ==
  /\ server = "ready" /\ conn[c] = "open" /\ up[c] = <<>>
  /\ phase[c] \in {"done", "left"}
  /\ conn' = [conn EXCEPT ![c] = "none"]
  /\ UNCHANGED <<net, on, serverVars, clientVars, up, down, answer, storeVars, aborts, raced>>

\* uuid_parse leaves its result alone when the text is no uuid: these ids change it.
Parsed(ids, i) == {j \in 1 .. i : ids[j] # NoHost}

\* Mutated form of UuidAt: the record is looked up before the uuid is parsed.
UuidAt_Before(ids, i) ==
  IF Parsed(ids, i - 1) = {} THEN stack ELSE ids[Max(Parsed(ids, i - 1))]

\* The uuid variable at the i-th id.
UuidAt(ids, i) ==
  IF Parsed(ids, i) = {} THEN stack ELSE ids[Max(Parsed(ids, i))]

\* The ids for which get_obj_rec finds a record.
Hits(ids) == {i \in DOMAIN ids : UuidAt(ids, i) \in known}

\* parse_query: an entry for each of them, the last one under an id that is repeated.
Entries(ids) ==
  Selected([i \in DOMAIN ids |-> [id |-> ids[i], host |-> UuidAt(ids, i)]],
           {i \in Hits(ids) : \A j \in Hits(ids) : ids[j] = ids[i] => j <= i})

\* A text with n entries.
Text(n) == [i \in 1 .. 1 + n |-> "json"]

\* Mutated form of Sends: the answer to a query goes without ENDMSG.
Sends_NoMarker(q) ==
  IF q.kind = "query" THEN <<Text(Len(Entries(q.ids)))>>
  ELSE <<Text(IF q.kind = "list" THEN Cardinality(known) ELSE 0), Marker>>

\* The send() calls of q_list_objs, q_show_stats and query_handler: text and ENDMSG.
Sends(q) ==
  CASE q.kind = "list" -> <<Text(Cardinality(known)), Marker>>
    [] q.kind = "stats" -> <<Text(0), Marker>>
    [] q.kind = "query" -> <<Text(Len(Entries(q.ids))), Marker>>

\* The hosts whose records the answer is made from, without a lock.
ReadFor(q) ==
  CASE q.kind = "list" -> known
    [] q.kind = "stats" -> {}
    [] q.kind = "query" -> {UuidAt(q.ids, i) : i \in Hits(q.ids)}

\* Only a whole query from its first part on is understood.
Understood(c, n) == Head(up[c]) = 1 /\ n = QueryLen(ask[c])

TakeParts(c, n) ==
  /\ server = "ready" /\ conn[c] = "open" /\ up[c] # <<>>
  /\ n \in Received(up[c], BufLen)
  /\ up' = [up EXCEPT ![c] = SubSeq(@, n + 1, Len(@))]
  /\ UNCHANGED <<net, on, conn, clientVars, down, storeVars, aborts>>

\* query_handler without an answer: a query that is not whole.
DropParts(c) ==
  \E n \in 1 .. BufLen :
    /\ TakeParts(c, n) /\ ~Understood(c, n)
    /\ UNCHANGED <<serverVars, answer, raced>>

\* query_handler with an answer.  A record that is read while the listener changes
\* it can be read as either, or end the process.
HandleQuery(c) ==
  LET q == ask[c] IN
  \E n \in 1 .. BufLen :
    /\ TakeParts(c, n) /\ Understood(c, n)
    /\ answer' = [answer EXCEPT ![c] = IF q.kind = "query" THEN Entries(q.ids) ELSE <<>>]
    /\ stack' = IF q.kind = "query" THEN UuidAt(q.ids, Len(q.ids)) ELSE stack
    /\ raced' = (raced \/ merging \in ReadFor(q))
    /\ \/ server' = "busy" /\ serving' = c /\ out' = Sends(q) /\ unheard' = 0
       \/ /\ merging \in ReadFor(q)
          /\ server' = "dead" /\ UNCHANGED <<serving, out, unheard>>

\* send(), blocking, to a client that is there: what TCP has room for.
Send ==
  LET c == serving
      n == Min2(Window - Len(down[c]), Len(Head(out)))
      rest == SubSeq(Head(out), n + 1, Len(Head(out))) IN
  /\ server = "busy" /\ out # <<>> /\ ClientOpen(c) /\ n > 0
  /\ down' = [down EXCEPT ![c] = @ \o SubSeq(Head(out), 1, n)]
  /\ out' = (IF rest = <<>> THEN <<>> ELSE <<rest>>) \o Tail(out)
  /\ UNCHANGED <<net, on, server, serving, unheard, stack, conn, clientVars, up, answer,
                 storeVars, aborts, raced>>

\* send() to a client that is gone: the first is answered with a reset, and once
\* that is there the next raises SIGPIPE, which nobody handles.
SendUnheard ==
  /\ server = "busy" /\ out # <<>> /\ ~ClientOpen(serving)
  /\ unheard' = unheard + 1
  /\ \/ out' = Tail(out) /\ UNCHANGED server
     \/ unheard > 0 /\ server' = "dead" /\ UNCHANGED out
  /\ UNCHANGED <<net, on, serving, stack, conn, clientVars, up, down, answer, storeVars, aborts,
                 raced>>

Answered ==
  /\ server = "busy" /\ out = <<>>
  /\ server' = "ready" /\ serving' = Nobody /\ unheard' = 0
  /\ UNCHANGED <<net, on, out, stack, conn, clientVars, up, down, answer, storeVars, aborts, raced>>

Quitit ==
  /\ on /\ server # "dead" /\ on' = FALSE
  /\ UNCHANGED <<net, serverVars, conn, clientVars, up, down, answer, storeVars, aborts, raced>>

\* Mutated form of ServerExit: the listening socket is left alone, so that only a
\* new client ends select.
ServerExit_NotWoken ==
  /\ server = "ready" /\ ~on /\ \E c \in Clients : conn[c] = "backlog"
  /\ server' = "exited"
  /\ UNCHANGED <<net, on, serving, out, unheard, stack, conn, clientVars, up, down, answer,
                 storeVars, aborts, raced>>

\* The listening socket is shut down, which ends select.
ServerExit ==
  /\ server = "ready" /\ ~on /\ server' = "exited"
  /\ UNCHANGED <<net, on, serving, out, unheard, stack, conn, clientVars, up, down, answer,
                 storeVars, aborts, raced>>

Next ==
  \/ \E h \in Hosts : AddHost(h) \/ MergeBegin(h)
  \/ MergeEnd
  \/ \E c \in Clients : Call(c) \/ ReadOn(c) \/ ReadEnd(c) \/ Leave(c)
                       \/ Accept(c) \/ HangUp(c) \/ DropParts(c) \/ HandleQuery(c)
  \/ Send \/ SendUnheard \/ Answered
  \/ Quitit \/ ServerExit

Spec == Init /\ [][Next]_vars

\* Clients read; every pass of the select loop visits every socket.
Fairness ==
  /\ \A c \in Clients : /\ WF_vars(ReadOn(c) \/ ReadEnd(c))
                        /\ SF_vars(Accept(c)) /\ SF_vars(DropParts(c) \/ HandleQuery(c))
  /\ WF_vars(Send \/ SendUnheard) /\ WF_vars(Answered) /\ WF_vars(ServerExit)

FairSpec == Spec /\ Fairness

-----------------------------------------------------------------------------
(* Properties. *)

\* The data server ends the master only when a client left early (SIGPIPE) or when
\* it read a record that the listener was changing.
SurvivesPoliteClients == aborts = 0 /\ ~raced => server # "dead"

\* An entry of an answer is the record of the host it is filed under, for every id
\* that is a uuid.
EntriesOfTheirHosts ==
  \A c \in Clients : \A i \in DOMAIN answer[c] :
    answer[c][i].id # NoHost => answer[c][i].host = answer[c][i].id

\* The answer with its marker fits in one recv of the client.
Fits(c) ==
  LET entries == IF ask[c].kind = "query" THEN Len(ask[c].ids)
                 ELSE IF ask[c].kind = "list" THEN Cardinality(Hosts) ELSE 0
  IN 1 + entries + Len(Marker) <= Chunk /\ 1 + entries + Len(Marker) <= Window

\* The two answers that at_master_dump reads from one connection never run together;
\* and over a network that keeps together what is sent at once a view returns the
\* whole answer when it fits in one recv.  A longer one can be torn at its marker.
AnswersWhole ==
  \A c \in Clients :
    /\ result[c] # "junk"
    /\ net = "whole" /\ phase[c] = "done" /\ Fits(c) => result[c] = "whole"

\* A query that fits in the server's buffer gets its answer, whatever the other
\* clients ask, wait for or leave unread.
QueryAnswered ==
  \A c \in Clients :
    (phase[c] = "wait" /\ net = "whole" /\ Fits(c) /\ QueryLen(ask[c]) <= BufLen)
      ~> (phase[c] # "wait" \/ ~on \/ server = "dead")

\* The data server's thread ends after SIGINT or SIGTERM, so that it can be joined.
ServerEnds == ~on ~> (server \in {"exited", "dead"})
=============================================================================
