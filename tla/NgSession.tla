------------------------------ MODULE NgSession ------------------------------
(***************************************************************************)
(* The example: client.c and server.c over sockets (common.c).  Clients    *)
(* connect at any time and the server serves one connection after another. *)
(* A client writes its request and reads until the server closes; the      *)
(* server reads up to a zero tag and writes one response, whose end        *)
(* nothing but the close marks.  Clients can leave at any point, and may   *)
(* be started again.                                                       *)
(*                                                                         *)
(* A message is a sequence of parts, a socket a queue of at most Capacity  *)
(* of them in each direction.  What the parse function does with a request *)
(* is in NgBlocking; here it is the response that comes out.               *)
(***************************************************************************)
EXTENDS Naturals, Sequences

CONSTANTS
  Clients,
  Paths,     \* the paths a client can ask for, too long ones excepted
  Root,      \* the path that is listed for a request without one
  NoPath,    \* a request without a path
  Nobody,
  MaxFiles,  \* bound on the length of a listing
  Capacity   \* of a socket, in parts

ASSUME PathAssumption == Root \in Paths /\ NoPath \notin Paths
ASSUME ClientAssumption == Nobody \notin Clients
ASSUME BoundAssumption == MaxFiles \in Nat /\ Capacity \in Nat \ {0}

VARIABLES
  client,  \* what every client is doing
  asks,    \* the path it was started with
  toSend,  \* what it has still to send
  got,     \* what it has read
  up,      \* what is in its socket, to the server
  down,    \* and from the server
  open,    \* has the server not closed the connection?
  queue,   \* connections to be accepted, in order
  pc,      \* what the server does
  serves,  \* the connection it does it for
  path,    \* Path_holder.path
  reply    \* what it has still to send

clients == <<client, asks, toSend, got>>
server  == <<pc, serves, path, reply>>
vars    == <<clients, up, down, open, queue, server>>

\* GrpcRequest: the ids, the path within its data, and the zero tag
Request(p) == <<"ids", p, "zero">>

\* GrpcResponse: the ids and the status, the length of the data, the files.  A
\* response without a listing is an error status or has path_error set.
Listing(p, n) == <<"status", n>> \o [i \in 1 .. n |-> p]
Failure       == <<"status">>

Gone(k) == client[k] \in {"off", "listed", "failed"}

Init ==
  /\ client = [k \in Clients |-> "off"]
  /\ asks = [k \in Clients |-> NoPath]
  /\ toSend = [k \in Clients |-> <<>>]
  /\ got = [k \in Clients |-> <<>>]
  /\ up = [k \in Clients |-> <<>>]
  /\ down = [k \in Clients |-> <<>>]
  /\ open = [k \in Clients |-> FALSE]
  /\ queue = <<>>
  /\ pc = "accept"
  /\ serves = Nobody
  /\ path = Root
  /\ reply = <<>>

-----------------------------------------------------------------------------
(* The client                                                              *)

\* A client is started again once the server is done with its last connection;
\* one that comes earlier is another client.
Connect(k, p) ==
  /\ Gone(k)
  /\ ~ open[k]
  /\ pc # "dead"
  /\ client' = [client EXCEPT ![k] = "sending"]
  /\ asks' = [asks EXCEPT ![k] = p]
  /\ toSend' = [toSend EXCEPT ![k] = Request(p)]
  /\ got' = [got EXCEPT ![k] = <<>>]
  /\ up' = [up EXCEPT ![k] = <<>>]
  /\ down' = [down EXCEPT ![k] = <<>>]
  /\ open' = [open EXCEPT ![k] = TRUE]
  /\ queue' = Append(queue, k)
  /\ UNCHANGED server

Exit(k, how) ==
  /\ client' = [client EXCEPT ![k] = how]
  /\ UNCHANGED <<asks, toSend, got, up, down, open, queue, server>>

\* Nobody listens.
Refused(k) == pc = "dead" /\ Gone(k) /\ Exit(k, "failed")

\* The path is too long, encoding or decoding fails, or it is killed.
Leave(k) == ~ Gone(k) /\ Exit(k, "failed")

\* What is sent to a connection the server closed is lost; the client notices
\* that now (Leave), when it reads, or never.
Send(k) ==
  /\ client[k] = "sending"
  /\ ~ open[k] \/ Len(up[k]) < Capacity
  /\ up' = IF open[k] THEN [up EXCEPT ![k] = Append(@, Head(toSend[k]))] ELSE up
  /\ toSend' = [toSend EXCEPT ![k] = Tail(@)]
  /\ client' = [client EXCEPT ![k] = IF Len(toSend[k]) = 1 THEN "reading" ELSE @]
  /\ UNCHANGED <<asks, got, down, open, queue, server>>

Read(k) ==
  /\ client[k] = "reading"
  /\ down[k] # <<>>
  /\ got' = [got EXCEPT ![k] = Append(@, Head(down[k]))]
  /\ down' = [down EXCEPT ![k] = Tail(@)]
  /\ UNCHANGED <<client, asks, toSend, up, open, queue, server>>

\* pb_decode of the response, and of the data within it if there is any: bytes
\* with a length in front, of which not one may be missing.
Whole_anyLength(parts) == Len(parts) > 1  \* faulty: the length is not looked at

Whole(parts) == Len(parts) > 1 /\ Len(parts) = 2 + parts[2]

\* recv returns 0.  The files are printed, unless the response is none.
EndOfFile(k) ==
  /\ client[k] = "reading"
  /\ down[k] = <<>>
  /\ ~ open[k]
  /\ Exit(k, IF Whole(got[k]) THEN "listed" ELSE "failed")

-----------------------------------------------------------------------------
(* The server                                                              *)

Accept ==
  /\ pc = "accept"
  /\ queue # <<>>
  /\ serves' = Head(queue)
  /\ queue' = Tail(queue)
  /\ pc' = "ids"
  /\ UNCHANGED <<clients, up, down, open, path, reply>>

Responds(p) ==
  /\ pc' = "respond"
  /\ reply' \in {Failure} \cup {Listing(p, n) : n \in 0 .. MaxFiles}

\* The path of a request, which has a default; the parse function goes on
\* when the zero tag or the end of the stream comes after it.
Requested_raw(part) == part  \* faulty: no default

Requested(part) == IF part = NoPath THEN Root ELSE part

Receive ==
  /\ serves # Nobody
  /\ up[serves] # <<>>
  /\ up' = [up EXCEPT ![serves] = Tail(@)]
  /\ \/ pc = "ids" /\ pc' = "data" /\ UNCHANGED <<path, reply>>
     \/ pc = "data" /\ pc' = "zero" /\ path' = Requested(Head(up[serves]))
        /\ UNCHANGED reply
     \/ pc = "zero" /\ Responds(path) /\ UNCHANGED path
  /\ UNCHANGED <<clients, down, open, queue, serves>>

EndOfRequest_ignored ==  \* faulty: recv is tried again until the zero tag comes
  /\ pc \in {"ids", "data", "zero"}
  /\ up[serves] = <<>>
  /\ UNCHANGED vars

\* recv returns 0: bytes_left is 0 then, which ends a request that is whole.
EndOfRequest ==
  /\ pc \in {"ids", "data", "zero"}
  /\ up[serves] = <<>>
  /\ Gone(serves)
  /\ IF pc = "zero" THEN Responds(path)
     ELSE pc' = "respond" /\ reply' = Failure
  /\ UNCHANGED <<clients, up, down, open, queue, serves, path>>

\* The request does not decode: no memory, or the connection was reset.
Reject ==
  /\ pc \in {"ids", "data", "zero"}
  /\ pc' = "respond"
  /\ reply' = Failure
  /\ UNCHANGED <<clients, up, down, open, queue, serves, path>>

\* What is sent to a client that is gone is lost.
Respond ==
  /\ pc = "respond"
  /\ reply # <<>>
  /\ Gone(serves) \/ Len(down[serves]) < Capacity
  /\ down' = IF Gone(serves) THEN down
             ELSE [down EXCEPT ![serves] = Append(@, Head(reply))]
  /\ reply' = Tail(reply)
  /\ UNCHANGED <<clients, up, open, queue, pc, serves, path>>

\* send fails, or the encoding of the listing does.
BreakOff ==
  /\ pc = "respond"
  /\ reply # <<>>
  /\ reply' = <<>>
  /\ UNCHANGED <<clients, up, down, open, queue, pc, serves, path>>

\* A connection that is closed before all of it was read is reset: what the
\* client has not read yet may be lost.
Dropped(ks) ==
  /\ open' = [k \in Clients |-> open[k] /\ k \notin ks]
  /\ \/ down' = down
     \/ /\ \E k \in ks : up[k] # <<>>
        /\ down' = [k \in Clients |-> IF k \in ks /\ up[k] # <<>> THEN <<>> ELSE down[k]]

Close ==
  /\ pc = "respond"
  /\ reply = <<>>
  /\ Dropped({serves})
  /\ serves' = Nobody
  /\ pc' = "accept"
  /\ UNCHANGED <<clients, up, queue, path, reply>>

\* The server process ends, and with it every connection.
Dies ==
  /\ Dropped(Clients)
  /\ serves' = Nobody
  /\ pc' = "dead"
  /\ reply' = <<>>
  /\ queue' = <<>>
  /\ UNCHANGED <<clients, up, path>>

\* SIGPIPE: something is sent to a client that is gone.
Killed == pc = "respond" /\ reply # <<>> /\ Gone(serves) /\ Dies

AcceptFails == pc = "accept" /\ queue # <<>> /\ Dies

-----------------------------------------------------------------------------
ClientStep(k) == Send(k) \/ Read(k) \/ EndOfFile(k)
ServerStep == Accept \/ Receive \/ EndOfRequest \/ Respond \/ Close

Next ==
  \/ \E k \in Clients :
       \/ \E p \in Paths \cup {NoPath} : Connect(k, p)
       \/ Refused(k)
       \/ ClientStep(k)
       \/ Leave(k)
  \/ ServerStep
  \/ Reject \/ BreakOff \/ Killed \/ AcceptFails

\* Both programs go on while they can.  Nothing has to fail, and nobody has to
\* connect.
Spec ==
  /\ Init
  /\ [][Next]_vars
  /\ \A k \in Clients : WF_vars(ClientStep(k))
  /\ WF_vars(ServerStep)

-----------------------------------------------------------------------------
(* Properties                                                              *)

\* Every variable keeps its type.
TypeOK ==
  /\ client \in [Clients -> {"off", "sending", "reading", "listed", "failed"}]
  /\ asks \in [Clients -> Paths \cup {NoPath}]
  /\ open \in [Clients -> BOOLEAN]
  /\ \A k \in Clients : Len(up[k]) <= Capacity /\ Len(down[k]) <= Capacity
  /\ pc \in {"accept", "ids", "data", "zero", "respond", "dead"}
  /\ serves \in Clients \cup {Nobody}
  /\ path \in Paths

\* A client that lists a directory lists the one it asked for, and all of it:
\* an answer that broke off, was reset or was another client's is not printed.
ListedIsAskedFor ==
  \A k \in Clients :
    client[k] = "listed"
      => got[k] = Listing(IF asks[k] = NoPath THEN Root ELSE asks[k], Len(got[k]) - 2)

\* Every client that connects comes to an end, whatever becomes of the others
\* and of the server: each side waits for the other at some time, over sockets
\* that can be full, and all wait for the connection that is being served.
EveryClientEnds == \A k \in Clients : ~ Gone(k) ~> Gone(k)
=============================================================================
