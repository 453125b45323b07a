-------------------------- MODULE NgSessionProofs --------------------------
(***************************************************************************)
(* A client that lists a directory lists the one it asked for, and all of  *)
(* it, for any number of clients, sizes of sockets and lengths of          *)
(* listings.  No loop over the parts of a message is followed: each part   *)
(* is the right one for its place, wherever it is on its way.              *)
(***************************************************************************)
EXTENDS NgSession, SequenceTheorems, TLAPS

USE PathAssumption, ClientAssumption, BoundAssumption

Parts == Paths \cup {NoPath} \cup Nat \cup {"ids", "zero", "status"}

SequencesOK ==
  /\ toSend \in [Clients -> Seq(Parts)]
  /\ got \in [Clients -> Seq(Parts)]
  /\ up \in [Clients -> Seq(Parts)]
  /\ down \in [Clients -> Seq(Parts)]
  /\ queue \in Seq(Clients)
  /\ reply \in Seq(Parts)

Receiving == pc \in {"ids", "data", "zero"}

\* A connection is accepted once, and open until the server is done with it.
QueueInv ==
  /\ \A i \in 1 .. Len(queue) : open[queue[i]] /\ queue[i] # serves
  /\ \A i, j \in 1 .. Len(queue) : queue[i] = queue[j] => i = j
  /\ serves \in Clients => open[serves]
  /\ serves \in Clients <=> Receiving \/ pc = "respond"

\* The server has not read all of its request.
Waiting(k) ==
  (\E i \in 1 .. Len(queue) : queue[i] = k) \/ (serves = k /\ Receiving)

\* How many parts the server has read of it
Taken(k) ==
  IF serves # k \/ pc = "ids" THEN 0 ELSE IF pc = "data" THEN 1 ELSE 2

\* What a client has to send is the end of its request, and what is in its
\* socket what comes before that.
ToSendOK(k) ==
  client[k] = "sending" =>
    /\ Len(toSend[k]) \in 1 .. 3
    /\ \A i \in 1 .. Len(toSend[k]) :
         toSend[k][i] = Request(asks[k])[3 - Len(toSend[k]) + i]

UpOK(k) ==
  Waiting(k) =>
    /\ Taken(k) + Len(up[k]) <= 3
    /\ client[k] = "sending" => Taken(k) + Len(up[k]) + Len(toSend[k]) = 3
    /\ \A i \in 1 .. Len(up[k]) : up[k][i] = Request(asks[k])[Taken(k) + i]

RequestOK(k) == ToSendOK(k) /\ UpOK(k)

\* The part is right as the i-th of a response that lists p.
Fits(i, part, p) ==
  /\ i = 1 => part = "status"
  /\ i = 2 => part \in Nat
  /\ i > 2 => part = p

Follows(parts, from, p) == \A i \in 1 .. Len(parts) : Fits(from + i, parts[i], p)

Wanted(k) == Requested(asks[k])

\* What a client that goes on has read, what is in its socket and what is to be
\* sent to it are parts of a response that lists what it asked for.
ComingOK(k) ==
  /\ Follows(got[k], 0, Wanted(k))
  /\ Follows(down[k], Len(got[k]), Wanted(k))
  /\ serves = k /\ pc = "respond"
       => Follows(reply, Len(got[k]) + Len(down[k]), Wanted(k))

EarlyOK(k) == Waiting(k) => got[k] = <<>> /\ down[k] = <<>>

ListedOK(k) ==
  client[k] = "listed" => got[k] = Listing(Wanted(k), Len(got[k]) - 2)

ResponseOK(k) == EarlyOK(k) /\ (~ Gone(k) => ComingOK(k)) /\ ListedOK(k)

PathInv == pc = "zero" => path = Wanted(serves)

SessionInv ==
  /\ TypeOK
  /\ SequencesOK
  /\ QueueInv
  /\ PathInv
  /\ \A k \in Clients : RequestOK(k) /\ ResponseOK(k)

-----------------------------------------------------------------------------
(* Sequences                                                               *)

LEMMA RequestParts ==
  ASSUME NEW p \in Paths \cup {NoPath}
  PROVE  /\ Request(p) \in Seq(Parts) /\ Len(Request(p)) = 3
         /\ Request(p)[2] = p
BY DEF Request, Parts

LEMMA ListingParts ==
  ASSUME NEW p \in Paths, NEW n \in Nat
  PROVE  /\ Listing(p, n) \in Seq(Parts)
         /\ Len(Listing(p, n)) = n + 2
         /\ \A i \in 1 .. n + 2 : Fits(i, Listing(p, n)[i], p)
         /\ Listing(p, n)[2] = n
<1> DEFINE files == [i \in 1 .. n |-> p]
<1>1. <<"status", n>> \in Seq(Parts) /\ Len(<<"status", n>>) = 2
  BY DEF Parts
<1>2. files \in Seq(Parts) /\ Len(files) = n
  BY DEF Parts
<1>3. /\ Listing(p, n) \in Seq(Parts)
      /\ Len(Listing(p, n)) = 2 + n
      /\ \A i \in 1 .. 2 + n :
           Listing(p, n)[i] = IF i <= 2 THEN <<"status", n>>[i] ELSE files[i - 2]
  <2> HIDE DEF files
  <2> QED
    BY <1>1, <1>2, ConcatProperties DEF Listing, files
<1>4. ASSUME NEW i \in 1 .. n + 2
      PROVE  Fits(i, Listing(p, n)[i], p)
  <2>1. CASE i = 1
    BY <1>3, <2>1 DEF Fits
  <2>2. CASE i = 2
    BY <1>3, <2>2 DEF Fits
  <2>3. CASE i > 2
    <3>1. i - 2 \in 1 .. n /\ Listing(p, n)[i] = files[i - 2]
      BY <1>3, <2>3
    <3> QED
      BY <2>3, <3>1 DEF Fits
  <2> QED
    BY <2>1, <2>2, <2>3
<1>5. Listing(p, n)[2] = n
  BY <1>3
<1> QED
  BY <1>3, <1>4, <1>5

\* What follows and is as long as it says is a listing.
LEMMA WholeIsListing ==
  ASSUME NEW parts \in Seq(Parts), NEW p \in Paths,
         Follows(parts, 0, p), Whole(parts)
  PROVE  parts = Listing(p, Len(parts) - 2)
<1> DEFINE n == Len(parts) - 2
<1>1. parts[2] \in Nat /\ n \in Nat /\ parts[2] = n
  BY DEF Follows, Fits, Whole
<1>2. /\ Listing(p, n) \in Seq(Parts)
      /\ Len(Listing(p, n)) = n + 2
      /\ \A i \in 1 .. n + 2 : Fits(i, Listing(p, n)[i], p)
      /\ Listing(p, n)[2] = n
  BY <1>1, ListingParts
<1>3. ASSUME NEW i \in 1 .. Len(parts)
      PROVE  parts[i] = Listing(p, n)[i]
  <2>1. i \in Nat /\ i \in 1 .. n + 2 /\ (i = 1 \/ i = 2 \/ i > 2)
    BY <1>1
  <2>2. Fits(i, parts[i], p)
    BY <2>1 DEF Follows
  <2>3. Fits(i, Listing(p, n)[i], p)
    BY <1>2, <2>1
  <2> HIDE DEF n
  <2> QED
    BY <1>1, <1>2, <2>1, <2>2, <2>3 DEF Fits
<1>4. Len(parts) = Len(Listing(p, n))
  BY <1>1, <1>2
<1> HIDE DEF n
<1>5. parts = Listing(p, n)
  BY <1>2, <1>3, <1>4, SeqEqual
<1> QED
  BY <1>5 DEF n

\* A part goes from the front of one queue to the end of another.
LEMMA FollowsAppend ==
  ASSUME NEW parts \in Seq(Parts), NEW part \in Parts, NEW from \in Nat, NEW p,
         Follows(parts, from, p), Fits(from + Len(parts) + 1, part, p)
  PROVE  Follows(Append(parts, part), from, p)
<1>1. /\ Len(Append(parts, part)) = Len(parts) + 1
      /\ \A i \in 1 .. Len(parts) : Append(parts, part)[i] = parts[i]
      /\ Append(parts, part)[Len(parts) + 1] = part
      /\ Len(parts) \in Nat
  BY AppendProperties, LenProperties
<1> SUFFICES ASSUME NEW i \in 1 .. Len(parts) + 1
             PROVE  Fits(from + i, Append(parts, part)[i], p)
  BY <1>1 DEF Follows
<1>2. CASE i = Len(parts) + 1
  <2>1. from + i = from + Len(parts) + 1
    BY <1>1, <1>2
  <2> QED
    BY <1>1, <1>2, <2>1
<1>3. CASE i # Len(parts) + 1
  <2>1. i \in 1 .. Len(parts)
    BY <1>1, <1>3
  <2> QED
    BY <1>1, <2>1 DEF Follows
<1> QED
  BY <1>2, <1>3

LEMMA FollowsTail ==
  ASSUME NEW parts \in Seq(Parts), parts # <<>>, NEW from \in Nat, NEW p,
         Follows(parts, from, p)
  PROVE  /\ Head(parts) \in Parts /\ Tail(parts) \in Seq(Parts)
         /\ Len(Tail(parts)) = Len(parts) - 1
         /\ Fits(from + 1, Head(parts), p)
         /\ Follows(Tail(parts), from + 1, p)
<1>1. /\ Head(parts) \in Parts /\ Tail(parts) \in Seq(Parts)
      /\ Len(Tail(parts)) = Len(parts) - 1
      /\ \A i \in 1 .. Len(Tail(parts)) : Tail(parts)[i] = parts[i + 1]
      /\ Len(parts) \in Nat \ {0}
  BY HeadTailProperties, EmptySeq
<1>2. Head(parts) = parts[1]
  OBVIOUS
<1>3. Fits(from + 1, Head(parts), p)
  BY <1>1, <1>2 DEF Follows
<1>4. ASSUME NEW i \in 1 .. Len(Tail(parts))
      PROVE  Fits((from + 1) + i, Tail(parts)[i], p)
  <2>1. i + 1 \in 1 .. Len(parts) /\ (from + 1) + i = from + (i + 1)
    BY <1>1
  <2> QED
    BY <1>1, <2>1 DEF Follows
<1> QED
  BY <1>1, <1>3, <1>4 DEF Follows

LEMMA FollowsEmpty ==
  ASSUME NEW from, NEW p
  PROVE  Follows(<<>>, from, p)
BY DEF Follows

\* What the parse function writes follows from the start.
LEMMA ResponseFollows ==
  ASSUME NEW p \in Paths, NEW r \in {Failure} \cup {Listing(p, n) : n \in 0 .. MaxFiles}
  PROVE  r \in Seq(Parts) /\ Follows(r, 0, p)
<1>1. CASE r = Failure
  BY <1>1 DEF Failure, Follows, Fits, Parts
<1>2. ASSUME NEW n \in 0 .. MaxFiles, r = Listing(p, n)
      PROVE  r \in Seq(Parts) /\ Follows(r, 0, p)
  <2>1. /\ r \in Seq(Parts) /\ Len(r) = n + 2
        /\ \A i \in 1 .. n + 2 : Fits(i, r[i], p)
    BY <1>2, ListingParts
  <2> QED
    BY <2>1 DEF Follows
<1> QED
  BY <1>1, <1>2

-----------------------------------------------------------------------------
(* One lemma per action                                                    *)

\* A step that leaves the sockets and the client of a connection alone, or
\* takes from it what it has not read.
LEMMA Untouched ==
  ASSUME NEW k \in Clients, RequestOK(k), ResponseOK(k),
         client'[k] = client[k], asks'[k] = asks[k], toSend'[k] = toSend[k],
         got'[k] = got[k], up'[k] = up[k],
         down'[k] \in {down[k], <<>>},
         Waiting(k)' => Waiting(k) /\ Taken(k)' = Taken(k),
         serves' = k /\ pc' = "respond"
           => serves = k /\ pc = "respond" /\ reply' = reply /\ down'[k] = down[k]
  PROVE  RequestOK(k)' /\ ResponseOK(k)'
<1>1. RequestOK(k)'
  <2>1. ToSendOK(k)'
    BY DEF RequestOK, ToSendOK
  <2>2. UpOK(k)'
    BY DEF RequestOK, UpOK
  <2> QED
    BY <2>1, <2>2 DEF RequestOK
<1>2. EarlyOK(k)'
  BY DEF ResponseOK, EarlyOK
<1>3. Wanted(k)' = Wanted(k)
  BY DEF Wanted, Requested
<1>4. ListedOK(k)'
  BY <1>3 DEF ResponseOK, ListedOK, Listing
<1>5. ASSUME ~ Gone(k)'
      PROVE  ComingOK(k)'
  <2>1. ~ Gone(k)
    BY <1>5 DEF Gone
  <2>2. /\ Follows(got[k], 0, Wanted(k))
        /\ Follows(down'[k], Len(got[k]), Wanted(k))
        /\ serves' = k /\ pc' = "respond"
             => Follows(reply', Len(got[k]) + Len(down'[k]), Wanted(k))
    BY <2>1, FollowsEmpty DEF ResponseOK, ComingOK
  <2> QED
    BY <1>3, <2>2 DEF ComingOK
<1> QED
  BY <1>1, <1>2, <1>4, <1>5 DEF ResponseOK

LEMMA InitSession == Init => SessionInv
<1> SUFFICES ASSUME Init PROVE SessionInv
  OBVIOUS
<1>1. TypeOK
  BY DEF Init, TypeOK
<1>2. SequencesOK
  BY DEF Init, SequencesOK
<1>3. QueueInv /\ PathInv
  BY DEF Init, QueueInv, PathInv, Receiving
<1>4. ASSUME NEW k \in Clients
      PROVE  RequestOK(k) /\ ResponseOK(k)
  BY DEF Init, RequestOK, ResponseOK, ToSendOK, UpOK, EarlyOK, ListedOK, Waiting,
         Receiving, Gone
<1> QED
  BY <1>1, <1>2, <1>3, <1>4 DEF SessionInv

LEMMA ConnectSession ==
  ASSUME SessionInv, NEW k \in Clients, NEW p \in Paths \cup {NoPath}, Connect(k, p)
  PROVE  SessionInv'
<1> USE DEF SessionInv
<1>1. /\ Request(p) \in Seq(Parts) /\ Len(Request(p)) = 3
      /\ queue' \in Seq(Clients) /\ Len(queue') = Len(queue) + 1 /\ Len(queue) \in Nat
      /\ \A i \in 1 .. Len(queue) : queue'[i] = queue[i]
      /\ queue'[Len(queue) + 1] = k
  BY RequestParts, AppendProperties, LenProperties DEF Connect, SequencesOK
<1>2. TypeOK'
  BY DEF TypeOK, Connect, server
<1>3. SequencesOK'
  BY <1>1 DEF SequencesOK, Connect, server
<1>4. serves # k /\ \A i \in 1 .. Len(queue) : queue[i] # k
  BY DEF Connect, QueueInv
<1>5. \A i \in 1 .. Len(queue') : i = Len(queue) + 1 \/ i \in 1 .. Len(queue)
  BY <1>1
<1>6. \A j \in Clients : open'[j] = (j = k \/ open[j])
  BY DEF Connect, TypeOK
<1>7. QueueInv'
  <2>1. \A i \in 1 .. Len(queue) : queue[i] \in Clients
    BY ElementOfSeq DEF SequencesOK
  <2>2. \A i \in 1 .. Len(queue') : open'[queue'[i]] /\ queue'[i] # serves
    BY <1>1, <1>4, <1>5, <1>6, <2>1 DEF QueueInv
  <2>3. \A i, j \in 1 .. Len(queue') : queue'[i] = queue'[j] => i = j
    BY <1>1, <1>4, <1>5 DEF QueueInv
  <2> QED
    BY <1>6, <2>2, <2>3 DEF QueueInv, Connect, server, Receiving
<1>8. PathInv'
  <2>1. pc = "zero" => serves \in Clients
    BY DEF QueueInv, Receiving
  <2> QED
    BY <1>4, <2>1 DEF PathInv, Connect, server, Wanted, TypeOK
<1>9. ASSUME NEW j \in Clients
      PROVE  RequestOK(j)' /\ ResponseOK(j)'
  <2>1. CASE j = k
    <3>1. /\ client'[j] = "sending" /\ asks'[j] = p /\ toSend'[j] = Request(p)
          /\ up'[j] = <<>> /\ got'[j] = <<>> /\ down'[j] = <<>> /\ serves' = serves
      BY <2>1 DEF Connect, server, TypeOK, SequencesOK
    <3>2. Taken(j)' = 0
      BY <1>4, <2>1, <3>1 DEF Taken
    <3>3. RequestOK(j)'
      <4>1. ToSendOK(j)'
        <5>1. \A i \in 1 .. 3 : Request(p)[i] = Request(p)[3 - 3 + i]
          OBVIOUS
        <5> QED
          BY <1>1, <3>1, <5>1 DEF ToSendOK, Request
      <4>2. UpOK(j)'
        BY <1>1, <3>1, <3>2 DEF UpOK
      <4> QED
        BY <4>1, <4>2 DEF RequestOK
    <3>4. ResponseOK(j)'
      <4>1. ComingOK(j)'
        BY <1>4, <2>1, <3>1, FollowsEmpty DEF ComingOK
      <4> QED
        BY <3>1, <4>1 DEF ResponseOK, EarlyOK, ListedOK
    <3> QED
      BY <3>3, <3>4
  <2>2. CASE j # k
    <3>1. /\ client'[j] = client[j] /\ asks'[j] = asks[j] /\ toSend'[j] = toSend[j]
          /\ got'[j] = got[j] /\ up'[j] = up[j] /\ down'[j] = down[j]
          /\ serves' = serves /\ pc' = pc /\ reply' = reply
      BY <2>2 DEF Connect, server, TypeOK, SequencesOK
    <3>2. Waiting(j)' => Waiting(j)
      BY <1>1, <1>5, <2>2, <3>1 DEF Waiting, Receiving
    <3>3. Taken(j)' = Taken(j)
      BY <3>1 DEF Taken
    <3> QED
      BY <3>1, <3>2, <3>3, Untouched
  <2> QED
    BY <2>1, <2>2
<1> QED
  BY <1>2, <1>3, <1>7, <1>8, <1>9

\* Nobody listens, or the client leaves.
LEMMA ExitSession ==
  ASSUME SessionInv, NEW k \in Clients, Exit(k, "failed")
  PROVE  SessionInv'
<1> USE DEF SessionInv
<1>1. TypeOK' /\ SequencesOK'
  BY DEF TypeOK, SequencesOK, Exit, server
<1>2. QueueInv' /\ PathInv'
  BY DEF QueueInv, PathInv, Receiving, Wanted, Exit, server
<1>3. ASSUME NEW j \in Clients
      PROVE  RequestOK(j)' /\ ResponseOK(j)'
  <2>1. /\ asks' = asks /\ toSend' = toSend /\ got' = got /\ up' = up /\ down' = down
        /\ serves' = serves /\ pc' = pc /\ reply' = reply
        /\ Waiting(j)' = Waiting(j) /\ Taken(j)' = Taken(j)
    BY DEF Exit, server, Waiting, Receiving, Taken
  <2>2. CASE j = k
    <3>1. client'[j] = "failed"
      BY <2>2 DEF Exit, TypeOK
    <3> QED
      BY <2>1, <3>1
      DEF RequestOK, ResponseOK, ToSendOK, UpOK, EarlyOK, ListedOK, Gone
  <2>3. CASE j # k
    <3>1. client'[j] = client[j]
      BY <2>3 DEF Exit, TypeOK
    <3> QED
      BY <2>1, <3>1, Untouched
  <2> QED
    BY <2>2, <2>3
<1> QED
  BY <1>1, <1>2, <1>3

\* What a step of one client leaves alone
LEMMA OthersUntouched ==
  ASSUME SessionInv, NEW k \in Clients,
         UNCHANGED <<asks, open, queue, server>>,
         \A j \in Clients : j # k =>
           /\ client'[j] = client[j] /\ toSend'[j] = toSend[j] /\ got'[j] = got[j]
           /\ up'[j] = up[j] /\ down'[j] = down[j]
  PROVE  /\ QueueInv' /\ PathInv'
         /\ \A j \in Clients : Waiting(j)' = Waiting(j) /\ Taken(j)' = Taken(j)
         /\ \A j \in Clients : j # k => RequestOK(j)' /\ ResponseOK(j)'
<1> USE DEF SessionInv
<1>1. QueueInv' /\ PathInv'
  BY DEF QueueInv, PathInv, Receiving, Wanted, server
<1>2. ASSUME NEW j \in Clients
      PROVE  Waiting(j)' = Waiting(j) /\ Taken(j)' = Taken(j)
  BY DEF server, Waiting, Receiving, Taken
<1>3. ASSUME NEW j \in Clients, j # k
      PROVE  RequestOK(j)' /\ ResponseOK(j)'
  BY <1>2, <1>3, Untouched DEF server
<1> QED
  BY <1>1, <1>2, <1>3

LEMMA SendSession ==
  ASSUME SessionInv, NEW k \in Clients, Send(k)
  PROVE  SessionInv'
<1> USE DEF SessionInv
<1> DEFINE part == Head(toSend[k])
<1> DEFINE sent == Len(toSend[k])
<1>1. toSend[k] \in Seq(Parts) /\ up[k] \in Seq(Parts) /\ Len(up[k]) \in Nat
  BY LenProperties DEF SequencesOK
<1>2. /\ client[k] = "sending" /\ ToSendOK(k) /\ sent \in 1 .. 3
      /\ toSend[k] # <<>>
  <2>1. client[k] = "sending" /\ ToSendOK(k)
    BY DEF Send, RequestOK
  <2>2. sent \in 1 .. 3
    BY <2>1 DEF ToSendOK
  <2>3. toSend[k] # <<>>
    <3>1. CASE toSend[k] = <<>>
      <4>1. Len(toSend[k]) = 0
        BY <3>1
      <4> QED
        BY <2>2, <4>1
    <3> QED
      BY <3>1
  <2> QED
    BY <2>1, <2>2, <2>3
<1>3. /\ part \in Parts /\ part = toSend[k][1]
      /\ Tail(toSend[k]) \in Seq(Parts) /\ Len(Tail(toSend[k])) = sent - 1
      /\ \A i \in 1 .. sent - 1 : Tail(toSend[k])[i] = toSend[k][i + 1]
  BY <1>1, <1>2, HeadTailProperties
<1>4. /\ Append(up[k], part) \in Seq(Parts)
      /\ Len(Append(up[k], part)) = Len(up[k]) + 1
      /\ \A i \in 1 .. Len(up[k]) : Append(up[k], part)[i] = up[k][i]
      /\ Append(up[k], part)[Len(up[k]) + 1] = part
  BY <1>1, <1>3, AppendProperties
<1>5. /\ toSend' = [toSend EXCEPT ![k] = Tail(toSend[k])]
      /\ toSend'[k] = Tail(toSend[k])
      /\ up' = IF open[k] THEN [up EXCEPT ![k] = Append(up[k], part)] ELSE up
      /\ up'[k] = IF open[k] THEN Append(up[k], part) ELSE up[k]
      /\ client' = [client EXCEPT ![k] = IF sent = 1 THEN "reading" ELSE "sending"]
      /\ client'[k] = IF sent = 1 THEN "reading" ELSE "sending"
      /\ UNCHANGED <<asks, got, down, open, queue, server>>
      /\ ~ open[k] \/ Len(up[k]) < Capacity
  BY <1>2 DEF Send, SequencesOK, TypeOK
<1> HIDE DEF part, sent
<1>6. TypeOK'
  <2>1. \A j \in Clients : Len(up'[j]) <= Capacity
    <3>1. \A j \in Clients : j # k => up'[j] = up[j]
      BY <1>5
    <3>2. Len(up'[k]) <= Capacity
      BY <1>1, <1>4, <1>5 DEF TypeOK
    <3> QED
      BY <3>1, <3>2 DEF TypeOK
  <2> QED
    BY <1>5, <2>1 DEF TypeOK, server
<1>7. SequencesOK'
  BY <1>3, <1>4, <1>5 DEF SequencesOK, server
<1>8. \A j \in Clients : j # k =>
           /\ client'[j] = client[j] /\ toSend'[j] = toSend[j] /\ got'[j] = got[j]
           /\ up'[j] = up[j] /\ down'[j] = down[j]
  BY <1>5 DEF TypeOK, SequencesOK
<1>9. /\ QueueInv' /\ PathInv'
      /\ \A j \in Clients : Waiting(j)' = Waiting(j) /\ Taken(j)' = Taken(j)
      /\ \A j \in Clients : j # k => RequestOK(j)' /\ ResponseOK(j)'
  BY <1>5, <1>8, OthersUntouched
<1>10. ToSendOK(k)'
  <2> SUFFICES ASSUME sent # 1
               PROVE  /\ sent - 1 \in 1 .. 3
                      /\ \A i \in 1 .. sent - 1 :
                           Tail(toSend[k])[i] = Request(asks[k])[3 - (sent - 1) + i]
    <3>1. client'[k] = "sending" => sent # 1
      BY <1>5
    <3>2. toSend'[k] = Tail(toSend[k]) /\ Len(toSend'[k]) = sent - 1 /\ asks' = asks
      BY <1>3, <1>5
    <3> QED
      BY <3>1, <3>2 DEF ToSendOK, Request
  <2>1. sent \in 1 .. 3 /\ sent - 1 \in 1 .. 3
    BY <1>2
  <2>2. \A i \in 1 .. sent : toSend[k][i] = Request(asks[k])[3 - sent + i]
    BY <1>2 DEF ToSendOK, sent
  <2>3. ASSUME NEW i \in 1 .. sent - 1
        PROVE  Tail(toSend[k])[i] = Request(asks[k])[3 - (sent - 1) + i]
    <3>1. i + 1 \in 1 .. sent /\ 3 - sent + (i + 1) = 3 - (sent - 1) + i
      BY <2>1
    <3>2. Tail(toSend[k])[i] = toSend[k][i + 1]
      BY <1>3
    <3> QED
      BY <2>2, <3>1, <3>2
  <2> QED
    BY <2>1, <2>3, Zenon
<1>11. UpOK(k)'
  <2> SUFFICES ASSUME Waiting(k)
               PROVE  /\ Taken(k) + Len(up'[k]) <= 3
                      /\ client'[k] = "sending" => Taken(k) + Len(up'[k]) + (sent - 1) = 3
                      /\ \A i \in 1 .. Len(up'[k]) :
                           up'[k][i] = Request(asks[k])[Taken(k) + i]
    BY <1>3, <1>5, <1>9 DEF UpOK
  <2>1. open[k]
    BY DEF Waiting, QueueInv
  <2>2. Taken(k) \in 0 .. 2
    BY DEF Taken
  <2>3. /\ Taken(k) + Len(up[k]) + sent = 3
        /\ \A i \in 1 .. Len(up[k]) : up[k][i] = Request(asks[k])[Taken(k) + i]
    BY <1>2 DEF RequestOK, UpOK, sent
  <2>4. part = Request(asks[k])[Taken(k) + (Len(up[k]) + 1)]
    <3>1. part = Request(asks[k])[3 - sent + 1]
      <4>1. \A i \in 1 .. sent : toSend[k][i] = Request(asks[k])[3 - sent + i]
        BY <1>2 DEF ToSendOK, sent
      <4>2. 1 \in 1 .. sent
        BY <1>2
      <4> QED
        BY <1>3, <4>1, <4>2
    <3>2. 3 - sent + 1 = Taken(k) + (Len(up[k]) + 1)
      BY <1>1, <1>2, <2>2, <2>3
    <3> QED
      BY <3>1, <3>2
  <2>5. up'[k] = Append(up[k], part) /\ Len(up'[k]) = Len(up[k]) + 1
    BY <1>4, <1>5, <2>1
  <2>6. ASSUME NEW i \in 1 .. Len(up[k]) + 1
        PROVE  up'[k][i] = Request(asks[k])[Taken(k) + i]
    <3>1. CASE i = Len(up[k]) + 1
      BY <1>4, <2>4, <2>5, <3>1
    <3>2. CASE i # Len(up[k]) + 1
      <4>1. i \in 1 .. Len(up[k])
        BY <1>1, <3>2
      <4> QED
        BY <1>4, <2>3, <2>5, <4>1
    <3> QED
      BY <3>1, <3>2
  <2> QED
    BY <1>1, <1>2, <2>2, <2>3, <2>5, <2>6
<1>12. ResponseOK(k)'
  <2>1. ~ Gone(k) /\ client'[k] # "listed"
    BY <1>2, <1>5 DEF Gone
  <2>2. ComingOK(k)'
    BY <1>5, <2>1 DEF ResponseOK, ComingOK, Wanted, Requested, server
  <2> QED
    BY <1>5, <1>9, <2>1, <2>2 DEF ResponseOK, EarlyOK, ListedOK
<1> QED
  BY <1>6, <1>7, <1>9, <1>10, <1>11, <1>12 DEF RequestOK

LEMMA ReadSession ==
  ASSUME SessionInv, NEW k \in Clients, Read(k)
  PROVE  SessionInv'
<1> USE DEF SessionInv
<1> DEFINE part == Head(down[k])
<1>1. /\ got[k] \in Seq(Parts) /\ down[k] \in Seq(Parts)
      /\ Len(got[k]) \in Nat /\ Len(down[k]) \in Nat
  BY LenProperties DEF SequencesOK
<1>2. /\ client[k] = "reading" /\ down[k] # <<>> /\ ~ Gone(k) /\ ComingOK(k)
      /\ ~ Waiting(k)
  BY DEF Read, Gone, ResponseOK, EarlyOK
<1>3. /\ part \in Parts /\ Tail(down[k]) \in Seq(Parts)
      /\ Len(Tail(down[k])) = Len(down[k]) - 1
      /\ Fits(Len(got[k]) + 1, part, Wanted(k))
      /\ Follows(Tail(down[k]), Len(got[k]) + 1, Wanted(k))
  BY <1>1, <1>2, FollowsTail DEF ComingOK
<1>4. /\ Append(got[k], part) \in Seq(Parts)
      /\ Len(Append(got[k], part)) = Len(got[k]) + 1
  BY <1>1, <1>3, AppendProperties
<1>5. /\ got' = [got EXCEPT ![k] = Append(got[k], part)]
      /\ got'[k] = Append(got[k], part)
      /\ down' = [down EXCEPT ![k] = Tail(down[k])]
      /\ down'[k] = Tail(down[k])
      /\ UNCHANGED <<client, asks, toSend, up, open, queue, server>>
  BY DEF Read, SequencesOK
<1>6. Follows(Append(got[k], part), 0, Wanted(k))
  <2>1. Follows(got[k], 0, Wanted(k)) /\ 0 + Len(got[k]) + 1 = Len(got[k]) + 1
    BY <1>1, <1>2 DEF ComingOK
  <2> QED
    BY <1>1, <1>3, <2>1, FollowsAppend
<1> HIDE DEF part
<1>7. TypeOK'
  <2>1. \A j \in Clients : Len(down'[j]) <= Capacity
    <3>1. \A j \in Clients : j # k => down'[j] = down[j]
      BY <1>5
    <3>2. Len(down'[k]) <= Capacity
      BY <1>1, <1>3, <1>5 DEF TypeOK
    <3> QED
      BY <3>1, <3>2 DEF TypeOK
  <2> QED
    BY <1>5, <2>1 DEF TypeOK, server
<1>8. SequencesOK'
  BY <1>3, <1>4, <1>5 DEF SequencesOK, server
<1>9. /\ QueueInv' /\ PathInv'
      /\ \A j \in Clients : Waiting(j)' = Waiting(j) /\ Taken(j)' = Taken(j)
      /\ \A j \in Clients : j # k => RequestOK(j)' /\ ResponseOK(j)'
  <2>1. \A j \in Clients : j # k =>
           /\ client'[j] = client[j] /\ toSend'[j] = toSend[j] /\ got'[j] = got[j]
           /\ up'[j] = up[j] /\ down'[j] = down[j]
    BY <1>5 DEF SequencesOK
  <2> QED
    BY <1>5, <2>1, OthersUntouched
<1>10. RequestOK(k)'
  BY <1>2, <1>5, <1>9 DEF RequestOK, ToSendOK, UpOK
<1>11. ComingOK(k)'
  <2>1. Wanted(k)' = Wanted(k)
    BY <1>5 DEF Wanted, Requested
  <2>2. Len(got'[k]) + Len(down'[k]) = Len(got[k]) + Len(down[k])
    <3>1. Len(got'[k]) = Len(got[k]) + 1 /\ Len(down'[k]) = Len(down[k]) - 1
      BY <1>3, <1>4, <1>5
    <3>2. \A a, b \in Nat : (a + 1) + (b - 1) = a + b
      OBVIOUS
    <3>3. Len(got'[k]) + Len(down'[k]) = (Len(got[k]) + 1) + (Len(down[k]) - 1)
      BY <3>1, Zenon
    <3> QED
      BY <1>1, <3>2, <3>3, Zenon
  <2>3. serves' = serves /\ pc' = pc /\ reply' = reply
    BY <1>5 DEF server
  <2>4. serves = k /\ pc = "respond"
          => Follows(reply, Len(got'[k]) + Len(down'[k]), Wanted(k))
    BY <1>2, <2>2 DEF ComingOK
  <2>5. /\ Follows(got'[k], 0, Wanted(k))
        /\ Follows(down'[k], Len(got'[k]), Wanted(k))
    BY <1>3, <1>4, <1>5, <1>6
  <2> QED
    BY <2>1, <2>3, <2>4, <2>5 DEF ComingOK
<1>12. ResponseOK(k)'
  BY <1>2, <1>5, <1>9, <1>11 DEF ResponseOK, EarlyOK, ListedOK
<1> QED
  BY <1>7, <1>8, <1>9, <1>10, <1>12

LEMMA EndOfFileSession ==
  ASSUME SessionInv, NEW k \in Clients, EndOfFile(k)
  PROVE  SessionInv'
<1> USE DEF SessionInv
<1> DEFINE how == IF Whole(got[k]) THEN "listed" ELSE "failed"
<1>1. /\ client[k] = "reading" /\ ~ open[k] /\ ~ Gone(k)
      /\ client' = [client EXCEPT ![k] = how]
      /\ client'[k] = how /\ how \in {"listed", "failed"}
      /\ UNCHANGED <<asks, toSend, got, up, down, open, queue, server>>
  BY DEF EndOfFile, Exit, Gone, TypeOK
<1>2. Wanted(k) \in Paths /\ got[k] \in Seq(Parts)
  BY DEF Wanted, Requested, TypeOK, SequencesOK
<1>3. client'[k] = "listed" => got[k] = Listing(Wanted(k), Len(got[k]) - 2)
  <2> SUFFICES ASSUME client'[k] = "listed"
               PROVE  got[k] = Listing(Wanted(k), Len(got[k]) - 2)
    OBVIOUS
  <2>1. Whole(got[k])
    BY <1>1
  <2>2. Follows(got[k], 0, Wanted(k))
    BY <1>1 DEF ResponseOK, ComingOK
  <2> QED
    BY <1>2, <2>1, <2>2, WholeIsListing
<1> HIDE DEF how
<1>4. TypeOK' /\ SequencesOK'
  BY <1>1 DEF TypeOK, SequencesOK, server
<1>5. /\ QueueInv' /\ PathInv'
      /\ \A j \in Clients : Waiting(j)' = Waiting(j) /\ Taken(j)' = Taken(j)
      /\ \A j \in Clients : j # k => RequestOK(j)' /\ ResponseOK(j)'
  <2>1. \A j \in Clients : j # k =>
           /\ client'[j] = client[j] /\ toSend'[j] = toSend[j] /\ got'[j] = got[j]
           /\ up'[j] = up[j] /\ down'[j] = down[j]
    BY <1>1 DEF TypeOK
  <2> QED
    BY <1>1, <2>1, OthersUntouched
<1>6. RequestOK(k)'
  <2>1. client'[k] # "sending"
    BY <1>1
  <2>2. UpOK(k)
    BY DEF RequestOK
  <2>3. UpOK(k)'
    BY <1>1, <1>5, <2>1, <2>2 DEF UpOK
  <2> QED
    BY <2>1, <2>3 DEF RequestOK, ToSendOK
<1>7. ResponseOK(k)'
  <2>1. Wanted(k)' = Wanted(k)
    BY <1>1 DEF Wanted, Requested
  <2>2. ListedOK(k)'
    BY <1>1, <1>3, <2>1 DEF ListedOK, Listing
  <2>3. Gone(k)'
    BY <1>1 DEF Gone
  <2>4. EarlyOK(k)'
    BY <1>1, <1>5 DEF ResponseOK, EarlyOK
  <2> QED
    BY <2>2, <2>3, <2>4 DEF ResponseOK
<1> QED
  BY <1>4, <1>5, <1>6, <1>7

LEMMA AcceptSession ==
  ASSUME SessionInv, Accept
  PROVE  SessionInv'
<1> USE DEF SessionInv
<1>1. /\ pc = "accept" /\ pc' = "ids" /\ queue # <<>>
      /\ serves' = Head(queue) /\ queue' = Tail(queue)
      /\ UNCHANGED <<clients, up, down, open, path, reply>>
  BY DEF Accept
<1>2. /\ queue \in Seq(Clients) /\ Len(queue) \in Nat \ {0}
      /\ Head(queue) \in Clients /\ Head(queue) = queue[1]
      /\ Tail(queue) \in Seq(Clients) /\ Len(Tail(queue)) = Len(queue) - 1
      /\ \A i \in 1 .. Len(queue) - 1 : Tail(queue)[i] = queue[i + 1]
  BY <1>1, HeadTailProperties, EmptySeq DEF SequencesOK
<1>3. serves \notin Clients /\ ~ Receiving
  BY <1>1 DEF QueueInv, Receiving
<1>4. 1 \in 1 .. Len(queue) /\ \A i \in 1 .. Len(queue) - 1 : i + 1 \in 1 .. Len(queue)
  BY <1>2
<1>5. TypeOK'
  BY <1>1, <1>2 DEF TypeOK, clients
<1>6. SequencesOK'
  BY <1>1, <1>2 DEF SequencesOK, clients
<1>7. QueueInv'
  <2>1. \A i \in 1 .. Len(queue) - 1 : Tail(queue)[i] # queue[1] /\ open[Tail(queue)[i]]
    BY <1>2, <1>4 DEF QueueInv
  <2>2. ASSUME NEW i \in 1 .. Len(queue) - 1, NEW j \in 1 .. Len(queue) - 1,
               Tail(queue)[i] = Tail(queue)[j]
        PROVE  i = j
    <3>1. i + 1 = j + 1
      BY <1>2, <1>4, <2>2 DEF QueueInv
    <3> QED
      BY <3>1
  <2>3. open[queue[1]]
    BY <1>4 DEF QueueInv
  <2> QED
    BY <1>1, <1>2, <2>1, <2>2, <2>3 DEF QueueInv, Receiving
<1>8. PathInv'
  BY <1>1 DEF PathInv
<1>9. ASSUME NEW k \in Clients
      PROVE  RequestOK(k)' /\ ResponseOK(k)'
  <2>1. Waiting(k)' => Waiting(k)
    BY <1>1, <1>2, <1>4 DEF Waiting
  <2>2. Taken(k) = 0 /\ Taken(k)' = 0
    BY <1>1, <1>3 DEF Taken
  <2> QED
    BY <1>1, <2>1, <2>2, Untouched DEF clients
<1> QED
  BY <1>5, <1>6, <1>7, <1>8, <1>9

\* A request is over, whole or not, and its response starts.
LEMMA RespondStarts ==
  ASSUME SessionInv, Receiving, pc' = "respond",
         UNCHANGED <<clients, down, open, queue, serves, path>>,
         up' \in [Clients -> Seq(Parts)], \A k \in Clients : Len(up'[k]) <= Capacity,
         \A k \in Clients : k # serves => up'[k] = up[k],
         reply' \in Seq(Parts),
         ~ Gone(serves) => Follows(reply', 0, Wanted(serves))
  PROVE  SessionInv'
<1> USE DEF SessionInv
<1>1. serves \in Clients /\ open[serves] /\ \A i \in 1 .. Len(queue) : queue[i] # serves
  BY DEF QueueInv
<1>2. TypeOK' /\ SequencesOK'
  BY DEF TypeOK, SequencesOK, clients
<1>3. QueueInv' /\ PathInv'
  BY <1>1 DEF QueueInv, PathInv, Receiving
<1>4. ASSUME NEW k \in Clients, k # serves
      PROVE  RequestOK(k)' /\ ResponseOK(k)'
  <2>1. Waiting(k)' => Waiting(k)
    BY <1>4 DEF Waiting
  <2>2. Taken(k)' = Taken(k)
    BY <1>4 DEF Taken
  <2> QED
    BY <1>4, <2>1, <2>2, Untouched DEF clients
<1>5. RequestOK(serves)' /\ ResponseOK(serves)'
  <2>1. ~ Waiting(serves)' /\ Waiting(serves)
    BY <1>1 DEF Waiting, Receiving
  <2>2. RequestOK(serves) /\ ResponseOK(serves)
    BY <1>1
  <2>3. RequestOK(serves)'
    BY <2>1, <2>2 DEF RequestOK, ToSendOK, UpOK, clients
  <2>4. Wanted(serves)' = Wanted(serves)
    BY DEF Wanted, Requested, clients
  <2>5. ASSUME ~ Gone(serves)' PROVE ComingOK(serves)'
    <3>1. ~ Gone(serves)
      BY <2>5 DEF Gone, clients
    <3>2. got[serves] = <<>> /\ down[serves] = <<>> /\ Len(<<>>) = 0 /\ 0 + 0 = 0
      BY <2>1, <2>2 DEF ResponseOK, EarlyOK
    <3>3. Follows(reply', Len(got[serves]) + Len(down[serves]), Wanted(serves))
      BY <3>1, <3>2
    <3> QED
      BY <2>4, <3>2, <3>3, FollowsEmpty DEF ComingOK, clients
  <2>6. ListedOK(serves)'
    BY <2>2, <2>4 DEF ResponseOK, ListedOK, Listing, clients
  <2> QED
    BY <2>1, <2>3, <2>5, <2>6 DEF ResponseOK, EarlyOK
<1> QED
  BY <1>2, <1>3, <1>4, <1>5

LEMMA EndOfRequestSession ==
  ASSUME SessionInv, EndOfRequest \/ Reject
  PROVE  SessionInv'
<1> USE DEF SessionInv
<1>1. /\ Receiving /\ pc' = "respond"
      /\ UNCHANGED <<clients, up, down, open, queue, serves, path>>
      /\ reply' \in {Failure} \cup {Listing(path, n) : n \in 0 .. MaxFiles}
      /\ reply' = Failure \/ Gone(serves)
  BY DEF EndOfRequest, Reject, Responds, Receiving
<1>2. path \in Paths /\ serves \in Clients
  BY <1>1 DEF TypeOK, QueueInv
<1>3. Wanted(serves) \in Paths
  BY <1>2 DEF Wanted, Requested, TypeOK
<1>4. reply' \in Seq(Parts)
  BY <1>1, <1>2, ResponseFollows
<1>5. ~ Gone(serves) => Follows(reply', 0, Wanted(serves))
  BY <1>1, <1>3, ResponseFollows
<1>6. /\ up' \in [Clients -> Seq(Parts)]
      /\ \A k \in Clients : Len(up'[k]) <= Capacity
      /\ \A k \in Clients : k # serves => up'[k] = up[k]
  BY <1>1 DEF TypeOK, SequencesOK
<1> QED
  BY <1>1, <1>4, <1>5, <1>6, RespondStarts

LEMMA ReceiveSession ==
  ASSUME SessionInv, Receive
  PROVE  SessionInv'
<1> USE DEF SessionInv
<1>1. /\ serves \in Clients /\ Receiving /\ up[serves] # <<>>
      /\ up' = [up EXCEPT ![serves] = Tail(up[serves])]
      /\ up'[serves] = Tail(up[serves])
      /\ \A j \in Clients : j # serves => up'[j] = up[j]
      /\ UNCHANGED <<clients, down, open, queue, serves>>
  <2>1. serves \in Clients
    BY DEF Receive, TypeOK
  <2> QED
    BY <2>1 DEF Receive, Receiving, SequencesOK
<1>2. Waiting(serves) /\ RequestOK(serves) /\ ResponseOK(serves)
  BY <1>1 DEF Waiting
<1>3. /\ up[serves] \in Seq(Parts) /\ Len(up[serves]) \in Nat \ {0}
      /\ Head(up[serves]) = up[serves][1]
      /\ Tail(up[serves]) \in Seq(Parts)
      /\ Len(Tail(up[serves])) = Len(up[serves]) - 1
      /\ \A i \in 1 .. Len(up[serves]) - 1 : Tail(up[serves])[i] = up[serves][i + 1]
  <2>1. up[serves] \in Seq(Parts)
    BY <1>1 DEF SequencesOK
  <2> QED
    BY <1>1, <2>1, HeadTailProperties, EmptySeq
<1>4. /\ Taken(serves) + Len(up[serves]) <= 3
      /\ client[serves] = "sending"
           => Taken(serves) + Len(up[serves]) + Len(toSend[serves]) = 3
      /\ \A i \in 1 .. Len(up[serves]) :
           up[serves][i] = Request(asks[serves])[Taken(serves) + i]
  BY <1>2 DEF RequestOK, UpOK
<1>5. /\ up' \in [Clients -> Seq(Parts)]
      /\ \A j \in Clients : Len(up'[j]) <= Capacity
  <2>1. Len(up'[serves]) <= Capacity
    BY <1>1, <1>3 DEF TypeOK
  <2> QED
    BY <1>1, <1>3, <2>1 DEF TypeOK, SequencesOK
<1>6. asks[serves] \in Paths \cup {NoPath}
  BY <1>1 DEF TypeOK
<1>7. CASE pc = "zero"
  <2>1. /\ pc' = "respond" /\ path' = path
        /\ reply' \in {Failure} \cup {Listing(path, n) : n \in 0 .. MaxFiles}
    BY <1>7 DEF Receive, Responds
  <2>2. path \in Paths /\ path = Wanted(serves)
    BY <1>7 DEF TypeOK, PathInv
  <2>3. reply' \in Seq(Parts) /\ Follows(reply', 0, Wanted(serves))
    BY <2>1, <2>2, ResponseFollows
  <2> QED
    BY <1>1, <1>5, <2>1, <2>3, RespondStarts
<1>8. CASE pc # "zero"
  <2>1. /\ \/ pc = "ids" /\ pc' = "data" /\ path' = path
           \/ pc = "data" /\ pc' = "zero" /\ path' = Requested(Head(up[serves]))
        /\ reply' = reply
    BY <1>8 DEF Receive
  <2>2. Receiving' /\ pc' # "respond"
    BY <2>1 DEF Receiving
  <2>3. Taken(serves) \in 0 .. 1 /\ Taken(serves)' = Taken(serves) + 1
    BY <1>1, <2>1 DEF Taken
  <2>4. pc = "data" => path' = Wanted(serves)
    <3> SUFFICES ASSUME pc = "data" PROVE path' = Wanted(serves)
      OBVIOUS
    <3>1. Taken(serves) = 1
      BY DEF Taken
    <3>2. 1 \in 1 .. Len(up[serves])
      BY <1>3
    <3>3. Head(up[serves]) = Request(asks[serves])[1 + 1]
      BY <1>3, <1>4, <3>1, <3>2
    <3>4. Head(up[serves]) = asks[serves]
      BY <1>6, <3>3, RequestParts
    <3> QED
      BY <2>1, <3>4 DEF Wanted
  <2>5. path' \in Paths
    BY <1>6, <2>1, <2>4 DEF TypeOK, Wanted, Requested
  <2>6. TypeOK' /\ SequencesOK'
    BY <1>1, <1>5, <2>1, <2>5 DEF TypeOK, SequencesOK, clients
  <2>7. QueueInv'
    BY <1>1, <2>2 DEF QueueInv
  <2>8. PathInv'
    BY <1>1, <2>1, <2>4 DEF PathInv, Wanted, clients
  <2>9. ASSUME NEW k \in Clients, k # serves
        PROVE  RequestOK(k)' /\ ResponseOK(k)'
    <3>1. Waiting(k)' => Waiting(k)
      BY <1>1, <2>9 DEF Waiting
    <3>2. Taken(k)' = Taken(k)
      BY <1>1, <2>9 DEF Taken
    <3> QED
      BY <1>1, <2>2, <2>9, <3>1, <3>2, Untouched DEF clients
  <2>10. UpOK(serves)'
    <3>1. Taken(serves)' + Len(up'[serves]) = Taken(serves) + Len(up[serves])
      <4>1. \A a, b \in Int : (a + 1) + (b - 1) = a + b
        OBVIOUS
      <4>2. Taken(serves)' + Len(up'[serves]) = (Taken(serves) + 1) + (Len(up[serves]) - 1)
        BY <1>1, <1>3, <2>3, Zenon
      <4>3. Taken(serves) \in Int /\ Len(up[serves]) \in Int
        BY <1>3, <2>3
      <4> QED
        BY <4>1, <4>2, <4>3, Zenon
    <3>2. ASSUME NEW i \in 1 .. Len(up'[serves])
          PROVE  up'[serves][i] = Request(asks[serves])[Taken(serves)' + i]
      <4>1. i \in 1 .. Len(up[serves]) - 1
        BY <1>1, <1>3
      <4>2. i + 1 \in 1 .. Len(up[serves]) /\ up'[serves][i] = up[serves][i + 1]
        <5>1. i + 1 \in 1 .. Len(up[serves])
          BY <1>3, <4>1
        <5>2. Tail(up[serves])[i] = up[serves][i + 1]
          BY <1>3, <4>1, Zenon
        <5> QED
          BY <1>1, <5>1, <5>2, Zenon
      <4>3. up[serves][i + 1] = Request(asks[serves])[Taken(serves) + (i + 1)]
        BY <1>4, <4>2
      <4>4. Taken(serves) + (i + 1) = Taken(serves)' + i
        BY <2>3, <4>1
      <4> QED
        BY <4>2, <4>3, <4>4
    <3> QED
      BY <1>1, <1>4, <3>1, <3>2 DEF UpOK, clients
  <2>11. RequestOK(serves)'
    BY <1>1, <1>2, <2>10 DEF RequestOK, ToSendOK, clients
  <2>12. ResponseOK(serves)'
    <3>1. Wanted(serves)' = Wanted(serves)
      BY <1>1 DEF Wanted, Requested, clients
    <3>2. EarlyOK(serves)' /\ ListedOK(serves)'
      BY <1>1, <1>2, <3>1 DEF ResponseOK, EarlyOK, ListedOK, Listing, clients
    <3>3. ~ Gone(serves)' => ComingOK(serves)'
      BY <1>1, <1>2, <2>2, <3>1 DEF ResponseOK, ComingOK, Gone, clients
    <3> QED
      BY <3>2, <3>3 DEF ResponseOK
  <2> QED
    BY <1>1, <2>6, <2>7, <2>8, <2>9, <2>11, <2>12
<1> QED
  BY <1>7, <1>8

\* What a step of the server leaves alone while it responds or ends
LEMMA RespondUntouched ==
  ASSUME SessionInv, ~ Receiving, ~ Receiving', UNCHANGED <<clients, up, path>>,
         queue' \in {queue, <<>>}, serves' \in {serves, Nobody},
         NEW k \in Clients, down'[k] \in {down[k], <<>>},
         serves' = k /\ pc' = "respond"
           => serves = k /\ pc = "respond" /\ reply' = reply /\ down'[k] = down[k]
  PROVE  RequestOK(k)' /\ ResponseOK(k)'
<1>1. Waiting(k)' => Waiting(k)
  BY DEF Waiting
<1>2. Waiting(k)' => serves # k /\ serves' # k
  BY DEF SessionInv, QueueInv, Waiting
<1>3. Waiting(k)' => Taken(k)' = Taken(k)
  BY <1>2 DEF Taken
<1> QED
  BY <1>1, <1>3, Untouched DEF SessionInv, clients

LEMMA RespondSession ==
  ASSUME SessionInv, Respond \/ BreakOff
  PROVE  SessionInv'
<1> USE DEF SessionInv
<1>1. /\ serves \in Clients /\ pc = "respond" /\ ~ Receiving /\ ~ Receiving'
      /\ reply # <<>>
      /\ UNCHANGED <<clients, up, open, queue, pc, serves, path>>
  BY DEF Respond, BreakOff, QueueInv, Receiving
<1>2. /\ reply \in Seq(Parts) /\ Head(reply) \in Parts /\ Tail(reply) \in Seq(Parts)
      /\ down[serves] \in Seq(Parts) /\ Len(down[serves]) \in Nat
      /\ got[serves] \in Seq(Parts) /\ Len(got[serves]) \in Nat
  <2>1. reply \in Seq(Parts) /\ down[serves] \in Seq(Parts) /\ got[serves] \in Seq(Parts)
    BY <1>1 DEF SequencesOK
  <2> QED
    BY <1>1, <2>1, HeadTailProperties, LenProperties
<1>3. /\ Append(down[serves], Head(reply)) \in Seq(Parts)
      /\ Len(Append(down[serves], Head(reply))) = Len(down[serves]) + 1
  BY <1>2, AppendProperties
<1>4. CASE down' = down /\ (reply' = <<>> \/ (Gone(serves) /\ reply' = Tail(reply)))
  <2>1. TypeOK'
    BY <1>1, <1>4 DEF TypeOK, clients
  <2>2. SequencesOK'
    <3>1. reply' \in Seq(Parts)
      BY <1>2, <1>4, EmptySeq
    <3> QED
      BY <1>1, <1>4, <3>1 DEF SequencesOK, clients
  <2>3. QueueInv' /\ PathInv'
    BY <1>1 DEF QueueInv, PathInv, Receiving
  <2>4. ASSUME NEW k \in Clients, k # serves
        PROVE  RequestOK(k)' /\ ResponseOK(k)'
    BY <1>1, <1>4, <2>4, RespondUntouched
  <2>5. RequestOK(serves)' /\ ResponseOK(serves)'
    <3>1. Wanted(serves)' = Wanted(serves) /\ Gone(serves)' = Gone(serves)
      BY <1>1 DEF Wanted, Requested, Gone, clients
    <3>2. Waiting(serves)' = Waiting(serves) /\ Taken(serves)' = Taken(serves)
      BY <1>1 DEF Waiting, Taken, Receiving
    <3>3. RequestOK(serves)'
      BY <1>1, <3>2 DEF RequestOK, ToSendOK, UpOK, clients
    <3>4. EarlyOK(serves)' /\ ListedOK(serves)'
      BY <1>1, <1>4, <3>1, <3>2 DEF ResponseOK, EarlyOK, ListedOK, Listing, clients
    <3>5. ~ Gone(serves)' => ComingOK(serves)'
      BY <1>1, <1>4, <3>1, FollowsEmpty DEF ResponseOK, ComingOK, clients
    <3> QED
      BY <3>3, <3>4, <3>5 DEF ResponseOK
  <2> QED
    BY <1>1, <2>1, <2>2, <2>3, <2>4, <2>5
<1>5. CASE /\ ~ Gone(serves) /\ Len(down[serves]) < Capacity
           /\ down' = [down EXCEPT ![serves] = Append(down[serves], Head(reply))]
           /\ reply' = Tail(reply)
  <2>1. /\ down'[serves] = Append(down[serves], Head(reply))
        /\ \A k \in Clients : k # serves => down'[k] = down[k]
    BY <1>1, <1>5 DEF SequencesOK
  <2>2. TypeOK'
    <3>1. Len(down'[serves]) <= Capacity
      BY <1>2, <1>3, <1>5, <2>1
    <3> QED
      BY <1>1, <2>1, <3>1 DEF TypeOK, clients
  <2>3. SequencesOK'
    BY <1>1, <1>2, <1>3, <1>5 DEF SequencesOK, clients
  <2>4. QueueInv' /\ PathInv'
    BY <1>1 DEF QueueInv, PathInv, Receiving
  <2>5. ASSUME NEW k \in Clients, k # serves
        PROVE  RequestOK(k)' /\ ResponseOK(k)'
    BY <1>1, <2>1, <2>5, RespondUntouched
  <2>6. RequestOK(serves)' /\ ResponseOK(serves)'
    <3>1. Wanted(serves)' = Wanted(serves)
      BY <1>1 DEF Wanted, Requested, clients
    <3>2. ~ Waiting(serves) /\ ~ Waiting(serves)'
      BY <1>1 DEF Waiting, QueueInv
    <3>3. RequestOK(serves)'
      BY <1>1, <3>2 DEF RequestOK, ToSendOK, UpOK, clients
    <3>4. ListedOK(serves)'
      BY <1>1, <1>5, <3>1 DEF Gone, ResponseOK, ListedOK, clients
    <3>5. /\ Follows(got[serves], 0, Wanted(serves))
          /\ Follows(down[serves], Len(got[serves]), Wanted(serves))
          /\ Follows(reply, Len(got[serves]) + Len(down[serves]), Wanted(serves))
      BY <1>1, <1>5 DEF ResponseOK, ComingOK
    <3>6. Len(got[serves]) + Len(down[serves]) \in Nat
      <4>1. \A a, b \in Nat : a + b \in Nat
        OBVIOUS
      <4> QED
        BY <1>2, <4>1, Zenon
    <3>7. /\ Fits((Len(got[serves]) + Len(down[serves])) + 1, Head(reply), Wanted(serves))
          /\ Follows(Tail(reply), (Len(got[serves]) + Len(down[serves])) + 1, Wanted(serves))
      BY <1>1, <1>2, <3>5, <3>6, FollowsTail
    <3>8. Follows(down'[serves], Len(got[serves]), Wanted(serves))
      BY <1>2, <2>1, <3>5, <3>7, FollowsAppend
    <3>9. (Len(got[serves]) + Len(down[serves])) + 1 = Len(got[serves]) + Len(down'[serves])
      <4>1. \A a, b \in Nat : (a + b) + 1 = a + (b + 1)
        OBVIOUS
      <4> QED
        BY <1>2, <1>3, <2>1, <4>1, Zenon
    <3>10. Follows(reply', Len(got[serves]) + Len(down'[serves]), Wanted(serves))
      BY <1>5, <3>7, <3>9, Zenon
    <3>11. ComingOK(serves)'
      BY <1>1, <3>1, <3>5, <3>8, <3>10 DEF ComingOK, clients
    <3> QED
      BY <3>2, <3>3, <3>4, <3>11 DEF ResponseOK, EarlyOK
  <2> QED
    BY <1>1, <2>2, <2>3, <2>4, <2>5, <2>6
<1> QED
  BY <1>4, <1>5 DEF Respond, BreakOff

\* The server is done with a connection, or ends.
LEMMA DoneSession ==
  ASSUME SessionInv, Close \/ Killed \/ AcceptFails
  PROVE  SessionInv'
<1> USE DEF SessionInv
<1>1. /\ ~ Receiving /\ ~ Receiving' /\ pc' \in {"accept", "dead"} /\ serves' = Nobody
      /\ UNCHANGED <<clients, up, path>>
      /\ reply' \in {reply, <<>>} /\ queue' \in {queue, <<>>}
  BY DEF Close, Killed, AcceptFails, Dies, Receiving
<1>2. PICK ks \in SUBSET Clients :
        Dropped(ks) /\ (queue' = <<>> \/ (queue' = queue /\ ks = {serves}))
  <2>1. CASE Close
    <3>1. serves \in Clients
      BY <2>1 DEF Close, QueueInv
    <3> QED
      BY <2>1, <3>1 DEF Close
  <2>2. CASE Killed \/ AcceptFails
    BY <2>2 DEF Killed, AcceptFails, Dies
  <2> QED
    BY <2>1, <2>2
<1>3. /\ open' = [k \in Clients |-> open[k] /\ k \notin ks]
      /\ \A k \in Clients : down'[k] \in {down[k], <<>>}
      /\ down' \in [Clients -> Seq(Parts)]
  <2>1. <<>> \in Seq(Parts) /\ down \in [Clients -> Seq(Parts)]
    BY EmptySeq DEF SequencesOK
  <2>2. CASE down' = down
    BY <1>2, <2>1, <2>2 DEF Dropped
  <2>3. CASE down' = [k \in Clients |-> IF k \in ks /\ up[k] # <<>> THEN <<>> ELSE down[k]]
    BY <1>2, <2>1, <2>3 DEF Dropped
  <2> QED
    BY <1>2, <2>2, <2>3 DEF Dropped
<1>4. TypeOK'
  <2>1. ASSUME NEW k \in Clients
        PROVE  Len(down'[k]) <= Capacity
    <3>1. CASE down'[k] = down[k]
      BY <3>1 DEF TypeOK
    <3>2. CASE down'[k] = <<>>
      <4>1. Len(<<>>) = 0
        OBVIOUS
      <4> QED
        BY <3>2, <4>1
    <3> QED
      BY <1>3, <3>1, <3>2
  <2>2. open' \in [Clients -> BOOLEAN]
    BY <1>3, Zenon
  <2> QED
    BY <1>1, <2>1, <2>2 DEF TypeOK, clients
<1>5. SequencesOK'
  <2>1. reply' \in Seq(Parts) /\ queue' \in Seq(Clients)
    BY <1>1, EmptySeq DEF SequencesOK
  <2> QED
    BY <1>1, <1>3, <2>1 DEF SequencesOK, clients
<1>6. QueueInv'
  <2>1. \A i \in 1 .. Len(queue) : queue[i] \in Clients
    BY ElementOfSeq DEF SequencesOK
  <2>2. CASE queue' = <<>>
    BY <1>1, <2>2 DEF QueueInv
  <2>3. CASE queue' = queue /\ ks = {serves}
    BY <1>1, <1>3, <2>1, <2>3 DEF QueueInv
  <2> QED
    BY <1>2, <2>2, <2>3
<1>7. PathInv'
  BY <1>1 DEF PathInv
<1>8. ASSUME NEW k \in Clients
      PROVE  RequestOK(k)' /\ ResponseOK(k)'
  BY <1>1, <1>3, RespondUntouched
<1> QED
  BY <1>4, <1>5, <1>6, <1>7, <1>8

LEMMA SessionInvariance == Spec => []SessionInv
<1>1. SessionInv /\ [Next]_vars => SessionInv'
  <2> SUFFICES ASSUME SessionInv, [Next]_vars
               PROVE  SessionInv'
    OBVIOUS
  <2>1. CASE UNCHANGED vars
    BY <2>1
    DEF vars, clients, server, SessionInv, TypeOK, SequencesOK, QueueInv, PathInv,
        RequestOK, ResponseOK, ToSendOK, UpOK, EarlyOK, ComingOK, ListedOK, Waiting,
        Receiving, Taken, Gone, Wanted
  <2>2. CASE Next
    BY <2>2, ConnectSession, ExitSession, SendSession, ReadSession, EndOfFileSession,
       AcceptSession, ReceiveSession, EndOfRequestSession, RespondSession, DoneSession
    DEF Next, Refused, ClientStep, Leave, ServerStep
  <2> QED
    BY <2>1, <2>2
<1> QED
  BY <1>1, InitSession, PTL DEF Spec

-----------------------------------------------------------------------------
\* Every variable keeps its type: sockets never hold more than they can, and a
\* path that is listed is one a client can ask for.
THEOREM SessionTyping == Spec => []TypeOK
BY SessionInvariance, PTL DEF SessionInv

\* A client that lists a directory lists the one it asked for, and all of it.
THEOREM ListedIsWanted == Spec => []ListedIsAskedFor
<1>1. SessionInv => ListedIsAskedFor
  BY DEF SessionInv, ResponseOK, ListedOK, ListedIsAskedFor, Wanted, Requested
<1> QED
  BY <1>1, SessionInvariance, PTL
=============================================================================
