----------------------------- MODULE NgAppProofs -----------------------------
(***************************************************************************)
(* Theorems about an application that answers calls from jobs of its own   *)
(* and from inside its callbacks.  Most steps of the application are steps *)
(* of the server, of which NgServerProofs and NgLifeProofs say what they   *)
(* keep; new are the two halves of ng_GrpcParseNonBlocking, and that a job *)
(* fills the holder of the context it was given.                           *)
(***************************************************************************)
EXTENDS NgApp, NgLifeProofs

USE SizeAssumption, IdAssumption, ContextAssumption, MethodAssumption,
    ProgramAssumption, HolderAssumption, ReplyAssumption, AfterNestedAssumption

-----------------------------------------------------------------------------
(* Types                                                                   *)

\* AppTypeOK does not say that the method of the callback that runs has a
\* context, which is what the callback's return releases.
ServingHasContext == serving # Nothing => ContextOf[serving.method] \in Contexts

AppTyped == AppTypeOK /\ ServingHasContext

\* What is turned away, and what answers a call, is a step of the server.
LEMMA TurnedIsParse ==
  ASSUME NEW outcome \in Outcomes,
         \/ Undecodable(outcome)
         \/ \E id \in AnyId : Turned(id, outcome)
  PROVE  Next
BY DEF Undecodable, Turned, Next, Parse, ParseNonBlocking

LEMMA AnswerIsFollow ==
  ASSUME NEW c \in Contexts, NEW id \in Ids,
         \/ Refused(c, id)
         \/ EncodeFailed(c, id)
         \/ Stream(c, id)
         \/ Finish(c, id)
  PROVE  Next
BY DEF Refused, EncodeFailed, Stream, Finish, Next, Follow

\* The return of a callback that leaves its call for later is none: it tells
\* nobody anything.
Waits(c) ==
  /\ reply' = NoReply
  /\ came' = Empty
  /\ Takes(c, {})
  /\ UNCHANGED <<callsHolder, ctxCallId, request, response, seen>>

LEMMA LaterWaits ==
  ASSUME ReturnLater
  PROVE  Waits(ContextOf[serving.method])
BY DEF ReturnLater, Returns, Waits

LEMMA WaitsType ==
  ASSUME TypeOK, NEW c \in Contexts, Waits(c)
  PROVE  TypeOK'
BY DEF TypeOK, Waits, Takes, AnyContext, Holder

\* What a callback finds in the handle when it runs is typed.
LEMMA ServingType ==
  ASSUME AppTyped, serving # Nothing
  PROVE  /\ serving.method \in Methods
         /\ serving.id \in AnyId
         /\ ContextOf[serving.method] \in Contexts
BY DEF AppTyped, AppTypeOK, ServingHasContext

LEMMA EnterType ==
  ASSUME TypeOK, NEW m \in Methods, NEW id \in AnyId, Enter(m, id)
  PROVE  TypeOK'
<1> DEFINE c == ContextOf[m]
<1> USE DEF TypeOK
<1>1. c \in Contexts
  BY ContextType DEF Enter
<1>2. callsHolder' \in CallsHolder
  BY <1>1, RegisteredType DEF Enter
<1>3. seen' \in [Ids -> Phases]
  BY DEF Enter, Asked, Phases
<1>4. target' \in AnyContext /\ leaked' \subseteq AnyId
  BY <1>1, LostType DEF Enter, Takes, AnyContext
<1> QED
  BY <1>1, <1>2, <1>3, <1>4 DEF Enter, Holder, response_fillWithZeros

\* The answer a callback returns is a GrpcResponse.
LEMMA ReturnType ==
  ASSUME AppTyped, NEW status \in CallbackStatus, NEW valid \in BOOLEAN,
         NEW outcome \in Outcomes, ReturnAnswer(status, valid, outcome)
  PROVE  TypeOK'
<1> DEFINE id   == serving.id
           c    == ContextOf[serving.method]
           over == IsOver(serving.method, status)
           last == status # "Failed" /\ over
           from == IF status # "Failed" /\ valid THEN c ELSE shared.from
           r    == [ call_id |-> shared.call_id,
                     status  |-> IF status # "Failed" /\ valid THEN "OK"
                                 ELSE "INTERNAL",
                     type    |-> IF last THEN "END_OF_CALL" ELSE shared.type,
                     data    |-> IF from = NoContext THEN Empty
                                 ELSE IF from = c THEN id ELSE response[from] ]
<1>1. /\ callsHolder' = CallsAfter(id, last)
      /\ request' = Release(request, c)
      /\ response' = [response EXCEPT ![c] = Released(id)]
      /\ reply' = IF outcome = "sent" THEN r ELSE NoReply
      /\ seen' = IF outcome = "sent" THEN Heard(seen, r) ELSE seen
      /\ came' = Empty
      /\ ctxCallId' = ctxCallId
      /\ target' = c /\ leaked' = {}
      /\ serving # Nothing
  BY DEF ReturnAnswer, Returns, Takes
<1>2. id \in AnyId /\ c \in Contexts
  BY <1>1, ServingType
<1>3. TypeOK /\ shared \in [call_id : AnyId, type : {"none", "STREAM", "END_OF_CALL"},
                            from : AnyContext]
  BY DEF AppTyped, AppTypeOK
<1>4. from \in AnyContext
  BY <1>2, <1>3 DEF AnyContext
<1>5. r \in Reply
  <2> HIDE DEF c, id, from, last
  <2>1. (IF from = NoContext THEN Empty ELSE IF from = c THEN id ELSE response[from])
          \in Holder
    BY <1>2, <1>3, <1>4 DEF TypeOK, Holder, AnyContext
  <2> QED
    BY <1>3, <2>1 DEF Reply
<1> HIDE DEF r, c, id, from, last
<1>6. callsHolder' \in CallsHolder
  BY <1>1, <1>2, <1>3, Remove DEF TypeOK, CallsAfter
<1>7. request' \in [Contexts -> Holder] /\ response' \in [Contexts -> Holder]
  BY <1>1, <1>2, <1>3, ReleaseType DEF TypeOK, Released, Holder
<1>8. seen' \in [Ids -> Phases]
  BY <1>1, <1>3, <1>5, HeardType DEF TypeOK
<1> QED
  BY <1>1, <1>2, <1>3, <1>5, <1>6, <1>7, <1>8 DEF TypeOK, Holder, AnyContext

LEMMA FillType ==
  ASSUME TypeOK, NEW c \in Contexts, NEW id \in Ids, Fill(c, id)
  PROVE  TypeOK'
BY DEF TypeOK, Fill, Holder, AnyId, Takes, AnyContext

\* What is given up is ids.
LEMMA GivenUpType ==
  ASSUME TypeOK
  PROVE  /\ \A c : Replaced(c) \subseteq AnyId
         /\ \A id \in AnyId : \A outcome : Unheard(id, outcome) \subseteq AnyId
<1>1. \A i \in Slots : callsHolder[i].call_id \in AnyId
  BY DEF TypeOK, CallsHolder, Call
<1> QED
  BY <1>1 DEF Replaced, Unheard

LEMMA AppInitType == AppInit => AppTyped
<1> SUFFICES ASSUME AppInit PROVE AppTyped
  OBVIOUS
<1>1. TypeOK
  BY InitType DEF AppInit
<1> QED
  BY <1>1
  DEF AppInit, AppTyped, AppTypeOK, ServingHasContext, Shared, AnyId, AnyContext

LEMMA AppNextType == AppTyped /\ [AppNext]_appVars => AppTyped'
<1> SUFFICES ASSUME AppTyped, [AppNext]_appVars PROVE AppTyped'
  OBVIOUS
<1>1. /\ TypeOK
      /\ serving \in [method : WithCallback, id : AnyId] \cup {Nothing}
      /\ shared \in [call_id : AnyId, type : {"none", "STREAM", "END_OF_CALL"},
                     from : AnyContext]
      /\ jobs \subseteq Contexts \X Ids
      /\ lost \subseteq AnyId
      /\ ServingHasContext
  BY DEF AppTyped, AppTypeOK
<1>2. CASE UNCHANGED appVars
  BY <1>1, <1>2
  DEF appVars, vars, AppTyped, AppTypeOK, TypeOK, ServingHasContext
<1>3. ASSUME NEW outcome \in Outcomes,
             Undecodable(outcome) \/ \E id \in AnyId : Turned(id, outcome)
      PROVE  AppTyped'
  <2>1. TypeOK'
    BY <1>1, <1>3, TurnedIsParse, NextType
  <2>2. UNCHANGED <<serving, shared, jobs>>
    BY <1>3 DEF Undecodable, Turned
  <2>3. lost' \subseteq AnyId
    BY <1>1, <1>3, GivenUpType DEF Undecodable, Turned
  <2> QED
    BY <1>1, <2>1, <2>2, <2>3 DEF AppTyped, AppTypeOK, ServingHasContext
<1>4. ASSUME NEW m \in Methods, NEW id \in AnyId, Enter(m, id)
      PROVE  AppTyped'
  <2>1. TypeOK'
    BY <1>1, <1>4, EnterType
  <2>2. m \in WithCallback /\ ContextOf[m] \in Contexts
    BY <1>4, ContextType DEF Enter, CanServe
  <2>3. lost' \subseteq AnyId
    BY <1>1, <1>4, GivenUpType DEF Enter
  <2> QED
    BY <1>1, <1>4, <2>1, <2>2, <2>3
    DEF Enter, AppTyped, AppTypeOK, ServingHasContext, Shared, AnyContext
<1>5. CASE Return
  <2>1. TypeOK'
    <3>1. CASE ReturnLater
      <4>1. ContextOf[serving.method] \in Contexts
        BY <3>1, ServingType DEF ReturnLater, Returns
      <4> QED
        BY <1>1, <3>1, <4>1, LaterWaits, WaitsType
    <3> QED
      BY <1>5, <3>1, ReturnType DEF Return
  <2>2. serving # Nothing
    BY <1>5 DEF Return, ReturnLater, ReturnAnswer, Returns
  <2>3. serving.id \in AnyId /\ ContextOf[serving.method] \in Contexts
    BY <2>2, ServingType
  <2>4. serving' = Nothing /\ shared' = Shared(ZeroId, "none", NoContext)
    BY <1>5 DEF Return, ReturnLater, ReturnAnswer, Returns
  <2>5. \A over : Deferred(serving.id, over) \subseteq Contexts \X Ids
    BY <1>1, <2>3 DEF Deferred, ng_isCallOngoing, AnyId
  <2>6. jobs' \subseteq Contexts \X Ids
    BY <1>5, <2>5 DEF Return, ReturnLater, ReturnAnswer
  <2>7. lost' \subseteq AnyId
    BY <1>1, <1>5, <2>3, GivenUpType DEF Return, ReturnLater, ReturnAnswer
  <2> QED
    BY <2>1, <2>4, <2>6, <2>7
    DEF AppTyped, AppTypeOK, ServingHasContext, Shared, AnyId, AnyContext
<1>6. ASSUME NEW c \in Contexts, NEW id \in Ids,
             \/ Fill(c, id) \/ Refused(c, id) \/ EncodeFailed(c, id)
             \/ Stream(c, id) \/ Finish(c, id)
      PROVE  AppTyped'
  <2>1. TypeOK'
    <3>1. CASE Fill(c, id)
      BY <1>1, <3>1, FillType
    <3> QED
      BY <1>1, <1>6, <3>1, AnswerIsFollow, NextType
  <2>2. serving' = serving /\ lost' = lost /\ jobs' \subseteq jobs
    BY <1>6 DEF Fill, Refused, EncodeFailed, Stream, Finish
  <2>3. \/ shared' = shared
        \/ \E i \in AnyId, type \in {"none", "STREAM", "END_OF_CALL"},
             from \in AnyContext : shared' = Shared(i, type, from)
    <3>1. ctxCallId[c] \in AnyId /\ ZeroId \in AnyId
          /\ c \in AnyContext /\ NoContext \in AnyContext
      BY <1>1 DEF TypeOK, AnyId, AnyContext
    <3> QED
      BY <1>6, <3>1
      DEF Fill, Refused, EncodeFailed, Stream, Finish, Leaves, TypeOf
  <2> QED
    BY <1>1, <2>1, <2>2, <2>3 DEF AppTyped, AppTypeOK, ServingHasContext, Shared
<1> QED
  BY <1>2, <1>3, <1>4, <1>5, <1>6 DEF AppNext

\* Every variable keeps its type, whatever the clients, the callbacks and the
\* jobs do, and whether or not callbacks use the interface.
THEOREM AppTyping == AppSpec => []AppTypeOK
<1>1. AppTyped => AppTypeOK
  BY DEF AppTyped
<1> QED
  BY <1>1, AppInitType, AppNextType, PTL DEF AppSpec

-----------------------------------------------------------------------------
(***************************************************************************)
(* When every request has a new id, and a callback that used the interface *)
(* itself leaves its call for later.  JobsAreOngoing is not inductive: a   *)
(* job answers the call it was left, and not another one, because the id   *)
(* it has is nobody else's.                                                *)
(***************************************************************************)

\* The context of the callback that runs has the id of the request, which no job
\* has yet.
ServingSound ==
  serving # Nothing =>
    /\ ContextOf[serving.method] \in Contexts
    /\ ctxCallId[ContextOf[serving.method]] = serving.id
    /\ \A job \in jobs : job[2] # serving.id

\* A job's call is ongoing on its context or was given up, its id was used, and
\* is not ongoing anywhere else.
Tended(c, id) ==
  /\ seen[id] # "fresh"
  /\ \A call \in Ongoings : call.call_id = id => call.context = c
  /\ id \in lost \/ CallOf(c, id) \in Ongoings

JobsTended == \A job \in jobs : Tended(job[1], job[2])

AppInv == AppTyped /\ UniqueInv /\ ServingSound /\ JobsTended

LEMMA TendedIsOngoing == AppInv => JobsAreOngoing
<1> SUFFICES ASSUME AppInv, NEW job \in jobs, job[2] \notin lost
             PROVE  \E i \in Slots : callsHolder[i] = CallOf(job[1], job[2])
  BY DEF JobsAreOngoing, CallOf
<1>1. CallOf(job[1], job[2]) \in Ongoings
  BY DEF AppInv, JobsTended, Tended
<1> QED
  BY <1>1 DEF Ongoings, Calls

\* What the application may answer is ongoing on the context it answers with.
LEMMA MayAnswerIsOwn ==
  ASSUME AppInv, NEW c \in Contexts, NEW id \in Ids, MayAnswer(c, id)
  PROVE  ctxCallId[c] = id /\ CallOf(c, id) \in Ongoings
<1>1. callsHolder \in CallsHolder /\ id \in AnyId
  BY DEF AppInv, UniqueInv, SoundInv, TypeOK, AnyId
<1>2. PICK call \in Ongoings : call.call_id = id
  BY <1>1, OngoingCalls DEF MayAnswer, Ongoings
<1>3. call.context = c
  <2>1. CASE <<c, id>> \in jobs
    BY <1>2, <2>1 DEF AppInv, JobsTended, Tended
  <2>2. CASE <<c, id>> \notin jobs
    <3>1. serving # Nothing /\ c = ContextOf[serving.method] /\ id = serving.id
      BY <2>2 DEF MayAnswer, Work
    <3>2. ctxCallId[c] = id
      BY <3>1 DEF AppInv, ServingSound
    <3> QED
      BY <1>2, <3>2, OtherIds DEF AppInv
  <2> QED
    BY <2>1, <2>2
<1> QED
  BY <1>2, <1>3, OngoingSound DEF AppInv, UniqueInv

\* So the holder a job fills is that of its call, as in NgServer.
LEMMA FillIsPrepare ==
  ASSUME AppInv, NEW c \in Contexts, NEW id \in Ids, Fill(c, id)
  PROVE  Prepare(c)
BY MayAnswerIsOwn DEF Fill, Prepare, MayAnswer

(***************************************************************************)
(* What the application does beyond the steps of the server: a request     *)
(* whose callback starts to run, and the answer the callback returns.      *)
(***************************************************************************)
Serves(c, id) ==
  /\ MayRequest(id)
  /\ CanRegister(ng_getValidContext(c))
  /\ callsHolder' = Registered(c, id)
  /\ ctxCallId' = [ctxCallId EXCEPT ![c] = id]
  /\ request' = [request EXCEPT ![c] = id]
  /\ response' = [response EXCEPT ![c] = Empty]
  /\ reply' = NoReply
  /\ came' = id
  /\ Takes(c, Lost(request, c) \cup Lost(response, c))
  /\ seen' = Asked(id)

Replies(c, id, last) ==
  /\ callsHolder' = CallsAfter(id, last)
  /\ request' = Release(request, c)
  /\ response' = [response EXCEPT ![c] = Released(id)]
  /\ ctxCallId' = ctxCallId
  /\ came' = Empty
  /\ Takes(c, {})
  /\ \/ reply' = NoReply /\ seen' = seen
     \/ /\ seen' = Heard(seen, reply')
        /\ reply' # NoReply
        /\ reply'.call_id = id
        /\ reply'.data \in {id, Empty}
        /\ reply'.type = IF last THEN "END_OF_CALL" ELSE "none"

LEMMA EnterServes ==
  ASSUME NEW m \in Methods, NEW id \in AnyId, Enter(m, id)
  PROVE  ContextOf[m] \in Contexts /\ Serves(ContextOf[m], id)
<1>1. ContextOf[m] \in Contexts
  BY ContextType DEF Enter
<1> QED
  BY <1>1 DEF Enter, Serves, CanServe, response_fillWithZeros

LEMMA ReturnReplies ==
  ASSUME AppInv, AfterNested \subseteq {"WillRespondLater"},
         NEW status \in CallbackStatus, NEW valid \in BOOLEAN,
         NEW outcome \in Outcomes, ReturnAnswer(status, valid, outcome)
  PROVE  Replies(ContextOf[serving.method], serving.id,
                 status # "Failed" /\ IsOver(serving.method, status))
<1> DEFINE id   == serving.id
           c    == ContextOf[serving.method]
           over == IsOver(serving.method, status)
           last == status # "Failed" /\ over
           from == IF status # "Failed" /\ valid THEN c ELSE shared.from
           r    == [ call_id |-> shared.call_id,
                     status  |-> IF status # "Failed" /\ valid THEN "OK"
                                 ELSE "INTERNAL",
                     type    |-> IF last THEN "END_OF_CALL" ELSE shared.type,
                     data    |-> IF from = NoContext THEN Empty
                                 ELSE IF from = c THEN id ELSE response[from] ]
<1>1. /\ callsHolder' = CallsAfter(id, last)
      /\ request' = Release(request, c)
      /\ response' = [response EXCEPT ![c] = Released(id)]
      /\ reply' = IF outcome = "sent" THEN r ELSE NoReply
      /\ seen' = IF outcome = "sent" THEN Heard(seen, r) ELSE seen
      /\ ctxCallId' = ctxCallId
      /\ came' = Empty
      /\ Takes(c, {})
  BY DEF ReturnAnswer, Returns
<1>2. Undisturbed /\ serving # Nothing
  BY DEF ReturnAnswer, Returns
<1>3. shared.call_id = id /\ shared.type = "none" /\ shared.from = NoContext
  BY <1>2 DEF Undisturbed, Shared
<1>4. /\ r.call_id = id /\ r.data \in {id, Empty}
      /\ r.type = IF last THEN "END_OF_CALL" ELSE "none"
  BY <1>3
<1>5. r # NoReply
  <2>1. id \in AnyId
    BY <1>2, ServingType DEF AppInv
  <2>2. r.data \in Holder
    BY <1>4, <2>1 DEF Holder
  <2>3. r.type \in {"none", "STREAM", "END_OF_CALL"} /\ r.call_id \in AnyId
    BY <1>4, <2>1
  <2>4. r \in Reply
    BY <2>2, <2>3 DEF Reply, Status
  <2> QED
    BY <2>4
<1> HIDE DEF r, id, c, last
<1>6. Replies(c, id, last)
  BY <1>1, <1>4, <1>5 DEF Replies
<1> QED
  BY <1>6 DEF c, id, last

\* What they do to the calls and the ids.
LEMMA WaitsUnique ==
  ASSUME UniqueInv, TypeOK', NEW c, Waits(c)
  PROVE  UniqueInv'
BY DEF Waits, UniqueInv, SoundInv, TableSound, OngoingIsOpen, Ongoing, UsedIds, OwnIds

LEMMA ServesUnique ==
  ASSUME UniqueInv, TypeOK', Reusable = {}, NEW c \in Contexts, NEW id \in AnyId,
         Serves(c, id)
  PROVE  /\ UniqueInv'
         /\ Ongoings' = OnOthers(c) \cup (IF id = ZeroId THEN {} ELSE {CallOf(c, id)})
<1>1. /\ MayRequest(id)
      /\ CanRegister(ng_getValidContext(c))
      /\ callsHolder' = Registered(c, id)
      /\ ctxCallId' = [ctxCallId EXCEPT ![c] = id]
      /\ seen' = Asked(id)
  BY DEF Serves
<1>2. /\ \A j \in Ids \ {id} : seen'[j] = seen[j]
      /\ id \in Ids => seen'[id] = "open"
      /\ id \in Ids => seen[id] = "fresh"
  BY <1>1 DEF Asked, MayRequest
<1>3. SoundInv'
  BY <1>1, <1>2, RequestIsNew, KeptSound DEF UniqueInv
<1>4. \A j \in Ids : seen[j] # "fresh" => seen'[j] # "fresh"
  BY <1>2
<1>5. UniqueInv'
  BY <1>1, <1>2, <1>3, <1>4, StepUnique
<1> QED
  BY <1>1, <1>5, ServeCalls DEF Ongoings

LEMMA RepliesUnique ==
  ASSUME UniqueInv, TypeOK', NEW c \in Contexts, NEW id \in AnyId,
         NEW last \in BOOLEAN, ctxCallId[c] = id, Replies(c, id, last)
  PROVE  /\ UniqueInv'
         /\ Ongoings' = IF last THEN OnOthers(c) ELSE Ongoings
         /\ \A j \in Ids : seen[j] # "fresh" => seen'[j] # "fresh"
<1>1. callsHolder \in CallsHolder /\ seen \in [Ids -> Phases]
  BY DEF UniqueInv, SoundInv, TypeOK
<1>2. ctxCallId' = ctxCallId /\ callsHolder' = CallsAfter(id, last)
  BY DEF Replies
<1>3. /\ \A j \in Ids \ {id} : seen'[j] = seen[j]
      /\ id \in Ids /\ ~ last => seen'[id] \in {seen[id], "failed"}
      /\ \A j \in Ids : seen[j] # "fresh" => seen'[j] # "fresh"
  BY <1>1 DEF Replies, Heard
<1>4. SoundInv'
  <2>1. CASE last
    <3>1. \A i \in Slots :
            callsHolder'[i] = IF id # ZeroId /\ callsHolder[i].call_id = id
                              THEN FreeCall ELSE callsHolder[i]
      BY <1>1, <1>2, <2>1, SoundIsDistinct, RemoveDistinct
      DEF UniqueInv, SoundInv, CallsAfter
    <3> QED
      BY <1>2, <1>3, <3>1, StepSound DEF UniqueInv, Ongoing, FreeCall
  <2>2. CASE ~ last
    BY <1>2, <1>3, <2>2
    DEF UniqueInv, SoundInv, TableSound, OngoingIsOpen, Ongoing, CallsAfter
  <2> QED
    BY <2>1, <2>2
<1>5. UniqueInv'
  BY <1>2, <1>3, <1>4, StepUnique
<1>6. last => Ongoings' = OnOthers(c)
  BY <1>2, VacateCalls DEF CallsAfter, ng_getValidContext, Ongoings
<1>7. ~ last => Ongoings' = Ongoings
  BY <1>2 DEF CallsAfter, Ongoings
<1> QED
  BY <1>3, <1>5, <1>6, <1>7

\* What the server's own steps do to the ids that were used.
LEMMA NextUsed ==
  ASSUME [Next]_vars, NEW j \in Ids, seen[j] # "fresh"
  PROVE  seen'[j] # "fresh"
<1>1. CASE UNCHANGED vars
  BY <1>1 DEF vars
<1>2. ASSUME NEW id, NEW r, NEW outcome, Respond(id, r, outcome)
      PROVE  seen'[j] # "fresh"
  BY <1>2, RespondUsed
<1>3. ASSUME NEW m, NEW id, NEW outcome, ParseNonBlocking(m, id, outcome)
      PROVE  seen'[j] # "fresh"
  <2>1. CASE ParseDeferred(m, id)
    BY <2>1, AskedUsed DEF ParseDeferred
  <2> QED
    BY <1>2, <1>3, <2>1
    DEF ParseNonBlocking, ParseUnimplemented, ParseNoContext, ParseTableFull,
        ParseBadPayload, ParseFailed, ParseAnswered
<1>4. CASE Parse
  BY <1>2, <1>3, <1>4 DEF Parse, ParseUndecodable, ParseNotFound
<1>5. CASE Follow
  <2>1. seen' = seen \/ \E r : seen' = Heard(seen, r)
    BY <1>5
    DEF Follow, Prepare, Refuse, AsyncEncodeFailed, AsyncResponse, endOfCall
  <2> QED
    BY <2>1, HeardUsed
<1> QED
  BY <1>1, <1>4, <1>5 DEF Next

(***************************************************************************)
(* And what becomes of the jobs: the call of a context goes to a request,  *)
(* the call of a context ends, or the calls stay as they are.              *)
(***************************************************************************)
NoIdForgotten == \A j \in Ids : seen[j] # "fresh" => seen'[j] # "fresh"

LEMMA StepTended ==
  ASSUME NEW d, NEW j \in Ids, Tended(d, j), NoIdForgotten, lost \subseteq lost',
         \A call \in Ongoings' : call.call_id = j => call \in Ongoings,
         CallOf(d, j) \in Ongoings => j \in lost' \/ CallOf(d, j) \in Ongoings'
  PROVE  Tended(d, j)'
BY DEF Tended, NoIdForgotten

LEMMA ServedTended ==
  ASSUME AppInv, Reusable = {}, NEW c \in Contexts, NEW id \in AnyId,
         MayRequest(id), NoIdForgotten, jobs' = jobs,
         lost \subseteq lost', Replaced(c) \subseteq lost',
         OnOthers(c) \subseteq Ongoings',
         Ongoings' \subseteq OnOthers(c) \cup {CallOf(c, id)}
  PROVE  JobsTended'
<1> SUFFICES ASSUME NEW job \in jobs PROVE Tended(job[1], job[2])'
  BY DEF JobsTended
<1> DEFINE d == job[1]
           j == job[2]
<1>1. j \in Ids /\ Tended(d, j)
  BY DEF AppInv, AppTyped, AppTypeOK, JobsTended
<1> HIDE DEF d, j
<1>2. j # id
  BY <1>1 DEF Tended, MayRequest
<1>3. \A call \in Ongoings' : call.call_id = j => call \in Ongoings
  BY <1>2 DEF OnOthers, CallOf
<1>4. CallOf(d, j) \in Ongoings => j \in lost' \/ CallOf(d, j) \in Ongoings'
  <2>1. CASE d = c
    <3>1. CallOf(d, j) \in Ongoings => j \in Replaced(c)
      BY <2>1 DEF Ongoings, Calls, CallOf, Replaced, Ongoing
    <3> QED
      BY <3>1
  <2>2. CASE d # c
    BY <2>2 DEF OnOthers, CallOf
  <2> QED
    BY <2>1, <2>2
<1>5. Tended(d, j)'
  BY <1>1, <1>3, <1>4, StepTended
<1> QED
  BY <1>5 DEF d, j

LEMMA EndedTended ==
  ASSUME AppInv, NEW c \in Contexts, NoIdForgotten, lost \subseteq lost',
         Ongoings' = OnOthers(c),
         \A job \in jobs' : job \in jobs /\ (job[1] = c => job[2] # ctxCallId[c])
  PROVE  JobsTended'
<1> SUFFICES ASSUME NEW job \in jobs' PROVE Tended(job[1], job[2])'
  BY DEF JobsTended
<1> DEFINE d == job[1]
           j == job[2]
<1>1. j \in Ids /\ Tended(d, j) /\ (d = c => j # ctxCallId[c])
  BY DEF AppInv, AppTyped, AppTypeOK, JobsTended
<1> HIDE DEF d, j
<1>2. \A call \in Ongoings' : call.call_id = j => call \in Ongoings
  BY DEF OnOthers
<1>3. CallOf(d, j) \in Ongoings => d # c
  <2> SUFFICES ASSUME CallOf(d, j) \in Ongoings PROVE d # c
    OBVIOUS
  <2>1. CallOf(d, j).call_id = j /\ CallOf(d, j).context = d
    BY DEF CallOf
  <2> QED
    BY <1>1, <2>1, OngoingSound DEF AppInv, UniqueInv
<1>4. CallOf(d, j) \in Ongoings => CallOf(d, j) \in Ongoings'
  BY <1>3 DEF OnOthers, CallOf
<1>5. Tended(d, j)'
  BY <1>1, <1>2, <1>4, StepTended
<1> QED
  BY <1>5 DEF d, j

LEMMA KeptTended ==
  ASSUME AppInv, NoIdForgotten, lost \subseteq lost', Ongoings' = Ongoings,
         \A job \in jobs' :
           job \in jobs \/ \E c \in Contexts, id \in Ids :
                              job = <<c, id>> /\ CallOf(c, id) \in Ongoings
  PROVE  JobsTended'
<1> SUFFICES ASSUME NEW job \in jobs' PROVE Tended(job[1], job[2])'
  BY DEF JobsTended
<1> DEFINE d == job[1]
           j == job[2]
<1>1. CASE job \in jobs
  <2>1. j \in Ids /\ Tended(d, j)
    BY <1>1 DEF AppInv, AppTyped, AppTypeOK, JobsTended
  <2> HIDE DEF d, j
  <2>2. Tended(d, j)'
    BY <2>1, StepTended
  <2> QED
    BY <2>2 DEF d, j
<1>2. CASE job \notin jobs
  <2>1. d \in Contexts /\ j \in Ids /\ CallOf(d, j) \in Ongoings
    BY <1>2
  <2> HIDE DEF d, j
  <2>2. seen[j] # "fresh" /\ ctxCallId[d] = j
    <3>1. CallOf(d, j).call_id = j /\ CallOf(d, j).context = d
      BY DEF CallOf
    <3> QED
      BY <2>1, <3>1, OngoingSound DEF AppInv, UniqueInv
  <2>3. \A call \in Ongoings : call.call_id = j => call.context = d
    BY <2>1, <2>2, OtherIds DEF AppInv
  <2>4. Tended(d, j)'
    BY <2>1, <2>2, <2>3 DEF Tended, NoIdForgotten
  <2> QED
    BY <2>4 DEF d, j
<1> QED
  BY <1>1, <1>2

-----------------------------------------------------------------------------
\* A request that does not get to a callback may take the slot of its context,
\* and gives that call up.
LEMMA TurnedInv ==
  ASSUME AppInv, AppTyped', Reusable = {}, NEW outcome \in Outcomes,
         Undecodable(outcome) \/ \E id \in AnyId : Turned(id, outcome)
  PROVE  AppInv'
<1>1. UniqueInv' /\ NoIdForgotten
  BY TurnedIsParse, NextUnique, NextUsed DEF AppInv, NoIdForgotten
<1>2. ServingSound' /\ jobs' = jobs /\ lost \subseteq lost'
  BY DEF Undecodable, Turned, ServingSound
<1>3. CASE callsHolder' = callsHolder
  <2>1. JobsTended'
    BY <1>1, <1>2, <1>3, KeptTended DEF Ongoings
  <2> QED
    BY <1>1, <1>2, <2>1 DEF AppInv
<1>4. ASSUME NEW m \in Methods, NEW id \in AnyId,
             ParseTableFull(m, id, outcome) \/ ParseBadPayload(m, id, outcome),
             Replaced(ContextOf[m]) \subseteq lost'
      PROVE  AppInv'
  <2> DEFINE c == ContextOf[m]
  <2>1. CanServe(m, id)
    BY <1>4 DEF ParseTableFull, ParseBadPayload
  <2>2. c \in Contexts /\ MayRequest(id)
    BY <2>1, ContextType DEF CanServe
  <2>3. Ongoings' = OnOthers(c)
    <3>1. CASE ParseTableFull(m, id, outcome)
      BY <2>2, <3>1, VacateCalls DEF ParseTableFull, AppInv, Ongoings
    <3>2. CASE ParseBadPayload(m, id, outcome)
      BY <2>2, <3>2, ServeCalls DEF ParseBadPayload, AppInv, Ongoings
    <3> QED
      BY <1>4, <3>1, <3>2
  <2> HIDE DEF c
  <2>4. Replaced(c) \subseteq lost'
    BY <1>4 DEF c
  <2>5. JobsTended'
    BY <1>1, <1>2, <2>2, <2>3, <2>4, ServedTended
  <2> QED
    BY <1>1, <1>2, <2>5 DEF AppInv
<1> QED
  BY <1>3, <1>4
  DEF Undecodable, Turned, ParseUndecodable, ParseNotFound, ParseUnimplemented,
      ParseNoContext

\* A callback starts with a call of its own, that no job has.
LEMMA EnterInv ==
  ASSUME AppInv, AppTyped', Reusable = {}, NEW m \in Methods, NEW id \in AnyId,
         Enter(m, id)
  PROVE  AppInv'
<1> DEFINE c == ContextOf[m]
<1>1. c \in Contexts /\ Serves(c, id)
  BY EnterServes
<1>2. /\ serving' = [method |-> m, id |-> id]
      /\ jobs' = jobs
      /\ lost' = lost \cup Replaced(c)
  BY DEF Enter
<1>3. ServingSound'
  <2>1. ContextOf[serving'.method] = c /\ serving'.id = id
    BY <1>2
  <2>2. ctxCallId'[c] = id /\ MayRequest(id)
    BY <1>1 DEF Serves, AppInv, UniqueInv, SoundInv, TypeOK
  <2>3. \A job \in jobs : job[2] # id
    BY <2>2 DEF AppInv, JobsTended, Tended, AppTyped, AppTypeOK, MayRequest
  <2> QED
    BY <1>1, <1>2, <2>1, <2>2, <2>3 DEF ServingSound
<1> HIDE DEF c
<1>4. TypeOK'
  BY DEF AppTyped, AppTypeOK
<1>5. /\ UniqueInv'
      /\ Ongoings' = OnOthers(c) \cup (IF id = ZeroId THEN {} ELSE {CallOf(c, id)})
  BY <1>1, <1>4, ServesUnique DEF AppInv
<1>6. NoIdForgotten /\ MayRequest(id)
  BY <1>1, AskedUsed DEF Serves, NoIdForgotten
<1>7. JobsTended'
  BY <1>1, <1>2, <1>5, <1>6, ServedTended
<1> QED
  BY <1>3, <1>5, <1>7 DEF AppInv

\* A job is left with a call that is ongoing on the context of the callback.
LEMMA DeferredIsOngoing ==
  ASSUME AppInv, serving # Nothing, NEW over
  PROVE  \A job \in Deferred(serving.id, over) :
           job \in jobs \/ \E c \in Contexts, id \in Ids :
                              job = <<c, id>> /\ CallOf(c, id) \in Ongoings
<1> DEFINE c == ContextOf[serving.method]
           id == serving.id
<1>1. c \in Contexts /\ id \in AnyId /\ ctxCallId[c] = id
  BY ServingType DEF AppInv, ServingSound
<1>2. Deferred(id, over) = IF ~ over /\ ng_isCallOngoing(callsHolder, id)
                           THEN jobs \cup {<<c, id>>} ELSE jobs
  BY DEF Deferred
<1> HIDE DEF c, id
<1>3. ASSUME ng_isCallOngoing(callsHolder, id)
      PROVE  id \in Ids /\ CallOf(c, id) \in Ongoings
  <2>1. callsHolder \in CallsHolder
    BY DEF AppInv, UniqueInv, SoundInv, TypeOK
  <2>2. PICK call \in Ongoings : call.call_id = id
    BY <1>1, <1>3, <2>1, OngoingCalls DEF Ongoings
  <2>3. call.context = c
    BY <1>1, <2>2, OtherIds DEF AppInv
  <2> QED
    BY <2>2, <2>3, OngoingSound DEF AppInv, UniqueInv
<1> QED
  BY <1>1, <1>2, <1>3 DEF id

\* A callback returns and its call ends, or stays with a job or with nobody.
LEMMA ReturnInv ==
  ASSUME AppInv, AppTyped', Reusable = {}, AfterNested \subseteq {"WillRespondLater"},
         Return
  PROVE  AppInv'
<1> DEFINE c == ContextOf[serving.method]
           id == serving.id
<1>1. serving # Nothing /\ serving' = Nothing
  BY DEF Return, ReturnLater, ReturnAnswer, Returns
<1>2. /\ c \in Contexts /\ id \in AnyId /\ ctxCallId[c] = id
      /\ \A job \in jobs : job[2] # id
  BY <1>1, ServingType DEF AppInv, ServingSound
<1>3. ServingSound'
  BY <1>1 DEF ServingSound
<1>4. CASE ReturnLater
  <2>1. UniqueInv' /\ NoIdForgotten
    BY <1>4, LaterWaits, WaitsUnique
    DEF AppInv, AppTyped, AppTypeOK, Waits, NoIdForgotten
  <2>2. /\ jobs' = Deferred(serving.id, FALSE)
        /\ lost' = lost
        /\ Ongoings' = Ongoings
    BY <1>4 DEF ReturnLater, Ongoings
  <2>3. JobsTended'
    BY <1>1, <2>1, <2>2, DeferredIsOngoing, KeptTended
  <2> QED
    BY <1>3, <2>1, <2>3 DEF AppInv
<1>5. ASSUME NEW status \in CallbackStatus, NEW valid \in BOOLEAN,
             NEW outcome \in Outcomes, ReturnAnswer(status, valid, outcome)
      PROVE  AppInv'
  <2> DEFINE over == IsOver(serving.method, status)
             last == status # "Failed" /\ over
  <2>1. Replies(c, id, last)
    BY <1>5, ReturnReplies
  <2>2. /\ jobs' = Deferred(id, status # "WillContinueLater" \/ over)
        /\ lost \subseteq lost'
    BY <1>5 DEF ReturnAnswer
  <2>3. TypeOK' /\ last \in BOOLEAN
    BY DEF AppTyped, AppTypeOK
  <2>4. last => jobs' = jobs
    BY <2>2 DEF Deferred, IsOver
  <2>5. \A job \in jobs' :
          job \in jobs \/ \E d \in Contexts, j \in Ids :
                             job = <<d, j>> /\ CallOf(d, j) \in Ongoings
    BY <1>1, <2>2, DeferredIsOngoing
  <2> HIDE DEF c, id, last
  <2>6. /\ UniqueInv'
        /\ Ongoings' = IF last THEN OnOthers(c) ELSE Ongoings
        /\ NoIdForgotten
    BY <1>2, <2>1, <2>3, RepliesUnique DEF AppInv, NoIdForgotten
  <2>7. JobsTended'
    <3>1. CASE last
      BY <1>2, <2>2, <2>4, <2>6, <3>1, EndedTended
    <3>2. CASE ~ last
      BY <2>2, <2>5, <2>6, <3>2, KeptTended
    <3> QED
      BY <3>1, <3>2
  <2> QED
    BY <1>3, <2>6, <2>7 DEF AppInv
<1> QED
  BY <1>4, <1>5 DEF Return

\* A job that ends its call is done; the other jobs keep theirs.
LEMMA AnswerInv ==
  ASSUME AppInv, AppTyped', Reusable = {}, NEW c \in Contexts, NEW id \in Ids,
         \/ Fill(c, id)
         \/ Refused(c, id)
         \/ EncodeFailed(c, id)
         \/ Stream(c, id)
         \/ Finish(c, id)
  PROVE  AppInv'
<1>1. Next
  <2>1. Fill(c, id) => Next
    BY FillIsPrepare DEF Next, Follow
  <2> QED
    BY <2>1, AnswerIsFollow
<1>2. UniqueInv' /\ NoIdForgotten
  BY <1>1, NextUnique, NextUsed DEF AppInv, NoIdForgotten
<1>3. /\ serving' = serving /\ lost' = lost /\ jobs' \subseteq jobs
      /\ ctxCallId' = ctxCallId
  BY DEF Fill, Refused, EncodeFailed, Stream, Finish, Refuse, AsyncEncodeFailed,
         AsyncResponse, endOfCall
<1>4. ServingSound'
  BY <1>3 DEF AppInv, ServingSound
<1>5. CASE Finish(c, id)
  <2>1. ctxCallId[c] = id
    BY <1>5, MayAnswerIsOwn DEF Finish
  <2>2. callsHolder' = ng_removeCall(callsHolder, ctxCallId[c])
    BY <1>5 DEF Finish, AsyncResponse, endOfCall, CallsAfter
  <2>3. Ongoings' = OnOthers(c)
    BY <2>2, VacateCalls DEF AppInv, ng_getValidContext, Ongoings
  <2>4. jobs' = jobs \ {<<c, id>>} /\ jobs \subseteq Contexts \X Ids
    BY <1>5 DEF Finish, AppInv, AppTyped, AppTypeOK
  <2>5. \A job \in jobs' : job \in jobs /\ (job[1] = c => job[2] # ctxCallId[c])
    BY <2>1, <2>4
  <2>6. JobsTended'
    BY <1>2, <1>3, <2>3, <2>5, EndedTended
  <2> QED
    BY <1>2, <1>4, <2>6 DEF AppInv
<1>6. CASE ~ Finish(c, id)
  <2>1. callsHolder' = callsHolder
    BY <1>6
    DEF Fill, Refused, EncodeFailed, Stream, Refuse, AsyncEncodeFailed,
        AsyncResponse, CallsAfter, TypeOf
  <2>2. JobsTended'
    BY <1>2, <1>3, <2>1, KeptTended DEF Ongoings
  <2> QED
    BY <1>2, <1>4, <2>2 DEF AppInv
<1> QED
  BY <1>5, <1>6

\* Nobody works for anybody at the start.
LEMMA AppInitInv == AppInit => AppInv
<1> SUFFICES ASSUME AppInit PROVE AppInv
  OBVIOUS
<1>1. UniqueInv
  BY InitHeld DEF AppInit, HeldInv
<1>2. ServingSound /\ JobsTended
  BY DEF AppInit, ServingSound, JobsTended
<1> QED
  BY <1>1, <1>2, AppInitType DEF AppInv

\* Every step of the application keeps the invariant.
LEMMA AppNextInv ==
  ASSUME Reusable = {}, AfterNested \subseteq {"WillRespondLater"},
         AppInv, [AppNext]_appVars
  PROVE  AppInv'
<1>1. AppTyped'
  BY AppNextType DEF AppInv
<1>2. CASE UNCHANGED appVars
  <2>1. UNCHANGED vars /\ UNCHANGED <<serving, jobs, lost, ctxCallId, seen>>
    BY <1>2 DEF appVars, vars
  <2>2. UniqueInv'
    BY <2>1, NextUnique DEF AppInv
  <2>3. ServingSound'
    BY <2>1 DEF AppInv, ServingSound
  <2>4. JobsTended'
    BY <2>1, KeptTended DEF NoIdForgotten, Ongoings, vars
  <2> QED
    BY <1>1, <2>2, <2>3, <2>4 DEF AppInv
<1>3. CASE AppNext
  BY <1>1, <1>3, TurnedInv, EnterInv, ReturnInv, AnswerInv DEF AppNext
<1> QED
  BY <1>2, <1>3

LEMMA AppInvariance ==
  ASSUME Reusable = {}, AfterNested \subseteq {"WillRespondLater"}
  PROVE  AppSpec => []AppInv
BY AppInitInv, AppNextInv, PTL DEF AppSpec

\* A job is never without its call, unless the call was given up: what a
\* callback left for later stays ongoing on its context until it is ended,
\* whatever callbacks and other jobs do meanwhile.
THEOREM JobsOngoing ==
  ASSUME Reusable = {}, AfterNested \subseteq {"WillRespondLater"}
  PROVE  AppSpec => []JobsAreOngoing
BY AppInvariance, TendedIsOngoing, PTL

\* Callbacks that use the interface before they return do not upset the calls
\* holder: what NgServer promises of it, where callbacks do not, still holds.
THEOREM AppSoundness ==
  ASSUME Reusable = {}, AfterNested \subseteq {"WillRespondLater"}
  PROVE  AppSpec => [](/\ TableSound
                       /\ ValidContextIsFree
                       /\ OthersKeepTheirPlace
                       /\ OngoingMeansThisContext)
<1>1. AppInv => /\ TableSound
                /\ ValidContextIsFree
                /\ OthersKeepTheirPlace
                /\ OngoingMeansThisContext
  BY SoundIsVacated, UniqueOthers, UniqueOwn DEF AppInv, UniqueInv, SoundInv
<1> QED
  BY <1>1, AppInvariance, PTL

-----------------------------------------------------------------------------
\* What a step of the application is to the server: one of its own, one of the
\* two halves of ng_GrpcParseNonBlocking, or a second half with nothing in it.
LEMMA AppSteps ==
  ASSUME AppInv, AfterNested \subseteq {"WillRespondLater"}, [AppNext]_appVars
  PROVE  \/ [Next]_vars
         \/ \E c \in Contexts : Waits(c)
         \/ \E c \in Contexts, id \in AnyId : Serves(c, id)
         \/ \E c \in Contexts, id \in AnyId, last \in BOOLEAN :
              /\ ctxCallId[c] = id /\ serving # Nothing /\ Undisturbed
              /\ id = serving.id /\ c = ContextOf[serving.method]
              /\ Replies(c, id, last)
<1>1. CASE UNCHANGED appVars
  BY <1>1 DEF appVars
<1>2. ASSUME NEW outcome \in Outcomes,
             Undecodable(outcome) \/ \E id \in AnyId : Turned(id, outcome)
      PROVE  Next
  BY <1>2, TurnedIsParse
<1>3. ASSUME NEW m \in Methods, NEW id \in AnyId, Enter(m, id)
      PROVE  \E c \in Contexts : Serves(c, id)
  BY <1>3, EnterServes
<1>4. CASE ReturnLater
  <2>1. ContextOf[serving.method] \in Contexts
    BY <1>4, ServingType DEF ReturnLater, Returns, AppInv
  <2> QED
    BY <1>4, <2>1, LaterWaits
<1>5. ASSUME NEW status \in CallbackStatus, NEW valid \in BOOLEAN,
             NEW outcome \in Outcomes, ReturnAnswer(status, valid, outcome)
      PROVE  \E c \in Contexts, id \in AnyId, last \in BOOLEAN :
               /\ ctxCallId[c] = id /\ serving # Nothing /\ Undisturbed
               /\ id = serving.id /\ c = ContextOf[serving.method]
               /\ Replies(c, id, last)
  <2>1. serving # Nothing /\ Undisturbed
    BY <1>5 DEF ReturnAnswer, Returns
  <2>2. /\ ContextOf[serving.method] \in Contexts
        /\ serving.id \in AnyId
        /\ ctxCallId[ContextOf[serving.method]] = serving.id
    BY <2>1, ServingType DEF AppInv, ServingSound
  <2>3. (status # "Failed" /\ IsOver(serving.method, status)) \in BOOLEAN
    OBVIOUS
  <2> QED
    BY <1>5, <2>1, <2>2, <2>3, ReturnReplies
<1>6. ASSUME NEW c \in Contexts, NEW id \in Ids,
             \/ Fill(c, id) \/ Refused(c, id) \/ EncodeFailed(c, id)
             \/ Stream(c, id) \/ Finish(c, id)
      PROVE  Next
  <2>1. Fill(c, id) => Next
    BY FillIsPrepare DEF Next, Follow
  <2> QED
    BY <1>6, <2>1, AnswerIsFollow
<1> QED
  BY <1>1, <1>2, <1>3, <1>4, <1>5, <1>6 DEF AppNext, Return

\* Jobs and callbacks share the holders of a context and the one response
\* structure of the handle, and still a response carries what was prepared for
\* its own call, or nothing.
THEOREM AppOwnData ==
  ASSUME Reusable = {}, AfterNested \subseteq {"WillRespondLater"}
  PROVE  AppSpec => []AnswerCarriesOwnData
<1>1. AppInit => DataInv
  BY InitData DEF AppInit
<1>2. ASSUME AppInv, AppInv', DataInv, [AppNext]_appVars
      PROVE  DataInv'
  <2>1. CASE [Next]_vars
    BY <1>2, <2>1, NextData
  <2>2. /\ TypeOK' /\ response \in [Contexts -> Holder]
        /\ ctxCallId \in [Contexts -> AnyId]
    BY <1>2 DEF AppInv, AppTyped, AppTypeOK, DataInv, TypeOK
  <2>3. ASSUME NEW c \in Contexts, NEW id \in AnyId, Serves(c, id)
        PROVE  DataInv'
    BY <1>2, <2>2, <2>3 DEF Serves, DataInv, OwnResponses, AnswerCarriesOwnData
  <2>4. ASSUME NEW c \in Contexts, NEW id \in AnyId, NEW last \in BOOLEAN,
               ctxCallId[c] = id, Replies(c, id, last)
        PROVE  DataInv'
    <3>1. OwnResponses'
      BY <1>2, <2>2, <2>4 DEF Replies, DataInv, OwnResponses, Released
    <3>2. AnswerCarriesOwnData'
      BY <2>4 DEF Replies, AnswerCarriesOwnData
    <3> QED
      BY <2>2, <3>1, <3>2 DEF DataInv
  <2>5. ASSUME NEW c \in Contexts, Waits(c)
        PROVE  DataInv'
    BY <1>2, <2>2, <2>5 DEF Waits, DataInv, OwnResponses, AnswerCarriesOwnData
  <2> QED
    BY <1>2, <2>1, <2>3, <2>4, <2>5, AppSteps
<1>3. DataInv => AnswerCarriesOwnData
  BY DEF DataInv
<1> QED
  BY <1>1, <1>2, <1>3, AppInvariance, PTL DEF AppSpec

\* What a callback and a job hold, then, in a build that allocates.
LEMMA AppHeld ==
  ASSUME Reusable = {}, AfterNested \subseteq {"WillRespondLater"}, Malloc,
         AppInv, AppInv', HeldInv, [AppNext]_appVars
  PROVE  HeldInv'
<1>1. CASE [Next]_vars
  BY <1>1, NextHeld
<1>2. UniqueInv /\ UniqueInv' /\ TypeOK'
  BY DEF AppInv, AppTyped, AppTypeOK
<1>3. request \in [Contexts -> Holder] /\ response \in [Contexts -> Holder]
  BY <1>2 DEF UniqueInv, SoundInv, TypeOK
<1>4. ASSUME NEW c \in Contexts, NEW id \in AnyId, Serves(c, id)
      PROVE  \A d \in Contexts : Held(d)'
  <2>1. Ongoings' = OnOthers(c) \cup (IF id = ZeroId THEN {} ELSE {CallOf(c, id)})
    BY <1>2, <1>4, ServesUnique
  <2>2. /\ request'[c] = id /\ response'[c] = Empty
        /\ \A d \in Contexts \ {c} : request'[d] = request[d] /\ response'[d] = response[d]
    BY <1>3, <1>4 DEF Serves
  <2> QED
    BY <2>1, <2>2, StepHeld
<1>5. ASSUME NEW c \in Contexts, NEW id \in AnyId, NEW last \in BOOLEAN,
             ctxCallId[c] = id, Replies(c, id, last)
      PROVE  \A d \in Contexts : Held(d)'
  <2>1. Ongoings' = IF last THEN OnOthers(c) ELSE Ongoings
    BY <1>2, <1>5, RepliesUnique
  <2>2. OnOthers(c) \subseteq Ongoings'
    BY <2>1 DEF OnOthers
  <2>3. request' = [request EXCEPT ![c] = Empty] /\ response' = [response EXCEPT ![c] = Empty]
    BY <1>5 DEF Replies, Release, Released
  <2> QED
    BY <2>2, <2>3, StepEmpties
<1>6. ASSUME NEW c \in Contexts, Waits(c)
      PROVE  \A d \in Contexts : Held(d)'
  BY <1>6 DEF Waits, HeldInv, Held, Holds, Ongoings
<1> QED
  BY <1>1, <1>2, <1>4, <1>5, <1>6, AppSteps DEF HeldInv

LEMMA AppHeldInvariance ==
  ASSUME Reusable = {}, AfterNested \subseteq {"WillRespondLater"}, Malloc
  PROVE  AppSpec => [](AppInv /\ HeldInv)
<1>1. AppInit => HeldInv
  BY InitHeld DEF AppInit
<1> QED
  BY <1>1, AppHeld, AppInvariance, PTL DEF AppSpec

\* With PB_ENABLE_MALLOC, a request that is held belongs to a call that is
\* ongoing on its context, while a callback answers it or a job does.
THEOREM AppRequestReleased ==
  ASSUME Reusable = {}, AfterNested \subseteq {"WillRespondLater"}, Malloc
  PROVE  AppSpec => []HeldRequestIsOngoing
<1>1. HeldInv => HeldRequestIsOngoing
  BY DEF HeldInv, Held, Holds, HeldRequestIsOngoing, Ongoings, Calls, CallOf
<1> QED
  BY <1>1, AppHeldInvariance, PTL

\* And what is lost is lost by a request that takes the place of an ongoing call
\* of its context: neither callbacks that use the interface nor jobs lose more.
THEOREM AppLeakOnlyByReplacement ==
  ASSUME Reusable = {}, AfterNested \subseteq {"WillRespondLater"}, Malloc
  PROVE  AppSpec => OnlyReplacedCallsLeak
<1>1. ASSUME AppInv, HeldInv, HeldInv', [AppNext]_appVars
      PROVE  [LosesReplaced]_vars
  <2>1. CASE [Next]_vars
    BY <1>1, <2>1, NextLoses
  <2>2. CASE leaked' = {}
    BY <2>2 DEF LosesReplaced
  <2>3. ASSUME NEW c \in Contexts, NEW id \in AnyId, Serves(c, id)
        PROVE  LosesReplaced
    <3>1. /\ MayRequest(id) /\ ctxCallId' = [ctxCallId EXCEPT ![c] = id]
          /\ target' = c /\ leaked' \subseteq {request[c], response[c]}
      BY <2>3 DEF Serves, Takes, Lost
    <3> QED
      BY <1>1, <3>1, CalledLoses
  <2> QED
    BY <1>1, <2>1, <2>2, <2>3, AppSteps DEF Replies, Waits, Takes
<1> QED
  BY <1>1, LosesIsLeak, AppHeldInvariance, PTL DEF AppSpec, OnlyReplacedCallsLeak

-----------------------------------------------------------------------------
\* As long as handle->response is what the parse function prepared, the request
\* whose callback runs is ongoing and its client was told nothing: whatever ends
\* the call leaves its mark there.
CallbackUnheard ==
  serving # Nothing /\ Undisturbed /\ serving.id \in Ids
    => /\ seen[serving.id] = "open"
       /\ CallOf(ContextOf[serving.method], serving.id) \in Ongoings

LEMMA UnheardStep ==
  ASSUME Reusable = {}, AppInv, AppTyped', CallbackUnheard, [AppNext]_appVars
  PROVE  CallbackUnheard'
<1>1. CASE UNCHANGED appVars
  BY <1>1 DEF appVars, vars, CallbackUnheard, Undisturbed, Ongoings
<1>2. ASSUME NEW outcome \in Outcomes,
             Undecodable(outcome) \/ \E id \in AnyId : Turned(id, outcome)
      PROVE  CallbackUnheard'
  BY <1>2 DEF Undecodable, Turned, CallbackUnheard
<1>3. ASSUME NEW m \in Methods, NEW id \in AnyId, Enter(m, id)
      PROVE  CallbackUnheard'
  <2> DEFINE c == ContextOf[m]
  <2>1. c \in Contexts /\ Serves(c, id)
    BY <1>3, EnterServes
  <2>2. serving'.id = id /\ serving'.method = m /\ seen' = Asked(id)
    BY <1>3 DEF Enter
  <2>3. Ongoings' = OnOthers(c) \cup (IF id = ZeroId THEN {} ELSE {CallOf(c, id)})
    <3> HIDE DEF c
    <3> QED
      BY <2>1, ServesUnique DEF AppInv, AppTyped, AppTypeOK
  <2> QED
    BY <2>2, <2>3 DEF CallbackUnheard, Asked
<1>4. CASE Return
  BY <1>4 DEF Return, ReturnLater, ReturnAnswer, Returns, CallbackUnheard
<1>5. ASSUME NEW c \in Contexts, NEW id \in Ids, Fill(c, id)
      PROVE  CallbackUnheard'
  BY <1>5 DEF Fill, CallbackUnheard, Undisturbed, Ongoings
<1>6. ASSUME NEW c \in Contexts, NEW id \in Ids, Refused(c, id)
      PROVE  CallbackUnheard'
  BY <1>6
  DEF Refused, Refuse, Leaves, CallbackUnheard, Undisturbed, Shared, Ongoings
<1>7. ASSUME NEW c \in Contexts, NEW id \in Ids,
             EncodeFailed(c, id) \/ Stream(c, id) \/ Finish(c, id)
      PROVE  CallbackUnheard'
  <2>1. /\ serving' = serving
        /\ serving # Nothing => shared'.type # "none"
    <3>1. \A type \in {"STREAM", "END_OF_CALL"} : \A i, from :
            Leaves(i, type, from) /\ serving # Nothing => shared'.type # "none"
      BY DEF Leaves, Shared
    <3>2. \A end \in BOOLEAN : TypeOf(c, end) \in {"STREAM", "END_OF_CALL"}
      BY DEF TypeOf
    <3> QED
      BY <1>7, <3>1, <3>2 DEF EncodeFailed, Stream, Finish
  <2> QED
    BY <2>1 DEF CallbackUnheard, Undisturbed, Shared
<1> QED
  BY <1>2, <1>3, <1>1, <1>4, <1>5, <1>6, <1>7 DEF AppNext

\* It is so at any time.
LEMMA UnheardInvariance ==
  ASSUME Reusable = {}, AfterNested \subseteq {"WillRespondLater"}
  PROVE  AppSpec => [](AppInv /\ CallbackUnheard)
<1>1. AppInit => CallbackUnheard
  BY DEF AppInit, CallbackUnheard
<1>2. AppInv' => AppTyped'
  BY DEF AppInv
<1> QED
  BY <1>1, <1>2, UnheardStep, AppInvariance, PTL DEF AppSpec

\* After END_OF_CALL nothing more is sent under that id, be it that a callback
\* ended its own call, or the call of a job, before it returns.
THEOREM AppNothingAfterEnd ==
  ASSUME Reusable = {}, AfterNested \subseteq {"WillRespondLater"}
  PROVE  AppSpec => EndOfCallIsLast
<1>1. ASSUME AppInv, CallbackUnheard, [AppNext]_appVars
      PROVE  [Silent]_vars
  <2>1. CASE [Next]_vars
    BY <1>1, <2>1, NextSilent DEF AppInv
  <2>2. ASSUME NEW c \in Contexts, NEW id \in AnyId, Serves(c, id)
        PROVE  Silent
    BY <2>2 DEF Serves, Silent
  <2>3. ASSUME NEW id \in AnyId, NEW c \in Contexts, NEW last \in BOOLEAN,
               serving # Nothing, serving.id = id, Undisturbed, Replies(c, id, last)
        PROVE  Silent
    BY <1>1, <2>3 DEF Replies, CallbackUnheard, Silent
  <2>4. ASSUME NEW c, Waits(c)
        PROVE  Silent
    BY <2>4 DEF Waits, Silent
  <2> QED
    BY <1>1, <2>1, <2>2, <2>3, <2>4, AppSteps
<1> QED
  BY <1>1, SilentIsLast, UnheardInvariance, PTL DEF AppSpec, EndOfCallIsLast

-----------------------------------------------------------------------------
(***************************************************************************)
(* The life of a call, when a request and the answer of its callback are   *)
(* two steps.                                                              *)
(***************************************************************************)

\* Who answers requests in the step that parses them may do so here as well.
LEMMA LifeInApp == Life!Next => LifeInTwoSteps!Next
<1>1. \A id \in Ids : Life!Request(id) => LifeInTwoSteps!Request(id)
  BY DEF Life!Request, LifeInTwoSteps!Request, Life!Sends, LifeInTwoSteps!Sends,
         Life!Takes, LifeInTwoSteps!Takes
<1>2. Life!Anonymous => LifeInTwoSteps!Anonymous
  BY DEF Life!Anonymous, LifeInTwoSteps!Anonymous, Life!Takes, LifeInTwoSteps!Takes
<1>3. \A c \in Contexts, last \in BOOLEAN :
        Life!Answer(c, last) => LifeInTwoSteps!Answer(c, last)
  BY DEF Life!Answer, LifeInTwoSteps!Answer, Life!Sends, LifeInTwoSteps!Sends,
         Life!NoRequest, LifeInTwoSteps!NoRequest
<1>4. Life!Silence => LifeInTwoSteps!Silence
  BY DEF Life!Silence, LifeInTwoSteps!Silence, Life!NoRequest, LifeInTwoSteps!NoRequest
<1>5. ~ Life!AnonymousAnswer /\ \A c \in Contexts : ~ Life!Lose(c)
  BY DEF Life!AnonymousAnswer, Life!Lose
<1> QED
  BY <1>1, <1>2, <1>3, <1>4, <1>5 DEF Life!Next, LifeInTwoSteps!Next

\* A request whose callback starts to run.
LEMMA ServesLife ==
  ASSUME Reusable = {}, UniqueInv, TypeOK', NEW c \in Contexts,
         NEW id \in AnyId, Serves(c, id)
  PROVE  Life!Next
<1>1. /\ MayRequest(id) /\ came' = id /\ reply' = NoReply /\ seen' = Asked(id)
      /\ ctxCallId' = [ctxCallId EXCEPT ![c] = id]
      /\ target' = c /\ target' \in AnyContext
  BY DEF Serves, Takes, AnyContext
<1>2. NowAsked(id)
  BY <1>1, AskedUsed DEF NowAsked
<1>3. Ongoings' = OnOthers(c) \cup (IF id = ZeroId THEN {} ELSE {CallOf(c, id)})
  BY ServesUnique
<1>4. CASE id = ZeroId
  <2>1. CurrentCall' = [CurrentCall EXCEPT ![c] = Empty]
    BY <1>1, <1>3, <1>4, CurrentVacated
  <2> QED
    BY <1>1, <1>2, <2>1, RequestStep
<1>5. CASE id # ZeroId
  <2>1. CurrentCall' = [CurrentCall EXCEPT ![c] = id]
    BY <1>1, <1>3, <1>5, CurrentServed
  <2>2. id \in Ids
    BY <1>5 DEF AnyId
  <2> QED
    BY <1>1, <1>2, <2>1, <2>2, RequestStep
<1> QED
  BY <1>4, <1>5

\* The answer the callback returns: to an ongoing call, or to call id 0.
LEMMA RepliesLife ==
  ASSUME UniqueInv, TypeOK', NEW c \in Contexts, NEW id \in AnyId,
         NEW last \in BOOLEAN, ctxCallId[c] = id, Replies(c, id, last),
         id \in Ids => CallOf(c, id) \in Ongoings
  PROVE  LifeInTwoSteps!Next
<1>1. /\ callsHolder' = CallsAfter(id, last)
      /\ ctxCallId' = ctxCallId
      /\ came' = Empty
      /\ \/ reply' = NoReply /\ seen' = seen
         \/ /\ seen' = Heard(seen, reply')
            /\ reply' # NoReply
            /\ reply'.call_id = id
            /\ reply'.type = IF last THEN "END_OF_CALL" ELSE "none"
      /\ target' = c /\ target' \in AnyContext
      /\ LifeInTwoSteps!NoRequest
  BY DEF Replies, Takes, AnyContext, LifeInTwoSteps!NoRequest
<1>2. callsHolder \in CallsHolder
  BY DEF UniqueInv, SoundInv, TypeOK
<1>3. OnTheLine' = NoReply \/ OnTheLine' = [call_id |-> id, last |-> last]
  BY <1>1 DEF OnTheLine
<1>4. CASE id \notin Ids
  <2>1. callsHolder' = callsHolder
    BY <1>1, <1>4 DEF AnyId, CallsAfter, ng_removeCall
  <2>2. AskedIds' = AskedIds
    BY <1>1, <1>4 DEF AskedIds, Heard
  <2>3. CurrentCall' = CurrentCall
    BY <1>1, <2>1, CurrentKept
  <2>4. LifeInTwoSteps!AnonymousAnswer
    BY <1>1, <1>3, <1>4, <2>2, <2>3 DEF LifeInTwoSteps!AnonymousAnswer
  <2> QED
    BY <2>4 DEF LifeInTwoSteps!Next
<1>5. CASE id \in Ids
  <2>1. CallOf(c, id) \in Ongoings /\ id # Empty
    BY <1>5
  <2>2. seen[id] # "fresh" /\ ng_isContextUsedByOngoingCall(callsHolder, c)
    BY <1>2, <2>1, OngoingSound, OngoingCalls DEF Ongoings, UniqueInv, CallOf
  <2>3. CurrentCall[c] = id
    BY <2>2 DEF CurrentCall
  <2>4. AskedIds' = AskedIds
    BY <1>1, <2>2 DEF AskedIds, Heard
  <2>5. CurrentCall' = IF last THEN [CurrentCall EXCEPT ![c] = Empty]
                       ELSE CurrentCall
    <3>1. CASE last
      <4>1. Ongoings' = OnOthers(c)
        BY <1>1, <3>1, VacateCalls DEF CallsAfter, Ongoings, ng_getValidContext
      <4> QED
        BY <1>1, <3>1, <4>1, CurrentVacated
    <3>2. CASE ~ last
      BY <1>1, <3>2, CurrentKept DEF CallsAfter
    <3> QED
      BY <3>1, <3>2
  <2>6. CASE OnTheLine' # NoReply
    <3>1. Life!Next
      BY <1>1, <1>3, <2>1, <2>3, <2>4, <2>5, <2>6, AnswerStep
    <3> QED
      BY <3>1, LifeInApp
  <2>7. CASE OnTheLine' = NoReply
    <3>1. CASE last
      <4>1. LifeInTwoSteps!Lose(c)
        BY <1>1, <2>1, <2>3, <2>4, <2>5, <2>7, <3>1 DEF LifeInTwoSteps!Lose
      <4> QED
        BY <4>1 DEF LifeInTwoSteps!Next
    <3>2. CASE ~ last
      <4>1. LifeInTwoSteps!Silence
        BY <1>1, <2>4, <2>5, <2>7, <3>2 DEF LifeInTwoSteps!Silence
      <4> QED
        BY <4>1 DEF LifeInTwoSteps!Next
    <3> QED
      BY <3>1, <3>2
  <2> QED
    BY <2>6, <2>7
<1> QED
  BY <1>4, <1>5

\* The application implements the life of a call, whoever answers it and from
\* where: only the context that is busy with a call answers it, never after
\* END_OF_CALL, and nobody else's call goes with it.
THEOREM AppRefinement ==
  ASSUME Reusable = {}, AfterNested \subseteq {"WillRespondLater"}
  PROVE  AppSpec => AppImplementsLife
<1>1. AppInit => LifeInTwoSteps!Init
  BY InitLife DEF AppInit, Life!Init, LifeInTwoSteps!Init
<1>2. ASSUME AppInv, AppInv', CallbackUnheard, [AppNext]_appVars
      PROVE  [LifeInTwoSteps!Next]_LifeInTwoSteps!vars
  <2>1. UniqueInv /\ TypeOK'
    BY <1>2 DEF AppInv, AppTyped, AppTypeOK
  <2>2. CASE UNCHANGED vars
    BY <2>2, CurrentKept DEF vars, LifeInTwoSteps!vars, AskedIds, OnTheLine
  <2>3. CASE Next
    BY <2>1, <2>3, NextLife, LifeInApp
  <2>4. ASSUME NEW c \in Contexts, NEW id \in AnyId, Serves(c, id)
        PROVE  LifeInTwoSteps!Next
    BY <2>1, <2>4, ServesLife, LifeInApp
  <2>5. ASSUME NEW c \in Contexts, NEW id \in AnyId, NEW last \in BOOLEAN,
               ctxCallId[c] = id, serving # Nothing, Undisturbed,
               id = serving.id, c = ContextOf[serving.method],
               Replies(c, id, last)
        PROVE  LifeInTwoSteps!Next
    BY <1>2, <2>1, <2>5, RepliesLife DEF CallbackUnheard
  <2>6. ASSUME NEW c \in Contexts, Waits(c)
        PROVE  LifeInTwoSteps!Next
    <3>1. /\ came' = Empty /\ target' \in AnyContext /\ reply' = NoReply
          /\ UNCHANGED <<callsHolder, ctxCallId, seen>>
      BY <2>6 DEF Waits, Takes, AnyContext
    <3> QED
      BY <3>1, SilentStep, LifeInApp
  <2> QED
    BY <1>2, <2>2, <2>3, <2>4, <2>5, <2>6, AppSteps
<1> QED
  BY <1>1, <1>2, UnheardInvariance, AppInvariance, PTL
  DEF AppSpec, AppImplementsLife, LifeInTwoSteps!Spec
=============================================================================
