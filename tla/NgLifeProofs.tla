---------------------------- MODULE NgLifeProofs ----------------------------
(***************************************************************************)
(* More theorems about the non-blocking server: what needs every request   *)
(* to have a new id, what needs PB_ENABLE_MALLOC, and that the server      *)
(* implements the life of a call.  They look at the calls in the calls     *)
(* holder and not at its slots.                                            *)
(***************************************************************************)
EXTENDS NgServerProofs, FiniteSetTheorems

USE SizeAssumption, IdAssumption, ContextAssumption, MethodAssumption,
    ProgramAssumption, HolderAssumption, ReplyAssumption

Ongoings == Calls(callsHolder)
OnOthers(c) == {call \in Ongoings : call.context # c}
CallOf(c, id) == [call_id |-> id, context |-> c]

\* An ongoing call has a context, that records its id, and an id a client has
\* used and was not told the end of; the two say which call it is.
LEMMA OngoingSound ==
  ASSUME SoundInv, NEW call \in Ongoings
  PROVE  /\ call.call_id \in Ids
         /\ call.context \in Contexts
         /\ ctxCallId[call.context] = call.call_id
         /\ seen[call.call_id] \in {"open", "failed"}
         /\ call = CallOf(call.context, call.call_id)
<1>1. PICK i \in Slots : call = callsHolder[i] /\ Ongoing(i)
  BY DEF Ongoings, Calls, Ongoing
<1>2. callsHolder[i] \in Call
  BY DEF SoundInv, TypeOK, CallsHolder
<1> QED
  BY <1>1, <1>2 DEF SoundInv, TableSound, OngoingIsOpen, Call, CallOf

-----------------------------------------------------------------------------
(***************************************************************************)
(* When every request has a new id.  TableSound does not say that a        *)
(* context without a call has an id of its own: its id may have gone to    *)
(* another context, and be removed or answered there.                      *)
(***************************************************************************)
UsedIds == \A c \in Contexts : ctxCallId[c] \in Ids => seen[ctxCallId[c]] # "fresh"
OwnIds ==
  \A c, d \in Contexts : ctxCallId[c] \in Ids /\ ctxCallId[c] = ctxCallId[d] => c = d

UniqueInv == SoundInv /\ UsedIds /\ OwnIds

\* Every step tells the clients of one id at most, and sets that of one context.
LEMMA StepUnique ==
  ASSUME UniqueInv, SoundInv', NEW c \in Contexts, NEW id \in AnyId,
         \A j \in Ids : seen[j] # "fresh" => seen'[j] # "fresh",
         \/ ctxCallId' = ctxCallId
         \/ /\ ctxCallId' = [ctxCallId EXCEPT ![c] = id]
            /\ id \in Ids => seen[id] = "fresh" /\ seen'[id] # "fresh"
  PROVE  UniqueInv'
<1>1. UsedIds'
  BY DEF UniqueInv, SoundInv, TypeOK, UsedIds
<1>2. OwnIds'
  BY DEF UniqueInv, SoundInv, TypeOK, UsedIds, OwnIds
<1> QED
  BY <1>1, <1>2 DEF UniqueInv

\* The end of ng_GrpcParseNonBlocking and the responses tell a client of an id
\* it has used.
LEMMA HeardUsed ==
  ASSUME NEW view, NEW r, NEW j \in Ids
  PROVE  Heard(view, r)[j] = "fresh" => view[j] = "fresh"
BY DEF Heard

\* And so does a request.
LEMMA AskedUsed ==
  ASSUME NEW id, NEW j \in Ids
  PROVE  Asked(id)[j] = "fresh" <=> seen[j] = "fresh" /\ j # id
BY DEF Asked

\* An id that was used, or is that of the request parsed, is used afterwards.
LEMMA RespondUsed ==
  ASSUME NEW id, NEW r, NEW outcome, Respond(id, r, outcome), NEW j \in Ids,
         seen[j] # "fresh" \/ j = id
  PROVE  seen'[j] # "fresh"
BY HeardUsed, AskedUsed DEF Respond

\* A request that gets to its callback gives its new id to one context.
LEMMA ParseUnique ==
  ASSUME UniqueInv, SoundInv', Reusable = {}, NEW m \in Methods,
         NEW id \in AnyId, NEW outcome \in Outcomes,
         ParseNonBlocking(m, id, outcome)
  PROVE  UniqueInv'
<1>1. CASE \/ ParseUnimplemented(m, id, outcome)
           \/ ParseNoContext(m, id, outcome)
           \/ ParseTableFull(m, id, outcome)
           \/ ParseBadPayload(m, id, outcome)
  <2>1. \E r : Respond(id, r, outcome) /\ ctxCallId' = ctxCallId
    BY <1>1
    DEF ParseUnimplemented, ParseNoContext, ParseTableFull, ParseBadPayload
  <2>2. \A j \in Ids : seen[j] # "fresh" => seen'[j] # "fresh"
    BY <2>1, RespondUsed
  <2>3. UsedIds' /\ OwnIds'
    BY <2>1, <2>2 DEF UniqueInv, UsedIds, OwnIds
  <2> QED
    BY <2>3 DEF UniqueInv
<1>2. CASE \/ ParseDeferred(m, id)
           \/ ParseFailed(m, id, outcome)
           \/ \E status \in CallbackStatus, valid \in BOOLEAN :
                ParseAnswered(m, id, status, valid, outcome)
  <2> DEFINE c == ContextOf[m]
  <2>1. \E status : Called(m, id, status)
    BY <1>2 DEF ParseDeferred, ParseFailed, ParseAnswered
  <2>2. /\ c \in Contexts
        /\ ctxCallId' = [ctxCallId EXCEPT ![c] = id]
        /\ id \in Ids => seen[id] = "fresh"
    BY <2>1, ContextType DEF Called, CanServe, MayRequest
  <2>3. seen' = Asked(id) \/ \E r : Respond(id, r, outcome)
    BY <1>2 DEF ParseDeferred, ParseFailed, ParseAnswered
  <2>4. \A j \in Ids : seen[j] # "fresh" \/ j = id => seen'[j] # "fresh"
    BY <2>3, AskedUsed, RespondUsed
  <2> HIDE DEF c
  <2> QED
    BY <2>2, <2>4, StepUnique
<1> QED
  BY <1>1, <1>2 DEF ParseNonBlocking

\* So does every other step, and the ids of the contexts stay their own.
LEMMA NextUnique ==
  ASSUME Reusable = {}, UniqueInv, [Next]_vars
  PROVE  UniqueInv'
<1>1. SoundInv'
  BY NextSound DEF UniqueInv
<1>2. CASE /\ ctxCallId' = ctxCallId
           /\ \A j \in Ids : seen[j] # "fresh" => seen'[j] # "fresh"
  BY <1>1, <1>2 DEF UniqueInv, UsedIds, OwnIds
<1>3. CASE UNCHANGED vars
  BY <1>2, <1>3 DEF vars
<1>4. ASSUME NEW outcome \in Outcomes, NEW id \in AnyId,
             ParseUndecodable(outcome) \/ ParseNotFound(id, outcome)
      PROVE  UniqueInv'
  <2>1. \E i, r : Respond(i, r, outcome) /\ ctxCallId' = ctxCallId
    BY <1>4 DEF ParseUndecodable, ParseNotFound
  <2> QED
    BY <1>2, <2>1, RespondUsed
<1>5. CASE Parse
  <2>1. ZeroId \in AnyId
    BY DEF AnyId
  <2> QED
    BY <1>1, <1>4, <1>5, <2>1, ParseUnique DEF Parse
<1>6. CASE Follow
  <2>1. /\ ctxCallId' = ctxCallId
        /\ seen' = seen \/ \E r : seen' = Heard(seen, r)
    BY <1>6
    DEF Follow, Prepare, Refuse, AsyncEncodeFailed, AsyncResponse, endOfCall
  <2> QED
    BY <1>2, <2>1, HeardUsed
<1> QED
  BY <1>3, <1>5, <1>6 DEF Next

\* The strengthened invariant holds at any time.
LEMMA UniqueInvariance ==
  ASSUME Reusable = {}
  PROVE  Spec => []UniqueInv
<1>1. Init => UniqueInv
  <2> SUFFICES ASSUME Init PROVE UsedIds /\ OwnIds
    BY InitSound DEF UniqueInv
  <2>1. \A c \in Contexts : ctxCallId[c] \notin Ids
    BY DEF Init
  <2> QED
    BY <2>1 DEF UsedIds, OwnIds
<1> QED
  BY <1>1, NextUnique, PTL DEF Spec

-----------------------------------------------------------------------------
(* What the steps do to the calls, then                                    *)

\* Under the invariant, context and id of an ongoing call determine each other.
LEMMA OtherIds ==
  ASSUME UniqueInv, NEW c \in Contexts, NEW call \in Ongoings
  PROVE  call.call_id = ctxCallId[c] <=> call.context = c
BY OngoingSound DEF UniqueInv, OwnIds

\* Making room for a request, and ending a call, take the call of the context
\* away and no other.
LEMMA VacateCalls ==
  ASSUME UniqueInv, NEW c \in Contexts
  PROVE  /\ ng_getValidContext(c) \in CallsHolder
         /\ Calls(ng_getValidContext(c)) = OnOthers(c)
<1>1. callsHolder \in CallsHolder /\ ctxCallId[c] \in AnyId
  BY DEF UniqueInv, SoundInv, TypeOK
<1>2. Calls(ng_getValidContext(c))
        = {call \in Ongoings : call.call_id # ctxCallId[c]}
  BY <1>1, SoundIsDistinct, RemoveCalls
  DEF UniqueInv, SoundInv, ng_getValidContext, Ongoings
<1>3. Calls(ng_getValidContext(c)) = OnOthers(c)
  BY <1>2, OtherIds DEF OnOthers
<1> QED
  BY <1>3, FreedType DEF UniqueInv, SoundInv

\* A request that gets to be decoded has its call besides, a request that was
\* answered has not.
LEMMA ServeCalls ==
  ASSUME UniqueInv, Reusable = {}, NEW c \in Contexts, NEW id \in AnyId,
         MayRequest(id), CanRegister(ng_getValidContext(c))
  PROVE  /\ Calls(Registered(c, id))
              = OnOthers(c) \cup (IF id = ZeroId THEN {} ELSE {CallOf(c, id)})
         /\ Calls(ng_removeCall(Registered(c, id), id)) = OnOthers(c)
         /\ \A call \in Ongoings : call.call_id # id
<1>1. Calls(Registered(c, id))
        = OnOthers(c) \cup (IF id = ZeroId THEN {} ELSE {CallOf(c, id)})
  BY VacateCalls, RegisterCalls DEF Registered, CallOf
<1>2. \A call \in Ongoings : call.call_id # id
  BY OngoingSound DEF UniqueInv, MayRequest
<1>3. Registered(c, id) \in CallsHolder
  BY RegisteredType DEF UniqueInv, SoundInv
<1>4. Distinct(Registered(c, id))
  <2>1. PICK k \in Slots :
          /\ Registered(c, id)[k] = CallOf(c, id)
          /\ \A i \in Slots \ {k} :
               Registered(c, id)[i].call_id # ZeroId
                 => Registered(c, id)[i] = callsHolder[i]
    BY RegisteredSound DEF UniqueInv, CallOf
  <2>2. \A i \in Slots \ {k} :
          Registered(c, id)[i].call_id # ZeroId => Registered(c, id)[i].call_id # id
    BY <1>2, <2>1 DEF Ongoings, Calls
  <2>3. Distinct(callsHolder)
    BY SoundIsDistinct DEF UniqueInv, SoundInv
  <2> QED
    BY <2>1, <2>2, <2>3 DEF Distinct, CallOf
<1>5. Calls(ng_removeCall(Registered(c, id), id))
        = {call \in Calls(Registered(c, id)) : call.call_id # id}
  BY <1>3, <1>4, RemoveCalls
<1>6. {call \in Calls(Registered(c, id)) : call.call_id # id} = OnOthers(c)
  BY <1>1, <1>2 DEF OnOthers, CallOf
<1> QED
  BY <1>1, <1>2, <1>5, <1>6

-----------------------------------------------------------------------------
LEMMA UniqueOthers == UniqueInv => OthersKeepTheirPlace
<1> SUFFICES ASSUME UniqueInv, NEW c \in Contexts, NEW i \in Slots, Ongoing(i),
                    callsHolder[i].context # c
             PROVE  ng_getValidContext(c)[i] = callsHolder[i]
  BY DEF OthersKeepTheirPlace
<1>1. callsHolder[i] \in Ongoings
  BY DEF Ongoing, Ongoings, Calls
<1>2. callsHolder[i].call_id # ctxCallId[c]
  BY <1>1, OtherIds
<1>3. callsHolder \in CallsHolder /\ ctxCallId[c] \in AnyId
  BY DEF UniqueInv, SoundInv, TypeOK
<1> QED
  BY <1>2, <1>3, SoundIsDistinct, RemoveDistinct
  DEF UniqueInv, SoundInv, ng_getValidContext

LEMMA UniqueOwn == UniqueInv => OngoingMeansThisContext
<1> SUFFICES ASSUME UniqueInv PROVE OngoingMeansThisContext
  OBVIOUS
<1>1. callsHolder \in CallsHolder /\ \A c \in Contexts : ctxCallId[c] \in AnyId
  BY DEF UniqueInv, SoundInv, TypeOK
<1> QED
  BY <1>1, OngoingCalls, OtherIds DEF OngoingMeansThisContext, Ongoings

\* With a new id for every request, ng_getValidContext never takes the slot of
\* an ongoing call of another method.
THEOREM OthersLeftAlone ==
  ASSUME Reusable = {}
  PROVE  Spec => []OthersKeepTheirPlace
BY UniqueOthers, UniqueInvariance, PTL

\* And ng_AsyncResponse and ng_endOfCall never take the call of another context
\* for that of theirs.
THEOREM OngoingIsOwn ==
  ASSUME Reusable = {}
  PROVE  Spec => []OngoingMeansThisContext
BY UniqueOwn, UniqueInvariance, PTL

-----------------------------------------------------------------------------
(***************************************************************************)
(* What a response carries: a new request fills the holder of its context  *)
(* with zeros, whoever used it before.                                     *)
(***************************************************************************)
OwnResponses == \A c \in Contexts : response[c] \in {Empty, ctxCallId[c]}

DataInv == TypeOK /\ OwnResponses /\ AnswerCarriesOwnData

\* The end of ng_GrpcParseNonBlocking sends what it was given.
LEMMA RespondData ==
  ASSUME NEW id, NEW r, NEW outcome, Respond(id, r, outcome),
         r.data \in {r.call_id, Empty}
  PROVE  AnswerCarriesOwnData'
BY DEF Respond, AnswerCarriesOwnData

\* To release a response leaves it, or nothing.
LEMMA ReleaseData ==
  ASSUME DataInv, NEW c, response' = Release(response, c), ctxCallId' = ctxCallId
  PROVE  OwnResponses'
BY DEF DataInv, TypeOK, OwnResponses, Release, Released

\* A new request empties the response holder before its callback fills it.
LEMMA ParseData ==
  ASSUME DataInv, NEW m \in Methods, NEW id \in AnyId, NEW outcome \in Outcomes,
         ParseNonBlocking(m, id, outcome)
  PROVE  OwnResponses' /\ AnswerCarriesOwnData'
<1> DEFINE c == ContextOf[m]
<1>0. \A status : Plain(id, status).data \in {Plain(id, status).call_id, Empty}
  BY DEF Plain
<1>1. CASE ParseUnimplemented(m, id, outcome) \/ ParseNoContext(m, id, outcome)
  BY <1>0, <1>1, RespondData
  DEF ParseUnimplemented, ParseNoContext, DataInv, OwnResponses
<1>2. CASE ParseTableFull(m, id, outcome) \/ ParseBadPayload(m, id, outcome)
  BY <1>0, <1>2, RespondData, ReleaseData DEF ParseTableFull, ParseBadPayload
<1>3. ASSUME NEW status, Called(m, id, status),
             response' = [response EXCEPT ![c] = Empty]
               \/ response' = [response EXCEPT ![c] = Released(id)]
      PROVE  OwnResponses'
  BY <1>3 DEF Called, DataInv, TypeOK, OwnResponses, Released
<1>4. CASE ParseDeferred(m, id)
  BY <1>3, <1>4
  DEF ParseDeferred, response_fillWithZeros, AnswerCarriesOwnData
<1>5. CASE ParseFailed(m, id, outcome)
  BY <1>0, <1>3, <1>5, RespondData DEF ParseFailed, response_fillWithZeros
<1>6. ASSUME NEW status \in CallbackStatus, NEW valid \in BOOLEAN,
             ParseAnswered(m, id, status, valid, outcome)
      PROVE  OwnResponses' /\ AnswerCarriesOwnData'
  <2> DEFINE r == [Plain(id, IF valid THEN "OK" ELSE "INTERNAL") EXCEPT
                     !.type = IF IsOver(m, status) THEN "END_OF_CALL" ELSE @,
                     !.data = IF valid THEN id ELSE @]
  <2>1. Respond(id, r, outcome)
    BY <1>6 DEF ParseAnswered
  <2>2. r.data \in {r.call_id, Empty}
    BY DEF Plain
  <2>3. OwnResponses'
    BY <1>3, <1>6 DEF ParseAnswered
  <2> HIDE DEF r
  <2> QED
    BY <2>1, <2>2, <2>3, RespondData
<1> QED
  BY <1>1, <1>2, <1>4, <1>5, <1>6 DEF ParseNonBlocking

\* A response is filled for the call its context has, and sent for that.
LEMMA FollowData ==
  ASSUME DataInv, NEW c \in Contexts,
         \/ Prepare(c)
         \/ Refuse(c)
         \/ AsyncEncodeFailed(c)
         \/ \E end \in BOOLEAN : AsyncResponse(c, end)
         \/ endOfCall(c)
  PROVE  OwnResponses' /\ AnswerCarriesOwnData'
<1>1. CASE Prepare(c)
  BY <1>1 DEF Prepare, DataInv, TypeOK, OwnResponses, AnswerCarriesOwnData
<1>2. CASE Refuse(c)
  BY <1>2 DEF Refuse, DataInv, OwnResponses, AnswerCarriesOwnData
<1>3. CASE AsyncEncodeFailed(c)
  BY <1>3, ReleaseData DEF AsyncEncodeFailed, AnswerCarriesOwnData
<1>4. ASSUME NEW end \in BOOLEAN, AsyncResponse(c, end)
      PROVE  OwnResponses' /\ AnswerCarriesOwnData'
  <2>1. reply'.call_id = ctxCallId[c] /\ reply'.data = response[c]
    BY <1>4 DEF AsyncResponse, Plain
  <2> QED
    BY <1>4, <2>1, ReleaseData
    DEF AsyncResponse, DataInv, OwnResponses, AnswerCarriesOwnData
<1>5. CASE endOfCall(c)
  BY <1>5, ReleaseData DEF endOfCall, Plain, AnswerCarriesOwnData
<1> QED
  BY <1>1, <1>2, <1>3, <1>4, <1>5

\* The holders are empty at the start.
LEMMA InitData == Init => DataInv
BY InitType DEF Init, DataInv, OwnResponses, AnswerCarriesOwnData

\* No step sends anything else.
LEMMA NextData == DataInv /\ [Next]_vars => DataInv'
<1> SUFFICES ASSUME DataInv, [Next]_vars PROVE DataInv'
  OBVIOUS
<1>1. TypeOK'
  BY NextType DEF DataInv
<1>2. CASE UNCHANGED vars
  BY <1>1, <1>2 DEF vars, DataInv, OwnResponses, AnswerCarriesOwnData
<1>3. ASSUME NEW outcome \in Outcomes, NEW id \in AnyId,
             ParseUndecodable(outcome) \/ ParseNotFound(id, outcome)
      PROVE  OwnResponses' /\ AnswerCarriesOwnData'
  <2>1. AnswerCarriesOwnData'
    <3>1. \E i, status : Respond(i, Plain(i, status), outcome)
      BY <1>3 DEF ParseUndecodable, ParseNotFound
    <3>2. \A i, status : Plain(i, status).data \in {Plain(i, status).call_id, Empty}
      BY DEF Plain
    <3> QED
      BY <3>1, <3>2, RespondData
  <2> QED
    BY <1>3, <2>1
    DEF ParseUndecodable, ParseNotFound, DataInv, OwnResponses
<1>4. CASE Parse
  BY <1>1, <1>3, <1>4, ParseData DEF Parse, DataInv, AnyId
<1>5. CASE Follow
  BY <1>1, <1>5, FollowData DEF Follow, DataInv
<1> QED
  BY <1>2, <1>4, <1>5 DEF Next

\* A response carries what was prepared for its own call, or nothing, whether or
\* not anything is ever released.  The proof does without the assumption, the
\* theorem does not: an id says which call data is of only while it is of one.
THEOREM OwnData ==
  ASSUME Reusable = {}
  PROVE  Spec => []AnswerCarriesOwnData
<1>1. DataInv => AnswerCarriesOwnData
  BY DEF DataInv
<1> QED
  BY <1>1, InitData, NextData, PTL DEF Spec

-----------------------------------------------------------------------------
(***************************************************************************)
(* What becomes of the requests of deferred calls.                         *)
(***************************************************************************)
Keeps ==
  \A i \in Slots :
    /\ Ongoing(i)
    /\ callsHolder'[i] = callsHolder[i]
    /\ request[callsHolder[i].context] = callsHolder[i].call_id
    => request'[callsHolder[i].context] = callsHolder[i].call_id

\* A step that changes the request of a context does not leave a call on it
\* where it was.
LEMMA StepKeeps ==
  ASSUME SoundInv, NEW c \in Contexts, NEW held,
         request' = [request EXCEPT ![c] = held],
         \A i \in Slots : Ongoing(i) /\ callsHolder'[i] = callsHolder[i]
                           => callsHolder[i].context # c
  PROVE  Keeps
<1>1. request \in [Contexts -> Holder]
  BY DEF SoundInv, TypeOK
<1>2. \A i \in Slots : Ongoing(i) => callsHolder[i].context \in Contexts
  BY DEF SoundInv, TableSound
<1> QED
  BY <1>1, <1>2 DEF Keeps

\* A request puts its own in place of the request of its context only.
LEMMA ParseKeeps ==
  ASSUME SoundInv, Reusable \subseteq {"ended"}, NEW m \in Methods,
         NEW id \in AnyId, NEW outcome \in Outcomes,
         ParseNonBlocking(m, id, outcome)
  PROVE  Keeps
<1> DEFINE c == ContextOf[m]
<1>1. CASE ParseUnimplemented(m, id, outcome) \/ ParseNoContext(m, id, outcome)
  BY <1>1 DEF ParseUnimplemented, ParseNoContext, Keeps
<1>2. CASE ParseTableFull(m, id, outcome)
  <2>1. /\ c \in Contexts
        /\ callsHolder' = ng_getValidContext(c)
        /\ request' = [request EXCEPT ![c] = Released(request[c])]
    BY <1>2, ContextType DEF ParseTableFull, Release
  <2> HIDE DEF c
  <2>2. \A i \in Slots : Ongoing(i) /\ callsHolder'[i] = callsHolder[i]
                          => callsHolder[i].context # c
    BY <2>1, FreedSound DEF Ongoing
  <2> QED
    BY <2>1, <2>2, StepKeeps
<1>3. ASSUME CanServe(m, id), CanRegister(ng_getValidContext(c)), NEW held,
             request' = [request EXCEPT ![c] = held],
             \/ callsHolder' = Registered(c, id)
             \/ callsHolder' = ng_removeCall(Registered(c, id), id)
      PROVE  Keeps
  <2>1. c \in Contexts /\ MayRequest(id)
    BY <1>3, ContextType DEF CanServe
  <2> HIDE DEF c
  <2>2. \A i \in Slots : Ongoing(i) => callsHolder[i].call_id # id
    BY <2>1, RequestIsNew
  <2>3. CASE callsHolder' = Registered(c, id)
    <3>1. \A i \in Slots : Ongoing(i) /\ callsHolder'[i] = callsHolder[i]
                            => callsHolder[i].context # c
      <4>1. PICK k \in Slots :
              /\ callsHolder'[k] = CallOf(c, id)
              /\ \A i \in Slots \ {k} :
                   callsHolder'[i].call_id # ZeroId => callsHolder[i].context # c
        BY <1>3, <2>1, <2>3, RegisteredSound DEF CallOf
      <4> QED
        BY <2>2, <4>1 DEF Ongoing, CallOf
    <3> QED
      BY <1>3, <2>1, <3>1, StepKeeps
  <2>4. CASE callsHolder' = ng_removeCall(Registered(c, id), id)
    <3>1. \A i \in Slots : Ongoing(i) /\ callsHolder'[i] = callsHolder[i]
                            => callsHolder[i].context # c
      BY <1>3, <2>1, <2>2, <2>4, RemovedSound DEF Ongoing
    <3> QED
      BY <1>3, <2>1, <3>1, StepKeeps
  <2> QED
    BY <1>3, <2>3, <2>4
<1>4. CASE ParseBadPayload(m, id, outcome)
  BY <1>3, <1>4 DEF ParseBadPayload
<1>5. CASE ParseDeferred(m, id) \/ ParseFailed(m, id, outcome)
  BY <1>3, <1>5 DEF ParseDeferred, ParseFailed, Called
<1>6. ASSUME NEW status \in CallbackStatus, NEW valid \in BOOLEAN,
             ParseAnswered(m, id, status, valid, outcome)
      PROVE  Keeps
  BY <1>3, <1>6 DEF ParseAnswered, Called
<1> QED
  BY <1>1, <1>2, <1>4, <1>5, <1>6 DEF ParseNonBlocking

\* A call that ends gives its own request away.
LEMMA FollowKeeps ==
  ASSUME SoundInv, NEW c \in Contexts,
         \/ Prepare(c)
         \/ Refuse(c)
         \/ AsyncEncodeFailed(c)
         \/ \E end \in BOOLEAN : AsyncResponse(c, end)
         \/ endOfCall(c)
  PROVE  Keeps
<1> DEFINE id == ctxCallId[c]
<1>1. CASE UNCHANGED request
  BY <1>1 DEF Keeps
<1>2. CASE /\ callsHolder' = ng_removeCall(callsHolder, id)
           /\ request' = Release(request, c)
  <2>1. callsHolder \in CallsHolder /\ id \in AnyId
    BY DEF SoundInv, TypeOK
  <2>2. \A i \in Slots :
          Ongoing(i) /\ callsHolder[i].context = c
            => id # ZeroId /\ callsHolder[i].call_id = id
    BY DEF SoundInv, TableSound, Ongoing
  <2>3. \A i \in Slots : Ongoing(i) /\ callsHolder'[i] = callsHolder[i]
                          => callsHolder[i].context # c
    BY <1>2, <2>1, <2>2, SoundIsDistinct, RemoveDistinct
    DEF SoundInv, Ongoing, FreeCall
  <2> QED
    BY <1>2, <2>3, StepKeeps DEF Release
<1>3. ASSUME NEW end \in BOOLEAN, AsyncResponse(c, end)
      PROVE  Keeps
  BY <1>1, <1>2, <1>3 DEF AsyncResponse, CallsAfter, RequestAfter
<1>4. CASE endOfCall(c)
  BY <1>2, <1>4 DEF endOfCall, CallsAfter, RequestAfter
<1> QED
  BY <1>1, <1>3, <1>4 DEF Prepare, Refuse, AsyncEncodeFailed

\* A deferred call keeps its request as long as it stays where it is in the
\* calls holder, when ids are used again only after END_OF_CALL.
THEOREM RequestKept ==
  ASSUME Reusable \subseteq {"ended"}
  PROVE  Spec => DeferredKeepsRequest
<1>1. ASSUME SoundInv, [Next]_vars
      PROVE  [Keeps]_vars
  <2>1. CASE UNCHANGED vars
    BY <2>1
  <2>2. CASE Parse
    <3>1. ASSUME NEW outcome \in Outcomes, NEW id \in AnyId,
                 ParseUndecodable(outcome) \/ ParseNotFound(id, outcome)
          PROVE  Keeps
      BY <3>1 DEF ParseUndecodable, ParseNotFound, Keeps
    <3> QED
      BY <1>1, <2>2, <3>1, ParseKeeps DEF Parse, AnyId
  <2>3. CASE Follow
    BY <1>1, <2>3, FollowKeeps DEF Follow
  <2> QED
    BY <1>1, <2>1, <2>2, <2>3 DEF Next
<1>2. Keeps => \A i \in Slots :
                 /\ Ongoing(i)
                 /\ callsHolder'[i] = callsHolder[i]
                 /\ request[callsHolder[i].context] = callsHolder[i].call_id
                 => request'[callsHolder[i].context] = callsHolder[i].call_id
  BY DEF Keeps
<1> QED
  BY <1>1, <1>2, SoundInvariance, PTL DEF Spec, DeferredKeepsRequest

(***************************************************************************)
(* With PB_ENABLE_MALLOC, nothing is held for a call that is over, neither *)
(* its request nor its response.                                           *)
(***************************************************************************)
Holds(c, id) == id \notin {Empty, ZeroId} => CallOf(c, id) \in Ongoings

Held(c) == Holds(c, request[c]) /\ Holds(c, response[c])

HeldInv == UniqueInv /\ \A c \in Contexts : Held(c)

\* A step that leaves the calls of other contexts alone has to see to its own.
LEMMA StepHeld ==
  ASSUME HeldInv, NEW c \in Contexts,
         \A d \in Contexts \ {c} : request'[d] = request[d] /\ response'[d] = response[d],
         OnOthers(c) \subseteq Ongoings',
         request'[c] \notin {Empty, ZeroId} => CallOf(c, request'[c]) \in Ongoings',
         response'[c] \notin {Empty, ZeroId} => CallOf(c, response'[c]) \in Ongoings'
  PROVE  \A d \in Contexts : Held(d)'
<1>1. ASSUME NEW d \in Contexts \ {c}, NEW id, Holds(d, id)
      PROVE  Holds(d, id)'
  BY <1>1 DEF Holds, OnOthers, CallOf
<1>2. ASSUME NEW d \in Contexts \ {c}
      PROVE  Held(d)'
  BY <1>1 DEF HeldInv, Held, Holds
<1>3. Held(c)'
  BY DEF Held, Holds
<1> QED
  BY <1>2, <1>3

\* It need not, when it empties both holders of its context.
LEMMA StepEmpties ==
  ASSUME HeldInv, NEW c \in Contexts,
         request' = [request EXCEPT ![c] = Empty],
         response' = [response EXCEPT ![c] = Empty],
         OnOthers(c) \subseteq Ongoings'
  PROVE  \A d \in Contexts : Held(d)'
BY StepHeld DEF HeldInv, UniqueInv, SoundInv, TypeOK

\* A request is held for the call it opens, or released.
LEMMA ParseHeld ==
  ASSUME HeldInv, Reusable = {}, Malloc, NEW m \in Methods,
         NEW id \in AnyId, NEW outcome \in Outcomes,
         ParseNonBlocking(m, id, outcome)
  PROVE  \A d \in Contexts : Held(d)'
<1> DEFINE c == ContextOf[m]
<1>1. CASE ParseUnimplemented(m, id, outcome) \/ ParseNoContext(m, id, outcome)
  BY <1>1 DEF ParseUnimplemented, ParseNoContext, HeldInv, Held, Holds, Ongoings
<1>2. CASE ParseTableFull(m, id, outcome)
  <2>1. c \in Contexts /\ Ongoings' = OnOthers(c)
    BY <1>2, ContextType, VacateCalls DEF ParseTableFull, HeldInv, Ongoings
  <2>2. /\ request' = [request EXCEPT ![c] = Empty]
        /\ response' = [response EXCEPT ![c] = Empty]
    BY <1>2 DEF ParseTableFull, Release, Released
  <2> HIDE DEF c
  <2> QED
    BY <2>1, <2>2, StepEmpties
<1>3. ASSUME CanServe(m, id), CanRegister(ng_getValidContext(c)),
             response' = [response EXCEPT ![c] = Empty],
             \/ /\ callsHolder' = Registered(c, id)
                /\ request' = [request EXCEPT ![c] = id]
             \/ /\ callsHolder' = Registered(c, id)
                /\ request' = [request EXCEPT ![c] = Empty]
             \/ /\ callsHolder' = ng_removeCall(Registered(c, id), id)
                /\ request' = [request EXCEPT ![c] = Empty]
      PROVE  \A d \in Contexts : Held(d)'
  <2>1. c \in Contexts /\ MayRequest(id)
    BY <1>3, ContextType DEF CanServe
  <2> HIDE DEF c
  <2>2. /\ Calls(Registered(c, id))
             = OnOthers(c) \cup (IF id = ZeroId THEN {} ELSE {CallOf(c, id)})
        /\ Calls(ng_removeCall(Registered(c, id), id)) = OnOthers(c)
    BY <1>3, <2>1, ServeCalls DEF HeldInv
  <2>3. CASE callsHolder' = Registered(c, id) /\ request' = [request EXCEPT ![c] = id]
    <3>1. /\ request' \in [Contexts -> Holder] /\ response' \in [Contexts -> Holder]
          /\ request'[c] = id /\ response'[c] = Empty
          /\ \A d \in Contexts \ {c} : request'[d] = request[d] /\ response'[d] = response[d]
      BY <1>3, <2>1, <2>3 DEF HeldInv, UniqueInv, SoundInv, TypeOK, Holder
    <3>2. Ongoings' = OnOthers(c) \cup (IF id = ZeroId THEN {} ELSE {CallOf(c, id)})
      BY <2>2, <2>3 DEF Ongoings
    <3> QED
      BY <2>1, <3>1, <3>2, StepHeld
  <2>4. CASE request' = [request EXCEPT ![c] = Empty]
    <3>1. OnOthers(c) \subseteq Ongoings'
      BY <1>3, <2>2 DEF Ongoings
    <3> QED
      BY <1>3, <2>1, <2>4, <3>1, StepEmpties
  <2> QED
    BY <1>3, <2>3, <2>4
<1>4. CASE ParseBadPayload(m, id, outcome)
  BY <1>3, <1>4 DEF ParseBadPayload, Release, Released
<1>5. CASE ParseDeferred(m, id) \/ ParseFailed(m, id, outcome)
  BY <1>3, <1>5
  DEF ParseDeferred, ParseFailed, Called, Released, response_fillWithZeros
<1>6. ASSUME NEW status \in CallbackStatus, NEW valid \in BOOLEAN,
             ParseAnswered(m, id, status, valid, outcome)
      PROVE  \A d \in Contexts : Held(d)'
  BY <1>3, <1>6 DEF ParseAnswered, Called, Released
<1> QED
  BY <1>1, <1>2, <1>4, <1>5, <1>6 DEF ParseNonBlocking

\* A response is prepared for an ongoing call and released when it is sent, and
\* the end of a call releases the request of its context.
LEMMA FollowHeld ==
  ASSUME HeldInv, Malloc, NEW c \in Contexts,
         \/ Prepare(c)
         \/ Refuse(c)
         \/ AsyncEncodeFailed(c)
         \/ \E end \in BOOLEAN : AsyncResponse(c, end)
         \/ endOfCall(c)
  PROVE  \A d \in Contexts : Held(d)'
<1>0. request \in [Contexts -> Holder] /\ response \in [Contexts -> Holder]
  BY DEF HeldInv, UniqueInv, SoundInv, TypeOK
<1>1. CASE Refuse(c)
  BY <1>1 DEF Refuse, HeldInv, Held, Holds, Ongoings
<1>2. CASE Prepare(c)
  <2>1. /\ response'[c] = ctxCallId[c]
        /\ \A d \in Contexts \ {c} : response'[d] = response[d]
        /\ request' = request
        /\ Ongoings' = Ongoings
    BY <1>0, <1>2 DEF Prepare, Ongoings
  <2>2. CallOf(c, ctxCallId[c]) \in Ongoings
    <3>1. callsHolder \in CallsHolder /\ ctxCallId[c] \in AnyId
      BY DEF HeldInv, UniqueInv, SoundInv, TypeOK
    <3>2. PICK call \in Ongoings : call.call_id = ctxCallId[c]
      BY <1>2, <3>1, OngoingCalls DEF Prepare, Ongoings
    <3>3. call.context = c /\ call = CallOf(call.context, call.call_id)
      BY <3>2, OtherIds, OngoingSound DEF HeldInv, UniqueInv
    <3> QED
      BY <3>2, <3>3
  <2>3. request[c] \notin {Empty, ZeroId} => CallOf(c, request[c]) \in Ongoings
    BY DEF HeldInv, Held, Holds
  <2>4. OnOthers(c) \subseteq Ongoings'
    BY <2>1 DEF OnOthers
  <2> QED
    BY <2>1, <2>2, <2>3, <2>4, StepHeld
<1>3. CASE /\ UNCHANGED <<callsHolder, request>>
           /\ response' = Release(response, c)
  <2>1. /\ response'[c] = Empty
        /\ \A d \in Contexts \ {c} : response'[d] = response[d]
        /\ request' = request
        /\ Ongoings' = Ongoings
    BY <1>0, <1>3 DEF Release, Released, Ongoings
  <2>2. request[c] \notin {Empty, ZeroId} => CallOf(c, request[c]) \in Ongoings
    BY DEF HeldInv, Held, Holds
  <2>3. OnOthers(c) \subseteq Ongoings'
    BY <2>1 DEF OnOthers
  <2> QED
    BY <2>1, <2>2, <2>3, StepHeld
<1>4. CASE /\ callsHolder' = ng_removeCall(callsHolder, ctxCallId[c])
           /\ request' = Release(request, c)
           /\ response' = Release(response, c)
  <2>1. Ongoings' = OnOthers(c)
    BY <1>4, VacateCalls DEF HeldInv, Ongoings, ng_getValidContext
  <2>2. /\ request' = [request EXCEPT ![c] = Empty]
        /\ response' = [response EXCEPT ![c] = Empty]
    BY <1>4 DEF Release, Released
  <2> QED
    BY <2>1, <2>2, StepEmpties
<1>5. ASSUME NEW end \in BOOLEAN, AsyncResponse(c, end)
      PROVE  \A d \in Contexts : Held(d)'
  BY <1>3, <1>4, <1>5 DEF AsyncResponse, CallsAfter, RequestAfter
<1>6. CASE endOfCall(c)
  BY <1>4, <1>6 DEF endOfCall, CallsAfter, RequestAfter
<1>7. CASE AsyncEncodeFailed(c)
  BY <1>3, <1>7 DEF AsyncEncodeFailed
<1> QED
  BY <1>1, <1>2, <1>5, <1>6, <1>7

\* Nothing is held at the start.
LEMMA InitHeld == Init => HeldInv
<1> SUFFICES ASSUME Init PROVE HeldInv
  OBVIOUS
<1>1. UniqueInv
  <2>1. \A c \in Contexts : ctxCallId[c] \notin Ids
    BY DEF Init
  <2> QED
    BY <2>1, InitSound DEF UniqueInv, UsedIds, OwnIds
<1> QED
  BY <1>1 DEF Init, HeldInv, Held, Holds

\* Every step holds and releases as it should.
LEMMA NextHeld ==
  ASSUME Reusable = {}, Malloc, HeldInv, [Next]_vars
  PROVE  HeldInv'
<1>1. UniqueInv'
  BY NextUnique DEF HeldInv
<1>2. CASE UNCHANGED <<callsHolder, request, response>>
  BY <1>1, <1>2 DEF HeldInv, Held, Holds, Ongoings
<1>3. CASE Parse
  BY <1>1, <1>2, <1>3, ParseHeld
  DEF Parse, HeldInv, ParseUndecodable, ParseNotFound
<1>4. CASE Follow
  BY <1>1, <1>4, FollowHeld DEF Follow, HeldInv
<1> QED
  BY <1>2, <1>3, <1>4 DEF Next, vars

\* In a build that allocates, a request that is held belongs to an ongoing call
\* of its context, if every request has a new id.
THEOREM RequestReleased ==
  ASSUME Reusable = {}, Malloc
  PROVE  Spec => []HeldRequestIsOngoing
<1>1. HeldInv => HeldRequestIsOngoing
  BY DEF HeldInv, Held, Holds, HeldRequestIsOngoing, Ongoings, Calls, CallOf
<1> QED
  BY <1>1, InitHeld, NextHeld, PTL DEF Spec

-----------------------------------------------------------------------------
\* With a slot for every context there is always room for a request: calls that
\* are left in a full calls holder would be more than the other contexts.
THEOREM RoomForAll ==
  ASSUME Reusable \subseteq {"ended"}, IsFiniteSet(Contexts)
  PROVE  Spec => []AlwaysRoom
<1>1. ASSUME SoundInv
      PROVE  AlwaysRoom
  <2> SUFFICES ASSUME Cardinality(Contexts) <= callsHolderSize, NEW c \in Contexts,
                      ~ CanRegister(ng_getValidContext(c))
               PROVE  FALSE
    BY Zenon DEF AlwaysRoom
  <2> DEFINE others == Contexts \ {c}
             contextOf == [i \in Slots |-> callsHolder[i].context]
  <2>1. \A i \in Slots : Ongoing(i) /\ callsHolder[i].context # c
    BY <1>1, FreedSound DEF CanRegister, SlotsWith, Ongoing
  <2>2. contextOf \in [Slots -> others]
    BY <1>1, <2>1 DEF SoundInv, TableSound
  <2>3. \A i, j \in Slots : contextOf[i] = contextOf[j] => i = j
    BY <1>1, <2>1 DEF SoundInv, TableSound
  <2>4. IsFiniteSet(Slots) /\ Cardinality(Slots) = callsHolderSize
    <3>1. callsHolderSize - 1 \in Int
      OBVIOUS
    <3> QED
      BY <3>1, FS_Interval DEF Slots
  <2>5. IsFiniteSet(others) /\ Cardinality(others) = Cardinality(Contexts) - 1
    BY FS_RemoveElement
  <2>6. Cardinality(others) < Cardinality(Slots)
    BY <2>4, <2>5, FS_CardinalityType
  <2> HIDE DEF others, contextOf
  <2> QED
    BY <2>2, <2>3, <2>4, <2>5, <2>6, FS_PigeonHole
<1> QED
  BY <1>1, SoundInvariance, PTL

\* What a step sends is not sent under an id whose call has ended.
Silent ==
  \A id \in Ids :
    seen[id] = "ended" /\ seen'[id] = "ended"
      => (reply' # NoReply => reply'.call_id # id)

\* No step answers a call that has ended.
LEMMA NextSilent ==
  ASSUME Reusable = {}, UniqueInv, [Next]_vars
  PROVE  [Silent]_vars
<1>1. ASSUME NEW id \in AnyId, id \in Ids => seen[id] # "ended",
             reply' # NoReply => reply'.call_id = id
      PROVE  Silent
  BY <1>1 DEF Silent
<1>2. ASSUME NEW id \in AnyId, MayRequest(id)
      PROVE  id \in Ids => seen[id] # "ended"
  BY <1>2 DEF MayRequest
<1>3. ASSUME NEW id \in AnyId, NEW r, NEW outcome, r.call_id = id,
             Respond(id, r, outcome)
      PROVE  reply' # NoReply => reply'.call_id = id
  BY <1>3 DEF Respond
<1>4. ASSUME NEW outcome \in Outcomes, ParseUndecodable(outcome)
      PROVE  Silent
  BY <1>1, <1>3, <1>4 DEF ParseUndecodable, Plain, AnyId
<1>5. ASSUME NEW outcome \in Outcomes, NEW id \in AnyId,
             ParseNotFound(id, outcome)
      PROVE  Silent
  BY <1>1, <1>2, <1>3, <1>5 DEF ParseNotFound, Plain
<1>6. ASSUME NEW outcome \in Outcomes, NEW id \in AnyId, NEW m \in Methods,
             ParseNonBlocking(m, id, outcome)
      PROVE  Silent
  <2>1. MayRequest(id)
    BY <1>6
    DEF ParseNonBlocking, ParseUnimplemented, ParseNoContext, ParseTableFull,
        ParseBadPayload, ParseDeferred, ParseFailed, ParseAnswered, Called,
        CanServe
  <2>2. reply' = NoReply \/ \E r : r.call_id = id /\ Respond(id, r, outcome)
    BY <1>6
    DEF ParseNonBlocking, ParseUnimplemented, ParseNoContext, ParseTableFull,
        ParseBadPayload, ParseDeferred, ParseFailed, ParseAnswered, Plain
  <2> QED
    BY <1>1, <1>2, <1>3, <2>1, <2>2
<1>7. ASSUME NEW c \in Contexts,
             \/ Prepare(c)
             \/ Refuse(c)
             \/ AsyncEncodeFailed(c)
             \/ \E end \in BOOLEAN : AsyncResponse(c, end)
             \/ endOfCall(c)
      PROVE  Silent
  <2>1. CASE reply' = NoReply
    BY <2>1 DEF Silent
  <2>2. CASE /\ ng_isCallOngoing(callsHolder, ctxCallId[c])
             /\ reply'.call_id = ctxCallId[c]
    <3>1. callsHolder \in CallsHolder /\ ctxCallId[c] \in AnyId
      BY DEF UniqueInv, SoundInv, TypeOK
    <3>2. \E call \in Ongoings : call.call_id = ctxCallId[c]
      BY <2>2, <3>1, OngoingCalls DEF Ongoings
    <3>3. seen[ctxCallId[c]] # "ended"
      BY <3>2, OngoingSound DEF UniqueInv
    <3> QED
      BY <1>1, <2>2, <3>1, <3>3
  <2> QED
    BY <1>7, <2>1, <2>2
    DEF Prepare, Refuse, AsyncEncodeFailed, AsyncResponse, endOfCall, Plain
<1> QED
  BY <1>4, <1>5, <1>6, <1>7 DEF Next, Parse, Follow

\* The same, as EndOfCallIsLast has it.
LEMMA SilentIsLast ==
  Silent => \A id \in Ids :
              seen[id] = "ended" /\ seen'[id] = "ended"
                => (reply' # NoReply => reply'.call_id # id)
BY DEF Silent

\* After END_OF_CALL nothing more is sent under that id, if every request has a
\* new one.
THEOREM NothingAfterEnd ==
  ASSUME Reusable = {}
  PROVE  Spec => EndOfCallIsLast
BY NextSilent, SilentIsLast, UniqueInvariance, PTL DEF Spec, EndOfCallIsLast

-----------------------------------------------------------------------------
(***************************************************************************)
(* The server implements the life of a call.  First the three ways in      *)
(* which a step changes what the contexts are busy with.                   *)
(***************************************************************************)
BusyWith(calls, ids) ==
  [c \in Contexts |-> IF \E call \in calls : call.context = c THEN ids[c] ELSE Empty]

\* What the contexts are busy with, told by the calls and their ids.
LEMMA CurrentIsBusy ==
  /\ TypeOK => CurrentCall = BusyWith(Ongoings, ctxCallId)
  /\ TypeOK' => CurrentCall' = BusyWith(Ongoings', ctxCallId')
<1>1. ASSUME TypeOK PROVE CurrentCall = BusyWith(Ongoings, ctxCallId)
  <2>1. callsHolder \in CallsHolder
    BY <1>1 DEF TypeOK
  <2> QED
    BY <2>1, OngoingCalls DEF CurrentCall, BusyWith, Ongoings
<1>2. ASSUME TypeOK' PROVE CurrentCall' = BusyWith(Ongoings', ctxCallId')
  <2>1. callsHolder' \in CallsHolder
    BY <1>2 DEF TypeOK
  <2> QED
    BY <2>1, OngoingCalls DEF CurrentCall, BusyWith, Ongoings
<1> QED
  BY <1>1, <1>2

\* A step that leaves them alone.
LEMMA CurrentKept ==
  ASSUME UNCHANGED <<callsHolder, ctxCallId>>
  PROVE  CurrentCall' = CurrentCall
BY DEF CurrentCall

\* A step that takes the call of a context away.
LEMMA CurrentVacated ==
  ASSUME UniqueInv, TypeOK', NEW c \in Contexts, NEW id,
         Ongoings' = OnOthers(c),
         ctxCallId' = ctxCallId \/ ctxCallId' = [ctxCallId EXCEPT ![c] = id]
  PROVE  CurrentCall' = [CurrentCall EXCEPT ![c] = Empty]
<1>1. ctxCallId \in [Contexts -> AnyId] /\ TypeOK
  BY DEF UniqueInv, SoundInv, TypeOK
<1>2. BusyWith(OnOthers(c), ctxCallId') = [BusyWith(Ongoings, ctxCallId) EXCEPT ![c] = Empty]
  BY <1>1 DEF BusyWith, OnOthers
<1> QED
  BY <1>1, <1>2, CurrentIsBusy

\* A step that puts the call of a request there.
LEMMA CurrentServed ==
  ASSUME UniqueInv, TypeOK', NEW c \in Contexts, NEW id,
         Ongoings' = OnOthers(c) \cup {CallOf(c, id)},
         ctxCallId' = [ctxCallId EXCEPT ![c] = id]
  PROVE  CurrentCall' = [CurrentCall EXCEPT ![c] = id]
<1>1. ctxCallId \in [Contexts -> AnyId] /\ TypeOK
  BY DEF UniqueInv, SoundInv, TypeOK
<1>2. BusyWith(OnOthers(c) \cup {CallOf(c, id)}, ctxCallId')
        = [BusyWith(Ongoings, ctxCallId) EXCEPT ![c] = id]
  <2> DEFINE new == CallOf(c, id)
  <2>1. new.context = c
    BY DEF CallOf
  <2> HIDE DEF new
  <2>2. \E call \in OnOthers(c) \cup {new} : call.context = c
    BY <2>1
  <2>3. \A d \in Contexts \ {c} :
          (\E call \in OnOthers(c) \cup {new} : call.context = d)
            <=> \E call \in Ongoings : call.context = d
    BY <2>1 DEF OnOthers
  <2> QED
    BY <1>1, <2>2, <2>3 DEF BusyWith, new
<1> QED
  BY <1>1, <1>2, CurrentIsBusy

-----------------------------------------------------------------------------
(* Which data a step loses                                                 *)

\* What a step loses was held for the call of the context whose request it serves,
\* and that call is gone then.
LosesReplaced ==
  \A id \in leaked' \cap Ids :
    /\ target' # NoContext
    /\ CurrentCall[target'] = id
    /\ CurrentCall'[target'] # id

\* What a context holds for a call is of the call it is busy with.
LEMMA HeldIsCurrent ==
  ASSUME HeldInv, NEW c \in Contexts, NEW id \in Ids, id \in {request[c], response[c]}
  PROVE  CurrentCall[c] = id /\ seen[id] # "fresh"
<1>1. CallOf(c, id) \in Ongoings
  BY DEF HeldInv, Held, Holds, AnyId
<1>2. ctxCallId[c] = id /\ seen[id] # "fresh"
  BY <1>1, OngoingSound DEF HeldInv, UniqueInv, CallOf
<1>3. TypeOK
  BY DEF HeldInv, UniqueInv, SoundInv
<1>4. BusyWith(Ongoings, ctxCallId)[c] = ctxCallId[c]
  BY <1>1 DEF BusyWith, CallOf
<1> QED
  BY <1>2, <1>3, <1>4, CurrentIsBusy

\* A request that gets to its callback has a new id.
LEMMA CalledLoses ==
  ASSUME HeldInv, Reusable = {}, NEW c \in Contexts, NEW id \in AnyId,
         MayRequest(id), ctxCallId' = [ctxCallId EXCEPT ![c] = id],
         target' = c, leaked' \subseteq {request[c], response[c]}
  PROVE  LosesReplaced
<1>1. CurrentCall'[c] \in {id, Empty}
  BY DEF CurrentCall, HeldInv, UniqueInv, SoundInv, TypeOK
<1>2. \A j \in Ids : seen[j] # "fresh" => CurrentCall'[c] # j
  BY <1>1 DEF MayRequest, AnyId
<1> QED
  BY <1>2, HeldIsCurrent DEF LosesReplaced

\* One that gets to be decoded takes the call of its context away.
LEMMA ParseLoses ==
  ASSUME HeldInv, TypeOK', Reusable = {}, Malloc, NEW m \in Methods,
         NEW id \in AnyId, NEW outcome \in Outcomes,
         ParseNonBlocking(m, id, outcome)
  PROVE  LosesReplaced
<1> DEFINE c == ContextOf[m]
<1>1. CASE leaked' = {}
  BY <1>1 DEF LosesReplaced
<1>3. CASE ParseBadPayload(m, id, outcome)
  <2>1. /\ c \in Contexts /\ MayRequest(id)
        /\ CanRegister(ng_getValidContext(c))
        /\ callsHolder' = ng_removeCall(Registered(c, id), id)
        /\ ctxCallId' = ctxCallId
        /\ target' = c /\ leaked' \subseteq {request[c], response[c]}
    BY <1>3, ContextType DEF ParseBadPayload, CanServe, Takes, Lost
  <2> HIDE DEF c
  <2>2. Ongoings' = OnOthers(c)
    BY <2>1, ServeCalls DEF HeldInv, Ongoings
  <2>3. CurrentCall' = [CurrentCall EXCEPT ![c] = Empty]
    BY <2>1, <2>2, CurrentVacated DEF HeldInv
  <2>4. CurrentCall'[c] = Empty
    BY <2>1, <2>3 DEF CurrentCall
  <2>5. \A j \in Ids : CurrentCall'[c] # j
    BY <2>4 DEF AnyId
  <2> QED
    BY <2>1, <2>5, HeldIsCurrent DEF LosesReplaced
<1>4. ASSUME NEW status, Called(m, id, status)
      PROVE  LosesReplaced
  <2>1. /\ c \in Contexts /\ MayRequest(id)
        /\ ctxCallId' = [ctxCallId EXCEPT ![c] = id]
        /\ target' = c /\ leaked' \subseteq {request[c], response[c]}
    BY <1>4, ContextType DEF Called, CanServe, Takes, Lost
  <2> HIDE DEF c
  <2> QED
    BY <2>1, CalledLoses
<1>5. CASE \/ ParseUnimplemented(m, id, outcome)
           \/ ParseNoContext(m, id, outcome)
           \/ ParseTableFull(m, id, outcome)
  BY <1>1, <1>5 DEF ParseUnimplemented, ParseNoContext, ParseTableFull, Takes
<1>6. CASE \/ ParseDeferred(m, id)
           \/ ParseFailed(m, id, outcome)
           \/ \E status \in CallbackStatus, valid \in BOOLEAN :
                ParseAnswered(m, id, status, valid, outcome)
  BY <1>4, <1>6 DEF ParseDeferred, ParseFailed, ParseAnswered
<1> QED
  BY <1>3, <1>5, <1>6 DEF ParseNonBlocking

\* No other step loses anything.
LEMMA NextLoses ==
  ASSUME Reusable = {}, Malloc, HeldInv, HeldInv', [Next]_vars
  PROVE  [LosesReplaced]_vars
<1>1. CASE UNCHANGED vars
  BY <1>1
<1>2. CASE leaked' = {}
  BY <1>2 DEF LosesReplaced
<1>3. CASE Parse
  <2>1. TypeOK'
    BY DEF HeldInv, UniqueInv, SoundInv
  <2> QED
    BY <1>2, <1>3, <2>1, ParseLoses
    DEF Parse, ParseUndecodable, ParseNotFound, Takes
<1>4. CASE Follow
  BY <1>2, <1>4
  DEF Follow, Prepare, Refuse, AsyncEncodeFailed, AsyncResponse, endOfCall, Takes
<1> QED
  BY <1>1, <1>3, <1>4 DEF Next

\* The same, as OnlyReplacedCallsLeak has it.
LEMMA LosesIsLeak ==
  LosesReplaced => \A id \in leaked' \cap Ids :
                     /\ target' # NoContext
                     /\ CurrentCall[target'] = id
                     /\ CurrentCall'[target'] # id
BY DEF LosesReplaced

\* In a build that allocates, with a new id for every request, memory is lost only
\* by a request that takes the place of an ongoing call of its context.
THEOREM LeakOnlyByReplacement ==
  ASSUME Reusable = {}, Malloc
  PROVE  Spec => OnlyReplacedCallsLeak
BY InitHeld, NextHeld, NextLoses, LosesIsLeak, PTL DEF Spec, OnlyReplacedCallsLeak

-----------------------------------------------------------------------------
(* Then the steps of the life of a call.                                   *)

NowAsked(id) ==
  \A j \in Ids : seen'[j] = "fresh" <=> seen[j] = "fresh" /\ j # id

\* A step that parses a request with this id.
LEMMA RequestStep ==
  ASSUME Reusable = {}, NEW id \in AnyId, MayRequest(id), came' = id,
         NowAsked(id), target' \in AnyContext,
         \/ CurrentCall' = CurrentCall
         \/ target' \in Contexts /\ CurrentCall' = [CurrentCall EXCEPT ![target'] = Empty]
         \/ /\ id \in Ids /\ target' \in Contexts
            /\ CurrentCall' = [CurrentCall EXCEPT ![target'] = id],
         reply' # NoReply
           => /\ reply'.call_id = id
              /\ id \in Ids /\ reply'.type = "END_OF_CALL"
                   => \A c \in Contexts : CurrentCall'[c] # id
  PROVE  Life!Next
<1>0. target' \in Contexts => target' # NoContext
  OBVIOUS
<1>1. CASE id \in Ids
  <2>1. id \in Ids \ AskedIds /\ AskedIds' = AskedIds \cup {id}
    BY <1>1 DEF MayRequest, AskedIds, NowAsked
  <2>2. \/ OnTheLine' = NoReply
        \/ OnTheLine' = [call_id |-> id, last |-> FALSE]
        \/ /\ OnTheLine' = [call_id |-> id, last |-> TRUE]
           /\ \A c \in Contexts : CurrentCall'[c] # id
    BY <1>1 DEF OnTheLine
  <2>3. Life!Takes({Empty, id})
    BY <1>0 DEF Life!Takes, AnyContext
  <2>4. Life!Request(id)
    BY <2>1, <2>2, <2>3 DEF Life!Request, Life!Sends
  <2> QED
    BY <1>1, <2>4 DEF Life!Next
<1>2. CASE id \notin Ids
  <2>1. AskedIds' = AskedIds
    BY <1>2 DEF AskedIds, NowAsked
  <2>2. came' \notin Ids \cup {Empty}
    BY <1>2
  <2>3. OnTheLine' = NoReply \/ OnTheLine'.call_id \notin Ids
    BY <1>2 DEF OnTheLine
  <2>4. Life!Takes({Empty})
    BY <1>0, <1>2 DEF Life!Takes, AnyContext
  <2>5. Life!Anonymous
    BY <1>2, <2>1, <2>2, <2>3, <2>4 DEF Life!Anonymous
  <2> QED
    BY <2>5 DEF Life!Next
<1> QED
  BY <1>1, <1>2

\* A step that answers the call a context is busy with.
LEMMA AnswerStep ==
  ASSUME NEW c \in Contexts, NEW last \in BOOLEAN,
         CurrentCall[c] # Empty,
         OnTheLine' = [call_id |-> CurrentCall[c], last |-> last],
         CurrentCall' = IF last THEN [CurrentCall EXCEPT ![c] = Empty]
                        ELSE CurrentCall,
         came' = Empty, target' \in AnyContext, AskedIds' = AskedIds
  PROVE  Life!Next
<1>1. Life!NoRequest
  BY DEF Life!NoRequest, AnyContext
<1> QED
  BY <1>1 DEF Life!Next, Life!Answer, Life!Sends

\* A step that sends nothing and leaves the calls alone.
LEMMA SilentStep ==
  ASSUME came' = Empty, target' \in AnyContext, reply' = NoReply,
         UNCHANGED <<callsHolder, ctxCallId, seen>>
  PROVE  Life!Next
<1>1. Life!Silence
  BY CurrentKept DEF Life!Silence, Life!NoRequest, OnTheLine, AskedIds, AnyContext
<1> QED
  BY <1>1 DEF Life!Next

\* What the end of ng_GrpcParseNonBlocking shows of the request.
LEMMA RespondLife ==
  ASSUME NEW id, NEW r, NEW outcome, r.call_id = id, Respond(id, r, outcome)
  PROVE  /\ came' = id
         /\ NowAsked(id)
         /\ reply' # NoReply => reply' = r
<1>1. ASSUME NEW j \in Ids
      PROVE  Heard(Asked(id), r)[j] = "fresh" <=> Asked(id)[j] = "fresh"
  BY DEF Heard, Asked
<1> QED
  BY <1>1, AskedUsed DEF Respond, NowAsked

\* Such a response never tells the end of a call.
LEMMA PlainLife ==
  ASSUME NEW id, NEW status, NEW outcome, Respond(id, Plain(id, status), outcome)
  PROVE  /\ came' = id
         /\ NowAsked(id)
         /\ reply' # NoReply => reply'.call_id = id /\ reply'.type = "none"
<1> DEFINE r == Plain(id, status)
<1>1. r.call_id = id /\ r.type = "none"
  BY DEF Plain
<1> HIDE DEF r
<1>2. Respond(id, r, outcome)
  BY DEF r
<1>3. reply' # NoReply => reply' = r
  BY <1>1, <1>2, RespondLife
<1> QED
  BY <1>1, <1>2, <1>3, RespondLife

-----------------------------------------------------------------------------
\* ng_GrpcParseNonBlocking is a request in the life of a call.
LEMMA ParseLife ==
  ASSUME UniqueInv, TypeOK', Reusable = {}, NEW m \in Methods, NEW id \in AnyId,
         NEW outcome \in Outcomes, ParseNonBlocking(m, id, outcome)
  PROVE  Life!Next
<1> DEFINE c == ContextOf[m]
<1>0. \A status : Plain(id, status).call_id = id /\ Plain(id, status).type = "none"
  BY DEF Plain
<1>1. CASE ParseUnimplemented(m, id, outcome) \/ ParseNoContext(m, id, outcome)
  <2>1. /\ MayRequest(id)
        /\ \E status : Respond(id, Plain(id, status), outcome)
        /\ UNCHANGED <<callsHolder, ctxCallId>>
        /\ target' \in AnyContext
    BY <1>1 DEF ParseUnimplemented, ParseNoContext, Takes, AnyContext
  <2> QED
    BY <2>1, PlainLife, CurrentKept, RequestStep
\* The request finds no place.
<1>2. CASE ParseTableFull(m, id, outcome)
  <2>1. /\ c \in Contexts
        /\ MayRequest(id)
        /\ Respond(id, Plain(id, "INTERNAL"), outcome)
        /\ Ongoings' = OnOthers(c)
        /\ ctxCallId' = ctxCallId
        /\ target' = c
    BY <1>2, ContextType, VacateCalls DEF ParseTableFull, CanServe, Ongoings, Takes
  <2> HIDE DEF c
  <2>2. CurrentCall' = [CurrentCall EXCEPT ![c] = Empty]
    BY <2>1, CurrentVacated
  <2> QED
    BY <2>1, <2>2, PlainLife, RequestStep DEF AnyContext
\* The request is over when it is answered.
<1>3. ASSUME NEW r, r.call_id = id,
             CanServe(m, id), CanRegister(ng_getValidContext(c)),
             callsHolder' = ng_removeCall(Registered(c, id), id),
             ctxCallId' = ctxCallId \/ ctxCallId' = [ctxCallId EXCEPT ![c] = id],
             target' = c,
             Respond(id, r, outcome)
      PROVE  Life!Next
  <2>1. c \in Contexts /\ MayRequest(id)
    BY <1>3, ContextType DEF CanServe
  <2> HIDE DEF c
  <2>2. Ongoings' = OnOthers(c) /\ \A call \in Ongoings : call.call_id # id
    BY <1>3, <2>1, ServeCalls DEF Ongoings
  <2>3. CurrentCall' = [CurrentCall EXCEPT ![c] = Empty]
    BY <1>3, <2>1, <2>2, CurrentVacated
  <2>4. ASSUME NEW d \in Contexts, id \in Ids
        PROVE  CurrentCall'[d] # id
    <3>1. ctxCallId[d] # id
      BY <2>1, <2>4 DEF UniqueInv, UsedIds, MayRequest
    <3> QED
      BY <2>3, <2>4, <3>1 DEF CurrentCall, AnyId
  <2> QED
    BY <1>3, <2>1, <2>3, <2>4, RespondLife, RequestStep DEF AnyContext
\* The request has a call from now on.
<1>4. ASSUME CanServe(m, id), CanRegister(ng_getValidContext(c)),
             callsHolder' = Registered(c, id),
             ctxCallId' = [ctxCallId EXCEPT ![c] = id],
             target' = c,
             came' = id,
             NowAsked(id),
             reply' # NoReply
               => reply'.call_id = id /\ reply'.type # "END_OF_CALL"
      PROVE  Life!Next
  <2>1. c \in Contexts /\ MayRequest(id)
    BY <1>4, ContextType DEF CanServe
  <2> HIDE DEF c
  <2>2. Ongoings' = OnOthers(c) \cup (IF id = ZeroId THEN {} ELSE {CallOf(c, id)})
    BY <1>4, <2>1, ServeCalls DEF Ongoings
  <2>3. CASE id = ZeroId
    <3>1. CurrentCall' = [CurrentCall EXCEPT ![c] = Empty]
      BY <1>4, <2>1, <2>2, <2>3, CurrentVacated
    <3> QED
      BY <1>4, <2>1, <3>1, RequestStep DEF AnyContext
  <2>4. CASE id # ZeroId
    <3>1. CurrentCall' = [CurrentCall EXCEPT ![c] = id]
      BY <1>4, <2>1, <2>2, <2>4, CurrentServed
    <3>2. id \in Ids
      BY <2>4 DEF AnyId
    <3> QED
      BY <1>4, <2>1, <3>1, <3>2, RequestStep DEF AnyContext
  <2> QED
    BY <2>3, <2>4
<1>5. CASE ParseBadPayload(m, id, outcome)
  BY <1>0, <1>3, <1>5 DEF ParseBadPayload, Takes
<1>6. CASE ParseDeferred(m, id)
  <2>1. NowAsked(id)
    BY <1>6, AskedUsed DEF ParseDeferred, NowAsked
  <2> QED
    BY <1>4, <1>6, <2>1 DEF ParseDeferred, Called, Takes
<1>7. CASE ParseFailed(m, id, outcome)
  <2>1. Respond(id, Plain(id, "INTERNAL"), outcome)
    BY <1>7 DEF ParseFailed
  <2>2. /\ came' = id
        /\ NowAsked(id)
        /\ reply' # NoReply => reply'.call_id = id /\ reply'.type = "none"
    BY <2>1, PlainLife
  <2> QED
    BY <1>4, <1>7, <2>2 DEF ParseFailed, Called, Takes
<1>8. ASSUME NEW status \in CallbackStatus, NEW valid \in BOOLEAN,
             ParseAnswered(m, id, status, valid, outcome)
      PROVE  Life!Next
  <2> DEFINE over == IsOver(m, status)
             r == [Plain(id, IF valid THEN "OK" ELSE "INTERNAL") EXCEPT
                     !.type = IF over THEN "END_OF_CALL" ELSE @,
                     !.data = IF valid THEN id ELSE @]
  <2>1. /\ CanServe(m, id)
        /\ CanRegister(ng_getValidContext(c))
        /\ ctxCallId' = [ctxCallId EXCEPT ![c] = id]
        /\ Respond(id, r, outcome)
        /\ callsHolder' = IF over THEN ng_removeCall(Registered(c, id), id)
                                  ELSE Registered(c, id)
        /\ target' = c
    BY <1>8 DEF ParseAnswered, Called, Takes
  <2>2. r.call_id = id /\ (~ over => r.type # "END_OF_CALL")
    BY DEF Plain
  <2> HIDE DEF c, r, over
  <2>3. CASE over
    BY <1>3, <2>1, <2>2, <2>3 DEF c
  <2>4. CASE ~ over
    <3>1. /\ came' = id
          /\ NowAsked(id)
          /\ reply' # NoReply => reply' = r
      BY <2>1, <2>2, RespondLife
    <3> QED
      BY <1>4, <2>1, <2>2, <2>4, <3>1 DEF c
  <2> QED
    BY <2>3, <2>4
<1> QED
  BY <1>1, <1>2, <1>5, <1>6, <1>7, <1>8 DEF ParseNonBlocking

\* Everything else is an answer, or silence.
LEMMA FollowLife ==
  ASSUME UniqueInv, TypeOK', NEW c \in Contexts,
         \/ Prepare(c)
         \/ Refuse(c)
         \/ AsyncEncodeFailed(c)
         \/ \E end \in BOOLEAN : AsyncResponse(c, end)
         \/ endOfCall(c)
  PROVE  Life!Next
<1> DEFINE id == ctxCallId[c]
<1>1. ASSUME NEW last \in BOOLEAN, NEW r,
             ng_isCallOngoing(callsHolder, id),
             callsHolder' = CallsAfter(id, last),
             reply' = r, r # NoReply, r.call_id = id,
             last <=> r.type = "END_OF_CALL",
             came' = Empty, target' = NoContext,
             seen' = Heard(seen, r), ctxCallId' = ctxCallId
      PROVE  Life!Next
  <2>1. callsHolder \in CallsHolder /\ id \in AnyId
    BY DEF UniqueInv, SoundInv, TypeOK
  <2>2. /\ ng_isContextUsedByOngoingCall(callsHolder, c)
        /\ id \in Ids
        /\ seen[id] # "fresh"
    <3>1. PICK call \in Ongoings : call.call_id = id
      BY <1>1, <2>1, OngoingCalls DEF Ongoings
    <3>2. call.context = c
      BY <3>1, OtherIds
    <3> QED
      BY <2>1, <3>1, <3>2, OngoingSound, OngoingCalls DEF Ongoings, UniqueInv
  <2>3. CurrentCall[c] = id /\ id # Empty
    BY <2>1, <2>2 DEF CurrentCall
  <2>4. AskedIds' = AskedIds
    BY <1>1, <2>2 DEF AskedIds, Heard
  <2>5. OnTheLine' = [call_id |-> id, last |-> last]
    BY <1>1 DEF OnTheLine
  <2>6. CASE last
    <3>1. Ongoings' = OnOthers(c)
      BY <1>1, <2>6, VacateCalls DEF CallsAfter, Ongoings, ng_getValidContext
    <3>2. CurrentCall' = [CurrentCall EXCEPT ![c] = Empty]
      BY <1>1, <3>1, CurrentVacated
    <3> QED
      BY <1>1, <2>3, <2>4, <2>5, <2>6, <3>2, AnswerStep DEF AnyContext
  <2>7. CASE ~ last
    <3>1. CurrentCall' = CurrentCall
      BY <1>1, <2>7, CurrentKept DEF CallsAfter
    <3> QED
      BY <1>1, <2>3, <2>4, <2>5, <2>7, <3>1, AnswerStep DEF AnyContext
  <2> QED
    BY <2>6, <2>7
<1>2. id \in AnyId /\ response[c] \in Holder
  BY DEF UniqueInv, SoundInv, TypeOK
<1>3. Plain(id, "OK") \in Reply
  BY <1>2, PlainType DEF Status
<1>4. ASSUME NEW end \in BOOLEAN, AsyncResponse(c, end)
      PROVE  Life!Next
  <2> DEFINE over == end \/ MethodOf[c] \notin Streaming
             r == [Plain(id, "OK") EXCEPT
                     !.type = IF over THEN "END_OF_CALL" ELSE "STREAM",
                     !.data = response[c]]
  <2>1. r \in Reply
    BY <1>2, <1>3 DEF Reply
  <2>2. r # NoReply
    BY <2>1
  <2>3. r.call_id = id /\ (over <=> r.type = "END_OF_CALL")
    BY DEF Plain
  <2>4. /\ ng_isCallOngoing(callsHolder, id)
        /\ callsHolder' = CallsAfter(id, over)
        /\ reply' = r
        /\ came' = Empty /\ target' = NoContext
        /\ seen' = Heard(seen, r)
        /\ ctxCallId' = ctxCallId
    BY <1>4 DEF AsyncResponse, Takes
  <2>5. over \in BOOLEAN
    OBVIOUS
  <2> HIDE DEF r, over, id
  <2> QED
    BY <1>1, <2>2, <2>3, <2>4, <2>5
<1>5. CASE endOfCall(c)
  <2> DEFINE r == [Plain(id, "OK") EXCEPT !.type = "END_OF_CALL"]
  <2>1. r \in Reply
    BY <1>3 DEF Reply
  <2>2. r # NoReply
    BY <2>1
  <2>3. r.call_id = id /\ r.type = "END_OF_CALL"
    BY DEF Plain
  <2>4. /\ ng_isCallOngoing(callsHolder, id)
        /\ callsHolder' = CallsAfter(id, TRUE)
        /\ reply' = r
        /\ came' = Empty /\ target' = NoContext
        /\ seen' = Heard(seen, r)
        /\ ctxCallId' = ctxCallId
    BY <1>5 DEF endOfCall, Takes
  <2> HIDE DEF r, id
  <2> QED
    BY <1>1, <2>2, <2>3, <2>4
<1> QED
  BY <1>4, <1>5, SilentStep DEF Prepare, Refuse, AsyncEncodeFailed, Takes, AnyContext

\* No context is busy at the start.
LEMMA InitLife ==
  ASSUME Init
  PROVE  Life!Init
<1>1. \A c \in Contexts : ~ ng_isContextUsedByOngoingCall(callsHolder, c)
  BY DEF Init, ng_isContextUsedByOngoingCall, FreeCall
<1>2. CurrentCall = [c \in Contexts |-> Empty]
  BY <1>1 DEF CurrentCall
<1>3. AskedIds = {} /\ OnTheLine = NoReply /\ came = Empty /\ target = NoContext
  BY DEF Init, AskedIds, OnTheLine
<1> QED
  BY <1>2, <1>3 DEF Life!Init

\* Every step of the server is one in the life of a call.
LEMMA NextLife ==
  ASSUME Reusable = {}, UniqueInv, TypeOK', Next
  PROVE  Life!Next
<1>1. ASSUME NEW id \in AnyId, NEW status, NEW outcome, MayRequest(id),
             Respond(id, Plain(id, status), outcome), Takes(NoContext, {}),
             UNCHANGED <<callsHolder, ctxCallId>>
      PROVE  Life!Next
  BY <1>1, PlainLife, CurrentKept, RequestStep DEF Takes, AnyContext
<1>2. CASE Parse
  <2>1. ZeroId \in AnyId /\ MayRequest(ZeroId)
    BY DEF AnyId, MayRequest
  <2>2. ASSUME NEW outcome \in Outcomes, ParseUndecodable(outcome)
        PROVE  Life!Next
    BY <1>1, <2>1, <2>2 DEF ParseUndecodable
  <2>3. ASSUME NEW outcome \in Outcomes, NEW id \in AnyId,
               ParseNotFound(id, outcome)
        PROVE  Life!Next
    BY <1>1, <2>3 DEF ParseNotFound
  <2> QED
    BY <1>2, <2>2, <2>3, ParseLife DEF Parse
<1>3. CASE Follow
  BY <1>3, FollowLife DEF Follow
<1> QED
  BY <1>2, <1>3 DEF Next

\* When every request has a new id the server implements the life of a call: a
\* call is answered only by its context, until END_OF_CALL or until a request
\* for that context takes its place.
THEOREM Refinement ==
  ASSUME Reusable = {}
  PROVE  Spec => ImplementsLife
<1>1. ASSUME UniqueInv, UniqueInv', [Next]_vars
      PROVE  [Life!Next]_Life!vars
  <2>1. CASE UNCHANGED vars
    BY <2>1, CurrentKept DEF vars, Life!vars, AskedIds, OnTheLine
  <2>2. TypeOK'
    BY <1>1 DEF UniqueInv, SoundInv
  <2> QED
    BY <1>1, <2>1, <2>2, NextLife
<1> QED
  BY <1>1, InitLife, UniqueInvariance, PTL DEF Spec, ImplementsLife, Life!Spec
=============================================================================
