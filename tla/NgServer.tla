------------------------------ MODULE NgServer ------------------------------
(***************************************************************************)
(* The non-blocking server of ng_server.c: ng_GrpcParseNonBlocking,        *)
(* ng_AsyncResponse and ng_endOfCall over one handle, its calls holder and *)
(* the contexts of its methods.                                            *)
(*                                                                         *)
(* One action is one call of the function from entry to return: the C code *)
(* is called from one task and the user's callback is assumed not to call  *)
(* back into the handle.  Each early exit of ng_GrpcParseNonBlocking is an *)
(* action of its own.  The handle is set up (input, output,                *)
(* canIWriteToOutput and outputReady are not NULL): ng_AsyncResponse and   *)
(* ng_endOfCall call canIWriteToOutput without looking.                    *)
(*                                                                         *)
(* A request or response holder is modelled by the id of the call whose    *)
(* data it holds.  pb_decode, pb_encode and pb_get_encoded_size may fail   *)
(* whenever they are called.                                               *)
(***************************************************************************)
EXTENDS NgCalls

CONSTANTS
  Methods,       \* methods a request's hash or path can be resolved to
  WithCallback,  \* those with a callback
  Streaming,     \* those with server_streaming
  ContextOf,     \* method->context; NoContext also when it lacks a holder
  MethodOf,      \* ctx->method
  Statuses,      \* what the callbacks of this program return
  Malloc,        \* PB_ENABLE_MALLOC, with messages that have pointer fields
  Reusable,      \* the states of an id in which clients may request with it
                 \* again (see seen); {} when every request has a new id
  Empty,         \* a holder with nothing in it
  NoReply        \* nothing was written by the last step

CallbackStatus == {"Ok", "WillRespondLater", "WillContinueLater", "Failed"}
Phases == {"fresh", "open", "ended", "failed"}

ASSUME MethodAssumption ==
  /\ WithCallback \subseteq Methods
  /\ Streaming \subseteq Methods
  /\ ContextOf \in [Methods -> AnyContext]
  /\ MethodOf \in [Contexts -> Methods]
ASSUME ProgramAssumption ==
  /\ Statuses \subseteq CallbackStatus
  /\ Malloc \in BOOLEAN
  /\ Reusable \subseteq Phases
ASSUME HolderAssumption == Empty \notin AnyId

Holder == AnyId \cup {Empty}

Reply == [ call_id : AnyId,
           status  : {"OK", "INVALID_ARGUMENT", "NOT_FOUND", "UNIMPLEMENTED",
                      "INTERNAL", "DATA_LOSS"},
           type    : {"none", "STREAM", "END_OF_CALL"},
           data    : Holder ]

ASSUME ReplyAssumption == NoReply \notin Reply

VARIABLES
  callsHolder,  \* handle->callsHolder
  ctxCallId,    \* ctx->call_id of every context
  request,      \* what ctx->request holds: whose request, or nothing
  response,     \* what ctx->response holds
  reply,        \* the GrpcResponse the last step put on the line
  came,         \* the id of the request the last step parsed, or Empty
  target,       \* the context that step served a request with, or NoContext
  leaked,       \* the calls of whose data the last step overwrote what was
                \* allocated, so that nothing can release it any more
  seen          \* a client's view of every id but zero: not used yet,
                \* asked and not finished, finished by END_OF_CALL, or
                \* by an error status

vars == <<callsHolder, ctxCallId, request, response, reply, came, target, leaked,
          seen>>

(***************************************************************************)
(* ctx->call_id and the holders are static data of the program, the calls  *)
(* holder an array of the user's: all zero at the start.                   *)
(***************************************************************************)
Init ==
  /\ callsHolder = [i \in Slots |-> FreeCall]
  /\ ctxCallId = [c \in Contexts |-> ZeroId]
  /\ request = [c \in Contexts |-> Empty]
  /\ response = [c \in Contexts |-> Empty]
  /\ reply = NoReply
  /\ came = Empty
  /\ target = NoContext
  /\ leaked = {}
  /\ seen = [id \in Ids |-> "fresh"]

-----------------------------------------------------------------------------
(* What the operations have in common.                                     *)

\* pb_release, in a build that has it
Released(held) == IF Malloc THEN Empty ELSE held
Release(holder, c) == [holder EXCEPT ![c] = Released(@)]

\* ..._fillWithZeros writes over a holder and releases nothing: whose data is
\* allocated and no longer pointed to
Lost(holder, c) == IF Malloc THEN {holder[c]} \ {Empty} ELSE {}

\* The step is one of a request for this context, and loses this.
Takes(c, overwritten) == target' = c /\ leaked' = overwritten

\* Where a message can get to: written and flushed, refused by
\* canIWriteToOutput, or pb_encode fails half way.
Outcomes == {"sent", "not writable", "encode failed"}

Plain(id, status) ==
  [call_id |-> id, status |-> status, type |-> "none", data |-> Empty]

\* The client's view of the ids after r
Heard(view, r) ==
  [id \in Ids |-> IF id # r.call_id THEN view[id]
                  ELSE IF r.type = "END_OF_CALL" THEN "ended"
                  ELSE IF r.status # "OK" THEN "failed"
                  ELSE view[id]]

Asked(id) == [i \in Ids |-> IF i = id THEN "open" ELSE seen[i]]

\* The end of ng_GrpcParseNonBlocking, for a request with this id
Respond(id, r, outcome) ==
  /\ reply' = IF outcome = "sent" THEN r ELSE NoReply
  /\ came' = id
  /\ seen' = IF outcome = "sent" THEN Heard(Asked(id), r) ELSE Asked(id)

\* method->response_fillWithZeros(ctx->response).  What a callback leaves there
\* without preparing a response is not told from an empty one.
response_unfilled(c) == response  \* faulty: forgotten

response_fillWithZeros(c) == [response EXCEPT ![c] = Empty]

\* ng_removeCall after the last response
CallsAfter_kept(id, over) == callsHolder  \* faulty: forgotten

CallsAfter(id, over) ==
  IF over THEN ng_removeCall(callsHolder, id) ELSE callsHolder

\* pb_release of the request after the last response
RequestAfter_always(c, over) == Release(request, c)  \* faulty: after each one
RequestAfter_never(c, over) == request               \* faulty: forgotten

RequestAfter(c, over) == IF over THEN Release(request, c) ELSE request

\* A client may use call id 0 at any time (the example client always does).
MayRequest(id) == id \in Ids => seen[id] \in {"fresh"} \cup Reusable

-----------------------------------------------------------------------------
(* ng_GrpcParseNonBlocking                                                 *)

\* What is not a GrpcRequest is answered too, under id 0.
ParseUndecodable(outcome) ==
  /\ Respond(ZeroId, Plain(ZeroId, "DATA_LOSS"), outcome)
  /\ Takes(NoContext, {})
  /\ UNCHANGED <<callsHolder, ctxCallId, request, response>>

ParseNotFound(id, outcome) ==
  /\ MayRequest(id)
  /\ Respond(id, Plain(id, "NOT_FOUND"), outcome)
  /\ Takes(NoContext, {})
  /\ UNCHANGED <<callsHolder, ctxCallId, request, response>>

ParseUnimplemented(m, id, outcome) ==
  /\ MayRequest(id)
  /\ m \notin WithCallback
  /\ Respond(id, Plain(id, "UNIMPLEMENTED"), outcome)
  /\ Takes(NoContext, {})
  /\ UNCHANGED <<callsHolder, ctxCallId, request, response>>

ParseNoContext(m, id, outcome) ==
  /\ MayRequest(id)
  /\ m \in WithCallback
  /\ ContextOf[m] = NoContext
  /\ Respond(id, Plain(id, "INTERNAL"), outcome)
  /\ Takes(NoContext, {})
  /\ UNCHANGED <<callsHolder, ctxCallId, request, response>>

(***************************************************************************)
(* From here on the method has a context c.  ng_getValidContext ends the   *)
(* call c was last used for by removing the first call with its id.        *)
(***************************************************************************)
ng_getValidContext_noRemove(c) == callsHolder  \* faulty: ends nothing

ng_getValidContext(c) == ng_removeCall(callsHolder, ctxCallId[c])

CanServe(m, id) ==
  /\ MayRequest(id)
  /\ m \in WithCallback
  /\ ContextOf[m] # NoContext

Registered(c, id) == ng_registerCall(ng_getValidContext(c), c, id)

\* Every slot is taken by a call of another context: had c a call in the table,
\* removing it would have freed a slot.
ParseTableFull(m, id, outcome) ==
  LET c == ContextOf[m] IN
  /\ CanServe(m, id)
  /\ ~ CanRegister(ng_getValidContext(c))
  /\ callsHolder' = ng_getValidContext(c)
  /\ request' = Release(request, c)
  /\ response' = Release(response, c)
  /\ Takes(c, {})
  /\ Respond(id, Plain(id, "INTERNAL"), outcome)
  /\ UNCHANGED ctxCallId

\* The payload is not a request of the method: the request holder was zero-filled
\* for it, what pb_decode leaves there is nobody's data, and the response holder
\* was not touched yet.
ParseBadPayload(m, id, outcome) ==
  LET c == ContextOf[m] IN
  /\ CanServe(m, id)
  /\ CanRegister(ng_getValidContext(c))
  /\ callsHolder' = ng_removeCall(Registered(c, id), id)
  /\ request' = [request EXCEPT ![c] = Empty]
  /\ response' = Release(response, c)
  /\ Takes(c, Lost(request, c))
  /\ Respond(id, Plain(id, "INVALID_ARGUMENT"), outcome)
  /\ UNCHANGED ctxCallId

\* The callback runs, and with this status: both holders were zero-filled.
Called_noCallId(m, id, status) ==  \* faulty: ctx->call_id is not set
  /\ CanServe(m, id)
  /\ CanRegister(ng_getValidContext(ContextOf[m]))
  /\ status \in Statuses
  /\ Takes(ContextOf[m], Lost(request, ContextOf[m]) \cup Lost(response, ContextOf[m]))
  /\ UNCHANGED ctxCallId

Called(m, id, status) ==
  /\ CanServe(m, id)
  /\ CanRegister(ng_getValidContext(ContextOf[m]))
  /\ status \in Statuses
  /\ Takes(ContextOf[m], Lost(request, ContextOf[m]) \cup Lost(response, ContextOf[m]))
  /\ ctxCallId' = [ctxCallId EXCEPT ![ContextOf[m]] = id]

ParseDeferred(m, id) ==
  LET c == ContextOf[m] IN
  /\ Called(m, id, "WillRespondLater")
  /\ callsHolder' = Registered(c, id)
  /\ request' = [request EXCEPT ![c] = id]
  /\ response' = response_fillWithZeros(c)
  /\ reply' = NoReply
  /\ came' = id
  /\ seen' = Asked(id)

\* The call stays registered.
ParseFailed(m, id, outcome) ==
  LET c == ContextOf[m] IN
  /\ Called(m, id, "Failed")
  /\ callsHolder' = Registered(c, id)
  /\ request' = [request EXCEPT ![c] = Released(id)]
  /\ response' = response_fillWithZeros(c)
  /\ Respond(id, Plain(id, "INTERNAL"), outcome)

\* The callback prepared a response, and more follow if it says so and the
\* method streams; valid tells whether pb_get_encoded_size accepts it.
IsOver(m, status) == status = "Ok" \/ m \notin Streaming

ParseAnswered(m, id, status, valid, outcome) ==
  LET c    == ContextOf[m]
      over == IsOver(m, status)
  IN
  /\ status \in {"Ok", "WillContinueLater"}
  /\ Called(m, id, status)
  /\ callsHolder' = IF over THEN ng_removeCall(Registered(c, id), id)
                            ELSE Registered(c, id)
  /\ request' = [request EXCEPT ![c] = Released(id)]
  /\ response' = [response EXCEPT ![c] = Released(id)]
  /\ Respond(id,
             [Plain(id, IF valid THEN "OK" ELSE "INTERNAL") EXCEPT
                !.type = IF over THEN "END_OF_CALL" ELSE @,
                !.data = IF valid THEN id ELSE @],
             outcome)

ParseNonBlocking(m, id, outcome) ==
  \/ ParseUnimplemented(m, id, outcome)
  \/ ParseNoContext(m, id, outcome)
  \/ ParseTableFull(m, id, outcome)
  \/ ParseBadPayload(m, id, outcome)
  \/ ParseDeferred(m, id)
  \/ ParseFailed(m, id, outcome)
  \/ \E status \in CallbackStatus, valid \in BOOLEAN :
       ParseAnswered(m, id, status, valid, outcome)

-----------------------------------------------------------------------------
(* Responses after the request was parsed.                                 *)

\* The user's code fills the response holder of a context, for the call it
\* finds there and only while that call is ongoing.
Prepare(c) ==
  /\ ng_isCallOngoing(callsHolder, ctxCallId[c])
  /\ response' = [response EXCEPT ![c] = ctxCallId[c]]
  /\ reply' = NoReply
  /\ came' = Empty
  /\ Takes(NoContext, {})
  /\ UNCHANGED <<callsHolder, ctxCallId, request, seen>>

\* No such call, no room on the line, or the response does not encode:
\* ng_AsyncResponse and ng_endOfCall return false and leave all as it was.
Refuse(c) ==
  /\ reply' = NoReply
  /\ came' = Empty
  /\ Takes(NoContext, {})
  /\ UNCHANGED <<callsHolder, ctxCallId, request, response, seen>>

\* pb_encode fails on the way out: the response is gone, the call is not.
AsyncEncodeFailed_removes(c) ==  \* faulty: the call is given up
  /\ ng_isCallOngoing(callsHolder, ctxCallId[c])
  /\ callsHolder' = ng_removeCall(callsHolder, ctxCallId[c])
  /\ response' = Release(response, c)
  /\ reply' = NoReply
  /\ came' = Empty
  /\ Takes(NoContext, {})
  /\ UNCHANGED <<ctxCallId, request, seen>>

AsyncEncodeFailed(c) ==
  /\ ng_isCallOngoing(callsHolder, ctxCallId[c])
  /\ response' = Release(response, c)
  /\ reply' = NoReply
  /\ came' = Empty
  /\ Takes(NoContext, {})
  /\ UNCHANGED <<callsHolder, ctxCallId, request, seen>>

AsyncResponse(c, endOfCall) ==
  LET id   == ctxCallId[c]
      over == endOfCall \/ MethodOf[c] \notin Streaming
      r    == [Plain(id, "OK") EXCEPT
                 !.type = IF over THEN "END_OF_CALL" ELSE "STREAM",
                 !.data = response[c]]
  IN
  /\ ng_isCallOngoing(callsHolder, id)
  /\ callsHolder' = CallsAfter(id, over)
  /\ request' = RequestAfter(c, over)
  /\ response' = Release(response, c)
  /\ reply' = r
  /\ came' = Empty
  /\ Takes(NoContext, {})
  /\ seen' = Heard(seen, r)
  /\ UNCHANGED ctxCallId

endOfCall(c) ==
  LET id == ctxCallId[c]
      r  == [Plain(id, "OK") EXCEPT !.type = "END_OF_CALL"]
  IN
  /\ ng_isCallOngoing(callsHolder, id)
  /\ callsHolder' = CallsAfter(id, TRUE)
  /\ request' = RequestAfter(c, TRUE)
  /\ response' = Release(response, c)
  /\ reply' = r
  /\ came' = Empty
  /\ Takes(NoContext, {})
  /\ seen' = Heard(seen, r)
  /\ UNCHANGED ctxCallId

-----------------------------------------------------------------------------
Parse ==
  \E outcome \in Outcomes :
    \/ ParseUndecodable(outcome)
    \/ \E id \in AnyId :
         \/ ParseNotFound(id, outcome)
         \/ \E m \in Methods : ParseNonBlocking(m, id, outcome)

Follow ==
  \E c \in Contexts :
    \/ Prepare(c)
    \/ Refuse(c)
    \/ AsyncEncodeFailed(c)
    \/ \E end \in BOOLEAN : AsyncResponse(c, end)
    \/ endOfCall(c)

Next == Parse \/ Follow

Spec == Init /\ [][Next]_vars

-----------------------------------------------------------------------------
(* Properties                                                              *)

\* Every variable keeps its type.
TypeOK ==
  /\ callsHolder \in CallsHolder
  /\ ctxCallId \in [Contexts -> AnyId]
  /\ request \in [Contexts -> Holder]
  /\ response \in [Contexts -> Holder]
  /\ reply \in Reply \cup {NoReply}
  /\ came \in Holder
  /\ target \in AnyContext
  /\ leaked \subseteq AnyId
  /\ seen \in [Ids -> Phases]

Ongoing(i) == callsHolder[i].call_id # ZeroId

\* The call every context is busy with
CurrentCall ==
  [c \in Contexts |-> IF ng_isContextUsedByOngoingCall(callsHolder, c)
                      THEN ctxCallId[c] ELSE Empty]

\* The calls holder and the contexts tell the same story: the context of an
\* ongoing call records the id of that call, and no id is there twice.
\* ng_AsyncResponse, ng_endOfCall and ng_getValidContext get from a context to
\* its call by that id only.
TableSound ==
  /\ \A i \in Slots :
       Ongoing(i) => /\ callsHolder[i].context \in Contexts
                     /\ ctxCallId[callsHolder[i].context] = callsHolder[i].call_id
  /\ \A i, j \in Slots :
       Ongoing(i) /\ callsHolder[i].call_id = callsHolder[j].call_id => i = j

\* "Returns pointer to valid context which is not used by ongoing call": once
\* ng_getValidContext has removed what it removes, no ongoing call uses the
\* context, so that the new request cannot be decoded over a live one.
ValidContextIsFree ==
  \A c \in Contexts : ~ ng_isContextUsedByOngoingCall(ng_getValidContext(c), c)

\* What ng_getValidContext removes to make room for a request is a call of the
\* context it was asked for, never the ongoing call of another method.
OthersKeepTheirPlace ==
  \A c \in Contexts : \A i \in Slots :
    Ongoing(i) /\ callsHolder[i].context # c
      => ng_getValidContext(c)[i] = callsHolder[i]

\* ng_AsyncResponse and ng_endOfCall ask whether the id of the context is
\* ongoing: if it is, it is by a call of this context, not by somebody else's.
OngoingMeansThisContext ==
  \A c \in Contexts :
    ng_isCallOngoing(callsHolder, ctxCallId[c])
      => ng_isContextUsedByOngoingCall(callsHolder, c)

\* With a slot for every context the calls holder is never full when a request
\* comes: whatever was left behind, ng_getValidContext makes room.
AlwaysRoom ==
  Cardinality(Contexts) <= callsHolderSize
    => \A c \in Contexts : CanRegister(ng_getValidContext(c))

\* What a request holder still points to belongs to a call that is ongoing on
\* that context, so that answering the call releases it: no call ends with its
\* request left there.  (It says nothing of what a later request overwrites:
\* that is OnlyReplacedCallsLeak.  Call id 0 is never ongoing.)
HeldRequestIsOngoing ==
  \A c \in Contexts :
    request[c] \notin {Empty, ZeroId}
      => \E i \in Slots : callsHolder[i] = [call_id |-> request[c], context |-> c]

\* Memory is lost by one thing only, a request that takes the place of an ongoing
\* call of its context: the zero-filling overwrites what was allocated for that
\* call, which the code does leak.  Answers, failures and refusals leave nothing
\* to be overwritten, in whatever order they come.
OnlyReplacedCallsLeak ==
  [][ \A id \in leaked' \cap Ids :
        /\ target' # NoContext
        /\ CurrentCall[target'] = id
        /\ CurrentCall'[target'] # id ]_vars

\* A deferred call keeps its request as long as it is ongoing: no operation on
\* this or on another call takes it away or puts another one in its place.
DeferredKeepsRequest ==
  [][ \A i \in Slots :
        /\ Ongoing(i)
        /\ callsHolder'[i] = callsHolder[i]
        /\ request[callsHolder[i].context] = callsHolder[i].call_id
        => request'[callsHolder[i].context] = callsHolder[i].call_id ]_vars

\* A response with status OK carries what was prepared for its own call, or
\* nothing at all, never what was left in the holder by another call.  (Data is
\* told apart by call ids, so that this is about requests with new ids.)
AnswerCarriesOwnData ==
  reply # NoReply => reply.data \in {reply.call_id, Empty}

\* After END_OF_CALL nothing more is sent under that id, until a client
\* requests with it again.
EndOfCallIsLast ==
  [][ \A id \in Ids :
        seen[id] = "ended" /\ seen'[id] = "ended"
          => (reply' # NoReply => reply'.call_id # id) ]_vars

\* "Callback can respond immediately, schedule response for later time or do
\* both, but will allow for next responses only if method definition allows for
\* server streaming" (README): the context of a unary method sends nothing for
\* a call the client has a final answer to.
UnaryAnsweredOnce ==
  [][ \A c \in Contexts :
        /\ MethodOf[c] \notin Streaming
        /\ ctxCallId[c] \in Ids
        /\ seen[ctxCallId[c]] \in {"ended", "failed"}
        => \A end \in BOOLEAN : ~ AsyncResponse(c, end) ]_vars

\* What NgCallLife calls asked and line
AskedIds == {id \in Ids : seen[id] # "fresh"}
OnTheLine ==
  IF reply = NoReply THEN NoReply
  ELSE [call_id |-> reply.call_id, last |-> reply.type = "END_OF_CALL"]

\* The life of a call, as a client and the contexts see it: it is asked for
\* once, is answered by its context only and never after END_OF_CALL, and goes
\* by that or by a request for the same context, never by one for another.
Life == INSTANCE NgCallLife WITH
  Nobody <- Empty, Nowhere <- NoContext, TwoSteps <- FALSE,
  current <- CurrentCall, asked <- AskedIds, line <- OnTheLine
ImplementsLife == Life!Spec
=============================================================================
