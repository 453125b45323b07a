------------------------------- MODULE NgApp -------------------------------
(***************************************************************************)
(* An application over the non-blocking server.  It answers some calls     *)
(* from jobs of its own, after their callback returned, and callbacks may  *)
(* call ng_AsyncResponse and ng_endOfCall themselves.  The handle has one  *)
(* response structure for all of them and its lock is never taken, so that *)
(* ng_GrpcParseNonBlocking is two steps here: up to the callback, and from *)
(* its return, with any number of calls into the interface in between.     *)
(*                                                                         *)
(* Everything runs in one task: jobs run when no callback does.            *)
(***************************************************************************)
EXTENDS NgServer

CONSTANTS
  AfterNested,  \* what a callback returns that used the interface itself
  Nothing       \* no callback is running

ASSUME AfterNestedAssumption == AfterNested \subseteq Statuses

VARIABLES
  serving,  \* the method and the id of the request whose callback runs
  shared,   \* handle->response meanwhile: the id, the type and the context
            \* whose response is its data
  jobs,     \* the calls to be answered later, with their contexts
  lost      \* the ids whose final answer was lost by the line, or whose
            \* context went to a new request

appVars == <<vars, serving, shared, jobs, lost>>

Shared(id, type, from) == [call_id |-> id, type |-> type, from |-> from]

AppInit ==
  /\ Init
  /\ serving = Nothing
  /\ shared = Shared(ZeroId, "none", NoContext)
  /\ jobs = {}
  /\ lost = {}

-----------------------------------------------------------------------------
(* ng_GrpcParseNonBlocking                                                 *)

\* "When call on specific method is ongoing, when another one arrives,
\* previous will be removed" (README)
Replaced(c) ==
  {callsHolder[i].call_id :
     i \in {j \in Slots : Ongoing(j) /\ callsHolder[j].context = c}}

Unheard(id, outcome) == IF outcome = "sent" THEN {} ELSE {id}

\* What does not get to a callback is one step, as in NgServer.
Turned(id, outcome) ==
  /\ serving = Nothing
  /\ \/ /\ ParseNotFound(id, outcome)
        /\ lost' = lost \cup Unheard(id, outcome)
     \/ \E m \in Methods :
          \/ /\ ParseUnimplemented(m, id, outcome) \/ ParseNoContext(m, id, outcome)
             /\ lost' = lost \cup Unheard(id, outcome)
          \/ /\ ParseTableFull(m, id, outcome) \/ ParseBadPayload(m, id, outcome)
             /\ lost' = lost \cup Unheard(id, outcome) \cup Replaced(ContextOf[m])
  /\ UNCHANGED <<serving, shared, jobs>>

Undecodable(outcome) ==
  /\ serving = Nothing
  /\ ParseUndecodable(outcome)
  /\ UNCHANGED <<serving, shared, jobs, lost>>

Enter(m, id) ==
  LET c == ContextOf[m] IN
  /\ serving = Nothing
  /\ CanServe(m, id)
  /\ CanRegister(ng_getValidContext(c))
  /\ callsHolder' = Registered(c, id)
  /\ ctxCallId' = [ctxCallId EXCEPT ![c] = id]
  /\ request' = [request EXCEPT ![c] = id]
  /\ response' = response_fillWithZeros(c)
  /\ reply' = NoReply
  /\ came' = id
  /\ Takes(c, Lost(request, c) \cup Lost(response, c))
  /\ seen' = Asked(id)
  /\ serving' = [method |-> m, id |-> id]
  /\ shared' = Shared(id, "none", NoContext)
  /\ lost' = lost \cup Replaced(c)
  /\ UNCHANGED jobs

\* handle->response is what the function prepared before the callback.
Undisturbed == shared = Shared(serving.id, "none", NoContext)

Returns(status) ==
  /\ serving # Nothing
  /\ status \in IF Undisturbed THEN Statuses ELSE AfterNested
  /\ serving' = Nothing
  /\ shared' = Shared(ZeroId, "none", NoContext)
  /\ came' = Empty
  /\ Takes(ContextOf[serving.method], {})
  /\ UNCHANGED ctxCallId

\* The callback left its call to a job.
Deferred(id, over) ==
  IF ~ over /\ ng_isCallOngoing(callsHolder, id)
  THEN jobs \cup {<<ContextOf[serving.method], id>>} ELSE jobs

ReturnLater ==
  /\ Returns("WillRespondLater")
  /\ jobs' = Deferred(serving.id, FALSE)
  /\ reply' = NoReply
  /\ UNCHANGED <<callsHolder, request, response, seen, lost>>

\* Status and data are set after the callback; the id, and the type of a call
\* that goes on, are what handle->response has by then.
ReturnAnswer(status, valid, outcome) ==
  LET id   == serving.id
      c    == ContextOf[serving.method]
      over == IsOver(serving.method, status)
      last == status # "Failed" /\ over
      from == IF status # "Failed" /\ valid THEN c ELSE shared.from
      r    == [ call_id |-> shared.call_id,
                status  |-> IF status # "Failed" /\ valid THEN "OK" ELSE "INTERNAL",
                type    |-> IF last THEN "END_OF_CALL" ELSE shared.type,
                data    |-> IF from = NoContext THEN Empty
                            ELSE IF from = c THEN id ELSE response[from] ]
  IN
  /\ Returns(status)
  /\ status # "WillRespondLater"
  /\ callsHolder' = CallsAfter(id, last)
  /\ request' = Release(request, c)
  /\ response' = [response EXCEPT ![c] = Released(id)]
  /\ reply' = IF outcome = "sent" THEN r ELSE NoReply
  /\ seen' = IF outcome = "sent" THEN Heard(seen, r) ELSE seen
  /\ jobs' = Deferred(id, status # "WillContinueLater" \/ over)
  /\ lost' = IF status = "WillContinueLater" /\ ~ over THEN lost
             ELSE lost \cup Unheard(id, outcome)

Return ==
  \/ ReturnLater
  \/ \E status \in CallbackStatus, valid \in BOOLEAN, outcome \in Outcomes :
       ReturnAnswer(status, valid, outcome)

-----------------------------------------------------------------------------
(* Answering a call, in a job or in a callback                             *)

\* The jobs, and the call whose callback runs.  The application asks whether
\* the call is ongoing before it touches the context.
Work == jobs \cup (IF serving = Nothing THEN {}
                   ELSE {<<ContextOf[serving.method], serving.id>>})

MayAnswer(c, id) == <<c, id>> \in Work /\ ng_isCallOngoing(callsHolder, id)

Leaves(id, type, from) ==
  shared' = IF serving = Nothing THEN shared ELSE Shared(id, type, from)

Fill(c, id) ==
  /\ MayAnswer(c, id)
  /\ response[c] # id
  /\ response' = [response EXCEPT ![c] = id]
  /\ reply' = NoReply
  /\ came' = Empty
  /\ Takes(NoContext, {})
  /\ UNCHANGED <<callsHolder, ctxCallId, request, seen, serving, shared, jobs,
                 lost>>

\* The line refuses, or pb_get_encoded_size does, or pb_encode in ng_endOfCall:
\* handle->response is left alone, zeroed or filled.
Refused(c, id) ==
  /\ MayAnswer(c, id)
  /\ Refuse(c)
  /\ \/ UNCHANGED shared
     \/ response[c] = id /\ Leaves(ZeroId, "none", NoContext)
     \/ Leaves(ctxCallId[c], "END_OF_CALL", NoContext)
  /\ UNCHANGED <<serving, jobs, lost>>

TypeOf(c, end) ==
  IF end \/ MethodOf[c] \notin Streaming THEN "END_OF_CALL" ELSE "STREAM"

EncodeFailed(c, id) ==
  /\ MayAnswer(c, id)
  /\ response[c] = id
  /\ AsyncEncodeFailed(c)
  /\ \E end \in BOOLEAN : Leaves(ctxCallId[c], TypeOf(c, end), c)
  /\ UNCHANGED <<serving, jobs, lost>>

Stream(c, id) ==
  /\ MayAnswer(c, id)
  /\ response[c] = id
  /\ TypeOf(c, FALSE) = "STREAM"
  /\ AsyncResponse(c, FALSE)
  /\ Leaves(ctxCallId[c], "STREAM", c)
  /\ UNCHANGED <<serving, jobs, lost>>

Finish(c, id) ==
  /\ MayAnswer(c, id)
  /\ \/ /\ response[c] = id
        /\ AsyncResponse(c, TRUE)
        /\ Leaves(ctxCallId[c], "END_OF_CALL", c)
     \/ /\ endOfCall(c)
        /\ Leaves(ctxCallId[c], "END_OF_CALL", NoContext)
  /\ jobs' = jobs \ {<<c, id>>}
  /\ UNCHANGED <<serving, lost>>

AppNext ==
  \/ \E outcome \in Outcomes :
       \/ Undecodable(outcome)
       \/ \E id \in AnyId : Turned(id, outcome)
  \/ \E m \in Methods, id \in AnyId : Enter(m, id)
  \/ Return
  \/ \E c \in Contexts, id \in Ids :
       \/ Fill(c, id) \/ Refused(c, id) \/ EncodeFailed(c, id)
       \/ Stream(c, id) \/ Finish(c, id)

(***************************************************************************)
(* Callbacks return.  The loop of the program comes back to every job, and *)
(* not each time is the line busy or the encoding fails: a job that tries  *)
(* again and again to finish its call gets through.                        *)
(***************************************************************************)
FinishJob(c) == serving = Nothing /\ \E id \in Ids : Finish(c, id)

AppSpec ==
  /\ AppInit
  /\ [][AppNext]_appVars
  /\ WF_appVars(Return)
  /\ \A c \in Contexts : SF_appVars(FinishJob(c))

-----------------------------------------------------------------------------
(* Properties                                                              *)

\* Every variable keeps its type, and the context of the callback that runs is
\* one of the program.
AppTypeOK ==
  /\ TypeOK
  /\ serving \in [method : WithCallback, id : AnyId] \cup {Nothing}
  /\ shared \in [call_id : AnyId, type : {"none", "STREAM", "END_OF_CALL"},
                 from : AnyContext]
  /\ jobs \subseteq Contexts \X Ids
  /\ lost \subseteq AnyId

\* Every call a client waits for gets an answer that ends it, however often the
\* line refuses, unless the server itself gave it up: a request for the same
\* context took its place, or the answer of the parse function, which is not
\* tried again, did not get through.
EveryCallEnds ==
  \A id \in Ids : seen[id] = "open" ~> seen[id] # "open" \/ id \in lost

\* A job is never without its call: what it was left to answer is ongoing on
\* its context, or was replaced.
JobsAreOngoing ==
  \A job \in jobs :
    \/ job[2] \in lost
    \/ \E i \in Slots : callsHolder[i] = [call_id |-> job[2], context |-> job[1]]

\* The life of a call is the same for who answers it from a job or from within a
\* callback: only the context that is busy with it answers it, and never after
\* END_OF_CALL.  The answer the callback returns comes, or is lost, in a step
\* after the request.
LifeInTwoSteps == INSTANCE NgCallLife WITH
  Nobody <- Empty, Nowhere <- NoContext, TwoSteps <- TRUE,
  current <- CurrentCall, asked <- AskedIds, line <- OnTheLine
AppImplementsLife == LifeInTwoSteps!Spec

\* "Client needs to provide random/unique id, that will identify call" (README):
\* the parse function answers the request it was called for.
AnswersItsRequest ==
  [][ serving # Nothing /\ serving' = Nothing /\ reply' # NoReply
        => reply'.call_id = serving.id ]_appVars
=============================================================================
