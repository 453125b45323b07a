--------------------------- MODULE NgServerProofs ---------------------------
(***************************************************************************)
(* Theorems about the non-blocking server, for any number of slots, ids,   *)
(* methods and contexts, and for both builds.                              *)
(***************************************************************************)
EXTENDS NgServer, NgCallsProofs

USE SizeAssumption, IdAssumption, ContextAssumption, MethodAssumption,
    ProgramAssumption, HolderAssumption, ReplyAssumption

-----------------------------------------------------------------------------
(* Types                                                                   *)

Status == {"OK", "INVALID_ARGUMENT", "NOT_FOUND", "UNIMPLEMENTED", "INTERNAL",
           "DATA_LOSS"}

\* Every response is a GrpcResponse.
LEMMA PlainType ==
  ASSUME NEW id \in AnyId, NEW status \in Status
  PROVE  Plain(id, status) \in Reply
BY DEF Plain, Reply, Status, Holder

LEMMA HeardType ==
  ASSUME NEW view \in [Ids -> Phases], NEW r \in Reply
  PROVE  Heard(view, r) \in [Ids -> Phases]
BY DEF Heard, Phases

\* The end of ng_GrpcParseNonBlocking keeps the types.
LEMMA RespondType ==
  ASSUME seen \in [Ids -> Phases], NEW id \in AnyId, NEW r \in Reply,
         NEW outcome, Respond(id, r, outcome)
  PROVE  /\ reply' \in Reply \cup {NoReply}
         /\ came' \in Holder
         /\ seen' \in [Ids -> Phases]
<1>1. Asked(id) \in [Ids -> Phases]
  BY DEF Asked, Phases
<1>2. Heard(Asked(id), r) \in [Ids -> Phases]
  BY <1>1, HeardType
<1> QED
  BY <1>1, <1>2 DEF Respond, Holder

LEMMA ReleaseType ==
  ASSUME NEW holder \in [Contexts -> Holder], NEW c
  PROVE  Release(holder, c) \in [Contexts -> Holder]
BY DEF Release, Released, Holder

\* What a step says of the context it served and of what it lost.
LEMMA TakesType ==
  ASSUME NEW c \in AnyContext, NEW overwritten \in SUBSET AnyId, Takes(c, overwritten)
  PROVE  target' \in AnyContext /\ leaked' \subseteq AnyId
BY DEF Takes

LEMMA LostType ==
  ASSUME NEW holder \in [Contexts -> Holder], NEW c \in Contexts
  PROVE  Lost(holder, c) \in SUBSET AnyId
BY DEF Lost, Holder

\* What ng_getValidContext and ng_registerCall leave is a calls holder.
LEMMA FreedType ==
  ASSUME TypeOK, NEW c \in Contexts
  PROVE  ng_getValidContext(c) \in CallsHolder
<1>1. callsHolder \in CallsHolder /\ ctxCallId[c] \in AnyId
  BY DEF TypeOK
<1> QED
  BY <1>1, Remove DEF ng_getValidContext

LEMMA RegisteredType ==
  ASSUME TypeOK, NEW c \in Contexts, NEW id \in AnyId,
         CanRegister(ng_getValidContext(c))
  PROVE  Registered(c, id) \in CallsHolder
BY FreedType, Register DEF Registered

LEMMA ContextType ==
  ASSUME NEW m \in Methods, NEW id, CanServe(m, id)
  PROVE  ContextOf[m] \in Contexts
BY DEF CanServe, AnyContext

LEMMA InitType == Init => TypeOK
<1> SUFFICES ASSUME Init PROVE TypeOK
  OBVIOUS
<1>1. callsHolder \in CallsHolder
  BY FreeCallType DEF Init, CallsHolder
<1> QED
  BY <1>1 DEF Init, TypeOK, AnyId, AnyContext, Holder, Phases

LEMMA ParseTakesType ==
  ASSUME TypeOK, NEW m \in Methods, NEW id \in AnyId, NEW outcome \in Outcomes,
         ParseNonBlocking(m, id, outcome)
  PROVE  target' \in AnyContext /\ leaked' \subseteq AnyId
<1> DEFINE c == ContextOf[m]
<1>1. c \in AnyContext /\ NoContext \in AnyContext
  BY DEF AnyContext
<1>2. CASE ParseUnimplemented(m, id, outcome) \/ ParseNoContext(m, id, outcome)
  BY <1>1, <1>2, TakesType DEF ParseUnimplemented, ParseNoContext
<1>3. CASE ParseTableFull(m, id, outcome)
  BY <1>1, <1>3, TakesType DEF ParseTableFull
<1>4. ASSUME CanServe(m, id)
      PROVE  Lost(request, c) \in SUBSET AnyId /\ Lost(response, c) \in SUBSET AnyId
  BY <1>4, ContextType, LostType DEF TypeOK
<1>5. CASE ParseBadPayload(m, id, outcome)
  BY <1>1, <1>4, <1>5, TakesType DEF ParseBadPayload
<1>6. ASSUME NEW status, Called(m, id, status)
      PROVE  target' \in AnyContext /\ leaked' \subseteq AnyId
  <2>1. /\ Takes(c, Lost(request, c) \cup Lost(response, c))
        /\ Lost(request, c) \cup Lost(response, c) \in SUBSET AnyId
    BY <1>4, <1>6 DEF Called
  <2> HIDE DEF c
  <2> QED
    BY <1>1, <2>1, TakesType
<1> QED
  BY <1>2, <1>3, <1>5, <1>6
  DEF ParseNonBlocking, ParseDeferred, ParseFailed, ParseAnswered

LEMMA ParseType ==
  ASSUME TypeOK, NEW m \in Methods, NEW id \in AnyId, NEW outcome \in Outcomes,
         ParseNonBlocking(m, id, outcome)
  PROVE  TypeOK'
<1> DEFINE c == ContextOf[m]
<1>0. target' \in AnyContext /\ leaked' \subseteq AnyId
  BY ParseTakesType
<1> USE DEF TypeOK
<1>1. CASE ParseUnimplemented(m, id, outcome)
  <2>1. Plain(id, "UNIMPLEMENTED") \in Reply
    BY PlainType DEF Status
  <2> QED
    BY <1>0, <1>1, <2>1, RespondType DEF ParseUnimplemented
<1>2. CASE ParseNoContext(m, id, outcome)
  <2>1. Plain(id, "INTERNAL") \in Reply
    BY PlainType DEF Status
  <2> QED
    BY <1>0, <1>2, <2>1, RespondType DEF ParseNoContext
<1>3. CASE ParseTableFull(m, id, outcome)
  <2>1. Respond(id, Plain(id, "INTERNAL"), outcome)
    BY <1>3 DEF ParseTableFull
  <2>2. Plain(id, "INTERNAL") \in Reply
    BY PlainType DEF Status
  <2>3. c \in Contexts
    BY <1>3, ContextType DEF ParseTableFull
  <2> QED
    BY <1>0, <1>3, <2>1, <2>2, <2>3, RespondType, ReleaseType, FreedType
    DEF ParseTableFull
<1>4. CASE ParseBadPayload(m, id, outcome)
  <2>1. Respond(id, Plain(id, "INVALID_ARGUMENT"), outcome)
    BY <1>4 DEF ParseBadPayload
  <2>2. Plain(id, "INVALID_ARGUMENT") \in Reply
    BY PlainType DEF Status
  <2>3. c \in Contexts
    BY <1>4, ContextType DEF ParseBadPayload
  <2>4. callsHolder' \in CallsHolder
    BY <1>4, <2>3, RegisteredType, Remove DEF ParseBadPayload
  <2> QED
    BY <1>0, <1>4, <2>1, <2>2, <2>3, <2>4, RespondType, ReleaseType
    DEF ParseBadPayload, Holder
<1>5. CASE ParseDeferred(m, id)
  <2>1. c \in Contexts
    BY <1>5, ContextType DEF ParseDeferred, Called
  <2>2. callsHolder' \in CallsHolder
    BY <1>5, <2>1, RegisteredType DEF ParseDeferred, Called
  <2>3. seen' \in [Ids -> Phases]
    BY <1>5 DEF ParseDeferred, Asked, Phases
  <2> QED
    BY <1>0, <1>5, <2>1, <2>2, <2>3
    DEF ParseDeferred, Called, Holder, response_fillWithZeros
<1>6. CASE ParseFailed(m, id, outcome)
  <2>1. Respond(id, Plain(id, "INTERNAL"), outcome)
    BY <1>6 DEF ParseFailed
  <2>2. Plain(id, "INTERNAL") \in Reply
    BY PlainType DEF Status
  <2>3. c \in Contexts
    BY <1>6, ContextType DEF ParseFailed, Called
  <2>4. callsHolder' \in CallsHolder
    BY <1>6, <2>3, RegisteredType DEF ParseFailed, Called
  <2> QED
    BY <1>0, <1>6, <2>1, <2>2, <2>3, <2>4, RespondType
    DEF ParseFailed, Called, Holder, Released, response_fillWithZeros
<1>7. ASSUME NEW status \in CallbackStatus, NEW valid \in BOOLEAN,
             ParseAnswered(m, id, status, valid, outcome)
      PROVE  TypeOK'
  <2> DEFINE r == [Plain(id, IF valid THEN "OK" ELSE "INTERNAL") EXCEPT
                     !.type = IF IsOver(m, status) THEN "END_OF_CALL" ELSE @,
                     !.data = IF valid THEN id ELSE @]
  <2>1. r \in Reply
    <3>1. Plain(id, IF valid THEN "OK" ELSE "INTERNAL") \in Reply
      BY PlainType DEF Status
    <3> QED
      BY <3>1 DEF Reply, Holder
  <2>2. Respond(id, r, outcome)
    BY <1>7 DEF ParseAnswered
  <2>3. c \in Contexts
    BY <1>7, ContextType DEF ParseAnswered, Called
  <2>4. callsHolder' \in CallsHolder
    BY <1>7, <2>3, RegisteredType, Remove DEF ParseAnswered, Called
  <2> HIDE DEF r
  <2> QED
    BY <1>0, <1>7, <2>1, <2>2, <2>3, <2>4, RespondType
    DEF ParseAnswered, Called, Holder, Released
<1> QED
  BY <1>1, <1>2, <1>3, <1>4, <1>5, <1>6, <1>7 DEF ParseNonBlocking

LEMMA FollowType ==
  ASSUME TypeOK, NEW c \in Contexts,
         \/ Prepare(c)
         \/ Refuse(c)
         \/ AsyncEncodeFailed(c)
         \/ \E end \in BOOLEAN : AsyncResponse(c, end)
         \/ endOfCall(c)
  PROVE  TypeOK'
<1> DEFINE id == ctxCallId[c]
<1>0. target' \in AnyContext /\ leaked' \subseteq AnyId
  <2>1. Takes(NoContext, {})
    BY DEF Prepare, Refuse, AsyncEncodeFailed, AsyncResponse, endOfCall
  <2> QED
    BY <2>1, TakesType DEF AnyContext
<1> USE DEF TypeOK
<1>1. id \in AnyId
  OBVIOUS
<1>2. \A over \in BOOLEAN : CallsAfter(id, over) \in CallsHolder
  BY <1>1, Remove DEF CallsAfter
<1>3. \A over \in BOOLEAN : RequestAfter(c, over) \in [Contexts -> Holder]
  BY ReleaseType DEF RequestAfter
<1>4. CASE Prepare(c)
  BY <1>0, <1>4 DEF Prepare, Holder
<1>5. CASE Refuse(c)
  BY <1>0, <1>5 DEF Refuse, Holder
<1>6. CASE AsyncEncodeFailed(c)
  BY <1>0, <1>6, ReleaseType DEF AsyncEncodeFailed, Holder
<1>7. ASSUME NEW end \in BOOLEAN, AsyncResponse(c, end)
      PROVE  TypeOK'
  <2> DEFINE over == end \/ MethodOf[c] \notin Streaming
             r == [Plain(id, "OK") EXCEPT
                     !.type = IF over THEN "END_OF_CALL" ELSE "STREAM",
                     !.data = response[c]]
  <2>1. r \in Reply
    <3>1. Plain(id, "OK") \in Reply
      BY <1>1, PlainType DEF Status
    <3> QED
      BY <3>1 DEF Reply
  <2>2. over \in BOOLEAN
    OBVIOUS
  <2>3. /\ callsHolder' = CallsAfter(id, over)
        /\ request' = RequestAfter(c, over)
        /\ response' = Release(response, c)
        /\ reply' = r
        /\ came' = Empty
        /\ seen' = Heard(seen, r)
        /\ ctxCallId' = ctxCallId
    BY <1>7 DEF AsyncResponse
  <2> HIDE DEF r, over
  <2> QED
    BY <1>0, <1>2, <1>3, <2>1, <2>2, <2>3, ReleaseType, HeardType DEF Holder
<1>8. CASE endOfCall(c)
  <2> DEFINE r == [Plain(id, "OK") EXCEPT !.type = "END_OF_CALL"]
  <2>1. r \in Reply
    <3>1. Plain(id, "OK") \in Reply
      BY <1>1, PlainType DEF Status
    <3> QED
      BY <3>1 DEF Reply
  <2>2. /\ callsHolder' = CallsAfter(id, TRUE)
        /\ request' = RequestAfter(c, TRUE)
        /\ response' = Release(response, c)
        /\ reply' = r
        /\ came' = Empty
        /\ seen' = Heard(seen, r)
        /\ ctxCallId' = ctxCallId
    BY <1>8 DEF endOfCall
  <2> HIDE DEF r
  <2> QED
    BY <1>0, <1>2, <1>3, <2>1, <2>2, ReleaseType, HeardType DEF Holder
<1> QED
  BY <1>4, <1>5, <1>6, <1>7, <1>8

LEMMA NextType == TypeOK /\ [Next]_vars => TypeOK'
<1> SUFFICES ASSUME TypeOK, [Next]_vars
             PROVE  TypeOK'
  OBVIOUS
<1>1. CASE UNCHANGED vars
  BY <1>1 DEF vars, TypeOK
<1>2. ASSUME NEW outcome \in Outcomes, ParseUndecodable(outcome)
      PROVE  TypeOK'
  <2>1. ZeroId \in AnyId
    BY DEF AnyId
  <2>2. Plain(ZeroId, "DATA_LOSS") \in Reply
    BY <2>1, PlainType DEF Status
  <2> QED
    BY <1>2, <2>1, <2>2, RespondType, TakesType
    DEF ParseUndecodable, TypeOK, AnyContext
<1>3. ASSUME NEW outcome \in Outcomes, NEW id \in AnyId,
             ParseNotFound(id, outcome)
      PROVE  TypeOK'
  <2>1. Plain(id, "NOT_FOUND") \in Reply
    BY PlainType DEF Status
  <2> QED
    BY <1>3, <2>1, RespondType, TakesType DEF ParseNotFound, TypeOK, AnyContext
<1>4. CASE Parse
  BY <1>2, <1>3, <1>4, ParseType DEF Parse
<1>5. CASE Follow
  BY <1>5, FollowType DEF Follow
<1> QED
  BY <1>1, <1>4, <1>5 DEF Next

\* Every variable keeps its type, whatever the clients and the callbacks do.
THEOREM Typing == Spec => []TypeOK
BY InitType, NextType, PTL DEF Spec

-----------------------------------------------------------------------------
(***************************************************************************)
(* The calls holder and the contexts agree, as long as a client requests   *)
(* with an id again only after it has seen END_OF_CALL for it.  TableSound *)
(* is not inductive: a new request must not find its id in the table.      *)
(***************************************************************************)

\* An ongoing call is one the client was not told the end of.
OngoingIsOpen ==
  \A i \in Slots :
    Ongoing(i) => /\ callsHolder[i].call_id \in Ids
                  /\ seen[callsHolder[i].call_id] \in {"open", "failed"}

SoundInv == TypeOK /\ TableSound /\ OngoingIsOpen

LEMMA SoundIsDistinct == TableSound => Distinct(callsHolder)
BY DEF TableSound, Distinct, Ongoing

\* A request's id is not in the calls holder.
LEMMA RequestIsNew ==
  ASSUME SoundInv, Reusable \subseteq {"ended"}, NEW id \in AnyId,
         MayRequest(id)
  PROVE  \A i \in Slots : Ongoing(i) => callsHolder[i].call_id # id
BY DEF SoundInv, OngoingIsOpen, MayRequest, Ongoing

\* After ng_getValidContext, what is ongoing was so before, on other contexts.
LEMMA FreedSound ==
  ASSUME SoundInv, NEW c \in Contexts
  PROVE  /\ ng_getValidContext(c) \in CallsHolder
         /\ \A i \in Slots :
              ng_getValidContext(c)[i].call_id # ZeroId
                => /\ ng_getValidContext(c)[i] = callsHolder[i]
                   /\ callsHolder[i].context # c
<1>1. callsHolder \in CallsHolder /\ ctxCallId[c] \in AnyId
  BY DEF SoundInv, TypeOK
<1>2. \A i \in Slots :
        ng_getValidContext(c)[i]
          = IF ctxCallId[c] # ZeroId /\ callsHolder[i].call_id = ctxCallId[c]
            THEN FreeCall ELSE callsHolder[i]
  BY <1>1, SoundIsDistinct, RemoveDistinct DEF SoundInv, ng_getValidContext
<1>3. ng_getValidContext(c) \in CallsHolder
  BY FreedType DEF SoundInv
<1> QED
  BY <1>2, <1>3 DEF SoundInv, TableSound, Ongoing, FreeCall

\* After ng_registerCall there is the new call besides.
LEMMA RegisteredSound ==
  ASSUME SoundInv, NEW c \in Contexts, NEW id \in AnyId,
         CanRegister(ng_getValidContext(c))
  PROVE  /\ Registered(c, id) \in CallsHolder
         /\ \E k \in Slots :
              /\ Registered(c, id)[k] = [call_id |-> id, context |-> c]
              /\ \A i \in Slots \ {k} :
                   Registered(c, id)[i].call_id # ZeroId
                     => /\ Registered(c, id)[i] = callsHolder[i]
                        /\ callsHolder[i].context # c
<1> DEFINE t == ng_getValidContext(c)
<1>1. /\ t \in CallsHolder
      /\ \A i \in Slots : t[i].call_id # ZeroId
                            => t[i] = callsHolder[i] /\ callsHolder[i].context # c
  BY FreedSound
<1>2. Registered(c, id) = ng_registerCall(t, c, id)
  BY DEF Registered
<1> HIDE DEF t
<1>3. CanRegister(t)
  BY DEF t
<1>4. PICK k \in Slots :
        /\ t[k].call_id = ZeroId
        /\ Registered(c, id) = [t EXCEPT ![k] = [call_id |-> id, context |-> c]]
        /\ Registered(c, id) \in CallsHolder
  BY <1>1, <1>2, <1>3, Register
<1>5. Registered(c, id)[k] = [call_id |-> id, context |-> c]
  BY <1>1, <1>4 DEF CallsHolder
<1>6. \A i \in Slots \ {k} : Registered(c, id)[i] = t[i]
  BY <1>1, <1>4 DEF CallsHolder
<1> QED
  BY <1>1, <1>4, <1>5, <1>6

\* And after the ng_removeCall that ends it, the new call is gone again.
LEMMA RemovedSound ==
  ASSUME SoundInv, NEW c \in Contexts, NEW id \in AnyId,
         CanRegister(ng_getValidContext(c)),
         \A i \in Slots : Ongoing(i) => callsHolder[i].call_id # id
  PROVE  \A i \in Slots :
           ng_removeCall(Registered(c, id), id)[i].call_id # ZeroId
             => /\ ng_removeCall(Registered(c, id), id)[i] = callsHolder[i]
                /\ callsHolder[i].context # c
<1> DEFINE t == Registered(c, id)
<1>1. t \in CallsHolder
  BY RegisteredSound
<1>2. PICK k \in Slots :
        /\ t[k] = [call_id |-> id, context |-> c]
        /\ \A i \in Slots \ {k} :
             t[i].call_id # ZeroId => t[i] = callsHolder[i] /\ callsHolder[i].context # c
  BY RegisteredSound
<1> HIDE DEF t
<1>3. Distinct(t)
  BY <1>2, SoundIsDistinct DEF Distinct, SoundInv, Ongoing
<1>4. \A i \in Slots : ng_removeCall(t, id)[i]
                         = IF id # ZeroId /\ t[i].call_id = id THEN FreeCall ELSE t[i]
  BY <1>1, <1>3, RemoveDistinct
<1>5. \A i \in Slots : ng_removeCall(t, id)[i].call_id # ZeroId
                         => /\ ng_removeCall(t, id)[i] = callsHolder[i]
                            /\ callsHolder[i].context # c
  BY <1>2, <1>4 DEF FreeCall
<1> QED
  BY <1>5 DEF t

(***************************************************************************)
(* Every step works on one context and one id: what is ongoing after it is *)
(* a call that was, on another context if the step moves this one on, or   *)
(* the one call with that id.  That is enough.                             *)
(***************************************************************************)
LEMMA StepSound ==
  ASSUME SoundInv, TypeOK', NEW c \in Contexts, NEW id \in AnyId,
         \/ ctxCallId' = ctxCallId
         \/ ctxCallId' = [ctxCallId EXCEPT ![c] = id],
         \A j \in Ids \ {id} : seen'[j] = seen[j],
         \A i \in Slots :
           Ongoing(i)' /\ callsHolder'[i].call_id # id
             => /\ callsHolder'[i] = callsHolder[i]
                /\ ctxCallId' = ctxCallId \/ callsHolder[i].context # c,
         \A i \in Slots :
           Ongoing(i)' /\ callsHolder'[i].call_id = id
             => /\ callsHolder'[i].context \in Contexts
                /\ ctxCallId'[callsHolder'[i].context] = id
                /\ seen'[id] \in {"open", "failed"},
         \A i, j \in Slots :
           /\ Ongoing(i)'
           /\ callsHolder'[i].call_id = id
           /\ callsHolder'[j].call_id = id
           => i = j
  PROVE  SoundInv'
<1>1. OngoingIsOpen'
  BY DEF SoundInv, OngoingIsOpen, Ongoing, TypeOK, AnyId
<1>2. TableSound'
  <2>1. ASSUME NEW i \in Slots, Ongoing(i)'
        PROVE  /\ callsHolder'[i].context \in Contexts
               /\ ctxCallId'[callsHolder'[i].context] = callsHolder'[i].call_id
    BY <2>1 DEF SoundInv, TableSound, Ongoing, TypeOK
  <2>2. ASSUME NEW i \in Slots, NEW j \in Slots, Ongoing(i)',
               callsHolder'[i].call_id = callsHolder'[j].call_id
        PROVE  i = j
    BY <2>2 DEF SoundInv, TableSound, Ongoing
  <2> QED
    BY <2>1, <2>2 DEF TableSound, Ongoing
<1> QED
  BY <1>1, <1>2 DEF SoundInv

\* The end of ng_GrpcParseNonBlocking tells the client of this id only, and
\* that the call has ended only if the response says so.
LEMMA RespondSeen ==
  ASSUME NEW id \in AnyId, NEW r, NEW outcome,
         r.call_id = id, Respond(id, r, outcome)
  PROVE  /\ \A j \in Ids \ {id} : seen'[j] = seen[j]
         /\ id \in Ids /\ r.type # "END_OF_CALL" => seen'[id] \in {"open", "failed"}
BY DEF Respond, Heard, Asked

\* A request that leaves the calls holder alone.
LEMMA UntouchedSound ==
  ASSUME SoundInv, TypeOK', Reusable \subseteq {"ended"}, NEW id \in AnyId,
         MayRequest(id), UNCHANGED <<callsHolder, ctxCallId>>,
         \A j \in Ids \ {id} : seen'[j] = seen[j]
  PROVE  SoundInv'
<1>1. \A i \in Slots : Ongoing(i) => callsHolder[i].call_id # id
  BY RequestIsNew
<1> QED
  BY <1>1 DEF SoundInv, TableSound, OngoingIsOpen, Ongoing

\* A request that ends the call its context was used for, and is over.
LEMMA ClearedSound ==
  ASSUME SoundInv, TypeOK', NEW c \in Contexts, NEW id \in AnyId,
         \/ ctxCallId' = ctxCallId
         \/ ctxCallId' = [ctxCallId EXCEPT ![c] = id],
         \A j \in Ids \ {id} : seen'[j] = seen[j],
         \A i \in Slots : Ongoing(i) => callsHolder[i].call_id # id,
         \A i \in Slots : Ongoing(i)' => /\ callsHolder'[i] = callsHolder[i]
                                         /\ callsHolder[i].context # c
  PROVE  SoundInv'
BY StepSound DEF Ongoing

\* A request that stays registered.
LEMMA KeptSound ==
  ASSUME SoundInv, TypeOK', NEW c \in Contexts, NEW id \in AnyId,
         CanRegister(ng_getValidContext(c)),
         callsHolder' = Registered(c, id),
         ctxCallId' = [ctxCallId EXCEPT ![c] = id],
         \A j \in Ids \ {id} : seen'[j] = seen[j],
         id \in Ids => seen'[id] \in {"open", "failed"},
         \A i \in Slots : Ongoing(i) => callsHolder[i].call_id # id
  PROVE  SoundInv'
<1>1. PICK k \in Slots :
        /\ callsHolder'[k] = [call_id |-> id, context |-> c]
        /\ \A i \in Slots \ {k} :
             callsHolder'[i].call_id # ZeroId
               => callsHolder'[i] = callsHolder[i] /\ callsHolder[i].context # c
  BY RegisteredSound
<1>2. ctxCallId'[c] = id
  BY DEF SoundInv, TypeOK
<1>3. \A i \in Slots :
        Ongoing(i)' /\ callsHolder'[i].call_id # id
          => callsHolder'[i] = callsHolder[i] /\ callsHolder[i].context # c
  BY <1>1 DEF Ongoing
<1>4. \A i \in Slots : Ongoing(i)' /\ callsHolder'[i].call_id = id => i = k
  BY <1>1 DEF Ongoing
<1>5. \A i \in Slots :
        Ongoing(i)' /\ callsHolder'[i].call_id = id
          => /\ callsHolder'[i].context \in Contexts
             /\ ctxCallId'[callsHolder'[i].context] = id
             /\ seen'[id] \in {"open", "failed"}
  BY <1>1, <1>2, <1>4 DEF Ongoing, AnyId
<1>6. \A i, j \in Slots :
        /\ Ongoing(i)'
        /\ callsHolder'[i].call_id = id
        /\ callsHolder'[j].call_id = id
        => i = j
  BY <1>4 DEF Ongoing
<1>7. \A i \in Slots :
        Ongoing(i)' /\ callsHolder'[i].call_id # id
          => /\ callsHolder'[i] = callsHolder[i]
             /\ ctxCallId' = ctxCallId \/ callsHolder[i].context # c
  BY <1>3
<1>8. ctxCallId' = ctxCallId \/ ctxCallId' = [ctxCallId EXCEPT ![c] = id]
  OBVIOUS
<1> QED
  BY <1>5, <1>6, <1>7, <1>8, StepSound

LEMMA ParseSound ==
  ASSUME SoundInv, TypeOK', Reusable \subseteq {"ended"}, NEW m \in Methods,
         NEW id \in AnyId, NEW outcome \in Outcomes,
         ParseNonBlocking(m, id, outcome)
  PROVE  SoundInv'
<1> DEFINE c == ContextOf[m]
<1>1. CASE ParseUnimplemented(m, id, outcome)
  <2>1. \A j \in Ids \ {id} : seen'[j] = seen[j]
    BY <1>1, RespondSeen DEF ParseUnimplemented, Plain
  <2> QED
    BY <1>1, <2>1, UntouchedSound DEF ParseUnimplemented
<1>2. CASE ParseNoContext(m, id, outcome)
  <2>1. \A j \in Ids \ {id} : seen'[j] = seen[j]
    BY <1>2, RespondSeen DEF ParseNoContext, Plain
  <2> QED
    BY <1>2, <2>1, UntouchedSound DEF ParseNoContext
<1>3. CASE ParseTableFull(m, id, outcome)
  <2>1. c \in Contexts /\ MayRequest(id)
    BY <1>3, ContextType DEF ParseTableFull, CanServe
  <2>2. \A j \in Ids \ {id} : seen'[j] = seen[j]
    BY <1>3, RespondSeen DEF ParseTableFull, Plain
  <2>3. callsHolder' = ng_getValidContext(c) /\ ctxCallId' = ctxCallId
    BY <1>3 DEF ParseTableFull
  <2> HIDE DEF c
  <2> QED
    BY <2>1, <2>2, <2>3, FreedSound, RequestIsNew, ClearedSound DEF Ongoing
<1>4. CASE ParseBadPayload(m, id, outcome)
  <2>1. c \in Contexts /\ MayRequest(id) /\ CanRegister(ng_getValidContext(c))
    BY <1>4, ContextType DEF ParseBadPayload, CanServe
  <2>2. \A j \in Ids \ {id} : seen'[j] = seen[j]
    BY <1>4, RespondSeen DEF ParseBadPayload, Plain
  <2>3. /\ callsHolder' = ng_removeCall(Registered(c, id), id)
        /\ ctxCallId' = ctxCallId
    BY <1>4 DEF ParseBadPayload
  <2> HIDE DEF c
  <2> QED
    BY <2>1, <2>2, <2>3, RemovedSound, RequestIsNew, ClearedSound DEF Ongoing
<1>5. CASE ParseDeferred(m, id)
  <2>1. c \in Contexts /\ MayRequest(id) /\ CanRegister(ng_getValidContext(c))
    BY <1>5, ContextType DEF ParseDeferred, Called, CanServe
  <2>2. /\ callsHolder' = Registered(c, id)
        /\ ctxCallId' = [ctxCallId EXCEPT ![c] = id]
        /\ seen' = Asked(id)
    BY <1>5 DEF ParseDeferred, Called
  <2>3. /\ \A j \in Ids \ {id} : seen'[j] = seen[j]
        /\ id \in Ids => seen'[id] \in {"open", "failed"}
    BY <2>2 DEF Asked
  <2> HIDE DEF c
  <2> QED
    BY <2>1, <2>2, <2>3, RequestIsNew, KeptSound
<1>6. CASE ParseFailed(m, id, outcome)
  <2>1. c \in Contexts /\ MayRequest(id) /\ CanRegister(ng_getValidContext(c))
    BY <1>6, ContextType DEF ParseFailed, Called, CanServe
  <2>2. /\ callsHolder' = Registered(c, id)
        /\ ctxCallId' = [ctxCallId EXCEPT ![c] = id]
    BY <1>6 DEF ParseFailed, Called
  <2>3. /\ \A j \in Ids \ {id} : seen'[j] = seen[j]
        /\ id \in Ids => seen'[id] \in {"open", "failed"}
    BY <1>6, RespondSeen DEF ParseFailed, Plain
  <2> HIDE DEF c
  <2> QED
    BY <2>1, <2>2, <2>3, RequestIsNew, KeptSound
<1>7. ASSUME NEW status \in CallbackStatus, NEW valid \in BOOLEAN,
             ParseAnswered(m, id, status, valid, outcome)
      PROVE  SoundInv'
  <2> DEFINE over == IsOver(m, status)
             r == [Plain(id, IF valid THEN "OK" ELSE "INTERNAL") EXCEPT
                     !.type = IF over THEN "END_OF_CALL" ELSE @,
                     !.data = IF valid THEN id ELSE @]
  <2>1. c \in Contexts /\ MayRequest(id) /\ CanRegister(ng_getValidContext(c))
    BY <1>7, ContextType DEF ParseAnswered, Called, CanServe
  <2>2. ctxCallId' = [ctxCallId EXCEPT ![c] = id]
    BY <1>7 DEF ParseAnswered, Called
  <2>3. Respond(id, r, outcome)
    BY <1>7 DEF ParseAnswered
  <2>4. r.call_id = id /\ (~ over => r.type = "none")
    BY DEF Plain
  <2>5. /\ over => callsHolder' = ng_removeCall(Registered(c, id), id)
        /\ ~ over => callsHolder' = Registered(c, id)
    BY <1>7 DEF ParseAnswered
  <2> HIDE DEF c, r, over
  <2>6. /\ \A j \in Ids \ {id} : seen'[j] = seen[j]
        /\ id \in Ids /\ ~ over => seen'[id] \in {"open", "failed"}
    BY <2>3, <2>4, RespondSeen
  <2>7. CASE over
    <3>1. \A i \in Slots : Ongoing(i) => callsHolder[i].call_id # id
      BY <2>1, RequestIsNew
    <3>2. \A i \in Slots : Ongoing(i)' => /\ callsHolder'[i] = callsHolder[i]
                                          /\ callsHolder[i].context # c
      BY <2>1, <2>5, <2>7, <3>1, RemovedSound DEF Ongoing
    <3> QED
      BY <2>1, <2>2, <2>6, <3>1, <3>2, ClearedSound
  <2>8. CASE ~ over
    BY <2>1, <2>2, <2>5, <2>6, <2>8, RequestIsNew, KeptSound
  <2> QED
    BY <2>7, <2>8
<1> QED
  BY <1>1, <1>2, <1>3, <1>4, <1>5, <1>6, <1>7 DEF ParseNonBlocking

LEMMA FollowSound ==
  ASSUME SoundInv, TypeOK', NEW c \in Contexts,
         \/ Prepare(c)
         \/ Refuse(c)
         \/ AsyncEncodeFailed(c)
         \/ \E end \in BOOLEAN : AsyncResponse(c, end)
         \/ endOfCall(c)
  PROVE  SoundInv'
<1> DEFINE id == ctxCallId[c]
<1>1. id \in AnyId /\ callsHolder \in CallsHolder
  BY DEF SoundInv, TypeOK
<1>2. CASE UNCHANGED <<callsHolder, ctxCallId, seen>>
  BY <1>2 DEF SoundInv, TableSound, OngoingIsOpen, Ongoing
<1>3. ASSUME callsHolder' = ng_removeCall(callsHolder, id),
             UNCHANGED ctxCallId,
             \A j \in Ids \ {id} : seen'[j] = seen[j]
      PROVE  SoundInv'
  <2>1. \A i \in Slots : callsHolder'[i] = IF id # ZeroId /\ callsHolder[i].call_id = id
                                           THEN FreeCall ELSE callsHolder[i]
    BY <1>1, <1>3, SoundIsDistinct, RemoveDistinct DEF SoundInv
  <2> QED
    BY <1>1, <1>3, <2>1, StepSound DEF Ongoing, FreeCall
<1>4. ASSUME NEW end \in BOOLEAN, AsyncResponse(c, end)
      PROVE  SoundInv'
  <2> DEFINE over == end \/ MethodOf[c] \notin Streaming
             r == [Plain(id, "OK") EXCEPT
                     !.type = IF over THEN "END_OF_CALL" ELSE "STREAM",
                     !.data = response[c]]
  <2>1. /\ callsHolder' = CallsAfter(id, over)
        /\ seen' = Heard(seen, r)
        /\ ctxCallId' = ctxCallId
    BY <1>4 DEF AsyncResponse
  <2>2. r.call_id = id /\ r.status = "OK" /\ (~ over => r.type = "STREAM")
    BY DEF Plain
  <2>3. \A j \in Ids \ {id} : seen'[j] = seen[j]
    BY <2>1, <2>2 DEF Heard
  <2>4. CASE over
    BY <1>3, <2>1, <2>3, <2>4 DEF CallsAfter
  <2>5. CASE ~ over
    <3>1. seen' = seen
      <4> seen \in [Ids -> Phases]
        BY DEF SoundInv, TypeOK
      <4> HIDE DEF r
      <4> QED
        BY <2>1, <2>2, <2>5 DEF Heard
    <3>2. callsHolder' = callsHolder
      BY <2>1, <2>5 DEF CallsAfter
    <3> QED
      BY <1>2, <2>1, <3>1, <3>2
  <2> QED
    BY <2>4, <2>5
<1>5. CASE endOfCall(c)
  <2> DEFINE r == [Plain(id, "OK") EXCEPT !.type = "END_OF_CALL"]
  <2>1. /\ callsHolder' = CallsAfter(id, TRUE)
        /\ seen' = Heard(seen, r)
        /\ ctxCallId' = ctxCallId
    BY <1>5 DEF endOfCall
  <2>2. r.call_id = id
    BY DEF Plain
  <2>3. \A j \in Ids \ {id} : seen'[j] = seen[j]
    BY <2>1, <2>2 DEF Heard
  <2> QED
    BY <1>3, <2>1, <2>3 DEF CallsAfter
<1> QED
  BY <1>2, <1>4, <1>5 DEF Prepare, Refuse, AsyncEncodeFailed

LEMMA InitSound == Init => SoundInv
BY InitType DEF Init, SoundInv, TableSound, OngoingIsOpen, Ongoing, FreeCall

LEMMA NextSound ==
  ASSUME Reusable \subseteq {"ended"}, SoundInv, [Next]_vars
  PROVE  SoundInv'
<1>1. TypeOK'
  BY NextType DEF SoundInv
<1>2. CASE UNCHANGED vars
  BY <1>2 DEF vars, SoundInv, TypeOK, TableSound, OngoingIsOpen, Ongoing
<1>3. ASSUME NEW outcome \in Outcomes, ParseUndecodable(outcome)
      PROVE  SoundInv'
  <2>1. ZeroId \in AnyId /\ MayRequest(ZeroId)
    BY DEF AnyId, MayRequest
  <2>2. \A j \in Ids \ {ZeroId} : seen'[j] = seen[j]
    BY <1>3, <2>1, RespondSeen DEF ParseUndecodable, Plain
  <2> QED
    BY <1>1, <1>3, <2>1, <2>2, UntouchedSound DEF ParseUndecodable
<1>4. ASSUME NEW outcome \in Outcomes, NEW id \in AnyId,
             ParseNotFound(id, outcome)
      PROVE  SoundInv'
  <2>1. \A j \in Ids \ {id} : seen'[j] = seen[j]
    BY <1>4, RespondSeen DEF ParseNotFound, Plain
  <2> QED
    BY <1>1, <1>4, <2>1, UntouchedSound DEF ParseNotFound
<1>5. CASE Parse
  BY <1>1, <1>3, <1>4, <1>5, ParseSound DEF Parse
<1>6. CASE Follow
  BY <1>1, <1>6, FollowSound DEF Follow
<1> QED
  BY <1>2, <1>5, <1>6 DEF Next

LEMMA SoundInvariance ==
  ASSUME Reusable \subseteq {"ended"}
  PROVE  Spec => []SoundInv
BY InitSound, NextSound, PTL DEF Spec

\* When ids are used again only after END_OF_CALL, the calls holder and the
\* contexts tell the same story at any time, with any number of slots.
THEOREM Soundness ==
  ASSUME Reusable \subseteq {"ended"}
  PROVE  Spec => []TableSound
BY SoundInvariance, PTL DEF SoundInv

LEMMA SoundIsVacated == SoundInv => ValidContextIsFree
BY FreedSound DEF ValidContextIsFree, ng_isContextUsedByOngoingCall

\* And ng_getValidContext returns a context no ongoing call uses.
THEOREM ContextVacated ==
  ASSUME Reusable \subseteq {"ended"}
  PROVE  Spec => []ValidContextIsFree
BY SoundIsVacated, SoundInvariance, PTL
=============================================================================
