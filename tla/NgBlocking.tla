----------------------------- MODULE NgBlocking -----------------------------
(***************************************************************************)
(* ng_GrpcParseBlocking, one step of the function at a time, with what it  *)
(* allocates (PB_ENABLE_MALLOC) and what it writes.                        *)
(*                                                                         *)
(* A response may have fields that are encoded by a callback of the        *)
(* program, as in the example server, whose callback reads a directory:    *)
(* listing is the length of what it finds there.  It can change at any     *)
(* time, while nanopb runs the callback three times for one response: for  *)
(* pb_get_encoded_size, for the length in front of the submessage, and to  *)
(* write it.                                                               *)
(***************************************************************************)
EXTENDS Naturals

CONSTANTS
  Methods,      \* methods a request can be resolved to
  Servable,     \* those with a callback, a context and both holders
  WithCleanup,  \* those with a cleanup callback
  Null,
  MaxLength     \* bound on the length of what the callback reads

ASSUME MethodAssumption ==
  /\ Servable \subseteq Methods
  /\ WithCleanup \subseteq Methods
  /\ Null \notin Methods
ASSUME LengthAssumption == MaxLength \in Nat

CallbackStatus == {"Ok", "WillRespondLater", "WillContinueLater", "Failed"}
Lengths == 0 .. MaxLength

VARIABLES
  pc,        \* the next step of the function, or "idle"
  method,    \* the method found
  status,    \* handle->response.grpc_status
  hasData,   \* does handle->response have its data callback?
  held,      \* what was allocated and not released
  line,      \* what was written for this request
  declared,  \* the length written in front of the data
  passes,    \* how often the data was encoded for this response
  cleaned,   \* was the cleanup callback called?
  ret,       \* the value to return
  listing    \* the length of what the callback of the response reads

server == <<method, status, hasData, held, line, declared, passes, cleaned, ret>>
vars == <<pc, server, listing>>

Init ==
  /\ pc = "idle"
  /\ method = Null
  /\ status = "OK"
  /\ hasData = FALSE
  /\ held = {}
  /\ line = "nothing"
  /\ declared = 0
  /\ passes = 0
  /\ cleaned = FALSE
  /\ ret = TRUE
  /\ listing \in Lengths

-----------------------------------------------------------------------------
Goto(l) == pc' = l /\ UNCHANGED listing

\* Fill handle->response with an error and encode it.
Fail(s) ==
  /\ status' = s
  /\ Goto("encode")
  /\ UNCHANGED <<method, hasData, line, declared, passes, cleaned, ret>>

\* The function is called: request and response of the handle are zeroed.
Call ==
  /\ pc = "idle"
  /\ method' = Null
  /\ status' = "OK"
  /\ hasData' = FALSE
  /\ line' = "nothing"
  /\ declared' = 0
  /\ passes' = 0
  /\ cleaned' = FALSE
  /\ ret' = TRUE
  /\ Goto("decode")
  /\ UNCHANGED held

\* pb_decode of the GrpcRequest; it releases what it allocated if it fails.
Undecodable == pc = "decode" /\ Fail("DATA_LOSS") /\ UNCHANGED held

Decode ==
  /\ pc = "decode"
  /\ held' = held \cup {"request"}
  /\ Goto("find")
  /\ UNCHANGED <<method, status, hasData, line, declared, passes, cleaned, ret>>

NotFound_silent ==  \* faulty: no response is written
  /\ pc = "find"
  /\ status' = "NOT_FOUND"
  /\ Goto("cleanup")
  /\ UNCHANGED <<method, hasData, held, line, declared, passes, cleaned, ret>>

NotFound == pc = "find" /\ Fail("NOT_FOUND") /\ UNCHANGED held

\* By hash or by path
Find(m) ==
  /\ pc = "find"
  /\ method' = m
  /\ Goto("payload")
  /\ UNCHANGED <<status, hasData, held, line, declared, passes, cleaned, ret>>

Unimplemented ==
  pc = "payload" /\ method \notin Servable /\ Fail("UNIMPLEMENTED") /\ UNCHANGED held

BadPayload ==
  pc = "payload" /\ method \in Servable /\ Fail("INVALID_ARGUMENT") /\ UNCHANGED held

DecodePayload ==
  /\ pc = "payload"
  /\ method \in Servable
  /\ held' = held \cup {"ctx.request"}
  /\ Goto("callback")
  /\ UNCHANGED <<method, status, hasData, line, declared, passes, cleaned, ret>>

\* There is no later in blocking mode: any status but Ok is an error.  The
\* callback may have allocated parts of a response all the same.
CallbackNotOk(s) ==
  /\ pc = "callback"
  /\ s # "Ok"
  /\ held' \in {held, held \cup {"ctx.response"}}
  /\ Fail("INTERNAL")

CallbackOk ==
  /\ pc = "callback"
  /\ held' \in {held, held \cup {"ctx.response"}}
  /\ Goto("size")
  /\ UNCHANGED <<method, status, hasData, line, declared, passes, cleaned, ret>>

Size_retries(valid) ==  \* faulty: it tries until it fits
  /\ pc = "size"
  /\ passes' = passes + 1
  /\ hasData' = valid
  /\ Goto(IF valid THEN "encode" ELSE "size")
  /\ UNCHANGED <<method, status, held, line, declared, cleaned, ret>>

\* pb_get_encoded_size looks whether the response can be encoded at all.
Size(valid) ==
  /\ pc = "size"
  /\ passes' = passes + 1
  /\ status' = IF valid THEN "OK" ELSE "INTERNAL"
  /\ hasData' = valid
  /\ Goto("encode")
  /\ UNCHANGED <<method, held, line, declared, cleaned, ret>>

Broken_ignored(why) ==  \* faulty: the caller is not told
  /\ line' = why
  /\ Goto("cleanup")
  /\ UNCHANGED <<method, status, hasData, held, declared, cleaned, ret>>

\* pb_encode of the GrpcResponse fails, of itself or on a line that is not
\* buffered: what was written stays there.
Broken(why) ==
  /\ line' = why
  /\ ret' = FALSE
  /\ Goto("cleanup")
  /\ UNCHANGED <<method, status, hasData, held, declared, cleaned>>

EncodeFails == pc = "encode" /\ Broken("cut by the line") /\ UNCHANGED passes

EncodeHead ==
  /\ pc = "encode"
  /\ IF hasData
     THEN declared' = listing /\ passes' = passes + 1 /\ Goto("data")
          /\ UNCHANGED line
     ELSE line' = "whole" /\ Goto("cleanup") /\ UNCHANGED <<declared, passes>>
  /\ UNCHANGED <<method, status, hasData, held, cleaned, ret>>

\* pb_encode_submessage compares what it writes with the length it declared.
EncodeData ==
  /\ pc = "data"
  /\ listing = declared
  /\ line' = "whole"
  /\ passes' = passes + 1
  /\ Goto("cleanup")
  /\ UNCHANGED <<method, status, hasData, held, declared, cleaned, ret>>

EncodeDataFails ==
  /\ pc = "data"
  /\ \/ Broken("cut by the line")
     \/ listing # declared /\ Broken("cut by the data")
  /\ passes' = passes + 1

Cleanup_early ==  \* faulty: it may come before the response is encoded
  /\ pc \in {"encode", "cleanup"}
  /\ cleaned' = IF method \in WithCleanup THEN TRUE ELSE cleaned
  /\ Goto(IF pc = "encode" /\ ~ cleaned THEN "encode" ELSE "release")
  /\ UNCHANGED <<method, status, hasData, held, line, declared, passes, ret>>

Cleanup ==
  /\ pc = "cleanup"
  /\ cleaned' = IF method \in WithCleanup THEN TRUE ELSE cleaned
  /\ Goto("release")
  /\ UNCHANGED <<method, status, hasData, held, line, declared, passes, ret>>

Release_success ==  \* faulty: the context is released after an answer only
  /\ pc = "release"
  /\ held' = IF method \in Servable /\ ret THEN {} ELSE held \ {"request"}
  /\ Goto("idle")
  /\ UNCHANGED <<method, status, hasData, line, declared, passes, cleaned, ret>>

\* pb_release of the context's holders if one was found, and of the handle's
Release ==
  /\ pc = "release"
  /\ held' = IF method \in Servable THEN {} ELSE held \ {"request"}
  /\ Goto("idle")
  /\ UNCHANGED <<method, status, hasData, line, declared, passes, cleaned, ret>>

\* The rest of the world: the directory changes.
ListingChanges ==
  /\ listing' \in Lengths
  /\ UNCHANGED <<pc, server>>

Step ==
  \/ Undecodable \/ Decode \/ NotFound \/ \E m \in Methods : Find(m)
  \/ Unimplemented \/ BadPayload \/ DecodePayload
  \/ \E s \in CallbackStatus : CallbackNotOk(s)
  \/ CallbackOk \/ \E valid \in BOOLEAN : Size(valid)
  \/ EncodeFails \/ EncodeHead \/ EncodeData \/ EncodeDataFails
  \/ Cleanup \/ Release

Next == Call \/ Step \/ ListingChanges

\* The function goes on until it returns; nobody has to call it.
Spec == Init /\ [][Next]_vars /\ WF_vars(Step)

-----------------------------------------------------------------------------
(* Properties                                                              *)

\* Every variable keeps its type.
TypeOK ==
  /\ pc \in {"idle", "decode", "find", "payload", "callback", "size", "encode",
             "data", "cleanup", "release"}
  /\ method \in Methods \cup {Null}
  /\ status \in {"OK", "INTERNAL", "NOT_FOUND", "UNIMPLEMENTED",
                 "INVALID_ARGUMENT", "DATA_LOSS"}
  /\ hasData \in BOOLEAN
  /\ held \subseteq {"request", "ctx.request", "ctx.response"}
  /\ line \in {"nothing", "whole", "cut by the line", "cut by the data"}
  /\ declared \in Lengths
  /\ passes \in 0 .. 3
  /\ cleaned \in BOOLEAN
  /\ ret \in BOOLEAN
  /\ listing \in Lengths

\* Whichever way a call takes through the function, it has released at its
\* return all that was allocated in it.
NothingHeldBetweenCalls == pc = "idle" => held = {}

\* What the function returns tells what became of the output: true exactly when a
\* whole response was written.  (The other half of its "@return", on input, is
\* InputProblemIsTold.)
RetTellsWritten ==
  [][ pc # "idle" /\ pc' = "idle" => (ret <=> line = "whole") ]_vars

\* "@return true if succed in encoding response to output stream, false if didn't
\* manage to encode output stream or in case of input problem": after an input
\* that is no GrpcRequest the function returns false.
InputProblemIsTold == pc = "idle" /\ status = "DATA_LOSS" => ~ ret

\* The data is encoded from holders that are still there: the callback of the
\* example server reads the path from the request.  So nothing is encoded once
\* the cleanup callback was called or the request was released.
EncodesLiveData ==
  [][ passes' > passes => "ctx.request" \in held /\ ~ cleaned ]_vars

\* Blocking parsing is one answer per request, and it comes to an end.
Promise == INSTANCE NgAnswer WITH
  busy   <- pc # "idle",
  answer <- IF line = "nothing" THEN "none"
            ELSE IF line = "whole" THEN "whole" ELSE "broken"
ImplementsAnswer == Promise!Spec

\* "try to encode method response to make sure, that it will be possible to
\* encode it callback": a response whose size was taken is not cut short by its
\* own data.
SizedMeansEncodes == line # "cut by the data"
=============================================================================
