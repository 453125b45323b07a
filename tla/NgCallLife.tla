----------------------------- MODULE NgCallLife -----------------------------
(***************************************************************************)
(* What the non-blocking server promises about the life of a call, when    *)
(* every request has a new id: a context is busy with one call at a time;  *)
(* a call is answered only by the context that is busy with it, until its  *)
(* END_OF_CALL or until a request for that context takes its place.        *)
(***************************************************************************)
CONSTANTS
  Contexts,
  Ids,      \* the ids of requests; others have an id that identifies nothing
  Nobody,   \* neither a call nor a request
  Nowhere,  \* no context
  NoReply,
  TwoSteps  \* is a request answered in a step after the one that parses it?

VARIABLES
  current,  \* the call every context is busy with
  asked,    \* the ids requests came with
  came,     \* the id of the request of the last step, if it was one,
  target,   \* and the context of the request that step served, if it did
  line      \* the response sent by the last step: its id, and is it the last?

vars == <<current, asked, came, target, line>>

Init ==
  /\ current = [c \in Contexts |-> Nobody]
  /\ asked = {}
  /\ came = Nobody
  /\ target = Nowhere
  /\ line = NoReply

Sends(id, last) == line' = [call_id |-> id, last |-> last]

\* A request ends no call but the one the context it is for is busy with; that
\* context is free then, or busy with who the request is of.
Takes(who) ==
  /\ target' \in Contexts \cup {Nowhere}
  /\ \/ current' = current
     \/ /\ target' # Nowhere
        /\ \E w \in who : current' = [current EXCEPT ![target'] = w]

\* The answer may come at once, or never.
Request(id) ==
  /\ id \in Ids \ asked
  /\ asked' = asked \cup {id}
  /\ came' = id
  /\ Takes({Nobody, id})
  /\ \/ line' = NoReply
     \/ Sends(id, FALSE)
     \/ Sends(id, TRUE) /\ \A c \in Contexts : current'[c] # id

\* A request whose id is none of a call
Anonymous ==
  /\ came' \notin Ids \cup {Nobody}
  /\ asked' = asked
  /\ Takes({Nobody})
  /\ \/ line' = NoReply
     \/ line'.call_id \notin Ids

NoRequest == came' = Nobody /\ target' \in Contexts \cup {Nowhere}

Answer(c, last) ==
  /\ current[c] # Nobody
  /\ Sends(current[c], last)
  /\ current' = IF last THEN [current EXCEPT ![c] = Nobody] ELSE current
  /\ NoRequest
  /\ asked' = asked

\* Something is prepared, or does not get through.
Silence ==
  /\ NoRequest
  /\ line' = NoReply
  /\ UNCHANGED <<current, asked>>

\* If the answer to a request comes in a later step than the request, so does
\* that to one that is none of a call.
AnonymousAnswer ==
  /\ TwoSteps
  /\ NoRequest
  /\ line' = NoReply \/ line'.call_id \notin Ids
  /\ UNCHANGED <<current, asked>>

\* And then that answer may be lost, and if it was to end its call the call with
\* it; no call is lost by a step that serves no request, or another context's.
Lose(c) ==
  /\ TwoSteps
  /\ current[c] # Nobody
  /\ current' = [current EXCEPT ![c] = Nobody]
  /\ came' = Nobody
  /\ target' = c
  /\ line' = NoReply
  /\ asked' = asked

Next ==
  \/ \E id \in Ids : Request(id)
  \/ Anonymous
  \/ \E c \in Contexts, last \in BOOLEAN : Answer(c, last)
  \/ Silence
  \/ AnonymousAnswer
  \/ \E c \in Contexts : Lose(c)

Spec == Init /\ [][Next]_vars
=============================================================================
