# nanogrpc in TLA+

nanogrpc is an RPC server for microcontrollers: one C file (`ng_server.c`) over
nanopb. A client sends a `GrpcRequest` (call id, method by hash or path,
payload), the server looks the method up, decodes the payload, calls a callback
of the user and sends `GrpcResponse` messages. In blocking mode there is one
response, before the parse function returns. In non-blocking mode a callback may
answer at once, later, or with a stream of responses, and the server remembers
ongoing calls in an array. The repository has an example of the blocking mode: a
server and a client that list a directory over TCP.

The models follow the code, function by function; the documentation is used for
what it promises. Where code and promise differ, a run shows the difference
(section *Where the code and its documentation differ*).

## The system

| component | state | operations |
|---|---|---|
| calls holder (`ng_server.c:364-421, 615-626`) | array of `{call_id, context}`; id 0 marks a free slot | `ng_registerCall`, `ng_removeCall`, `ng_isCallOngoing`, `ng_isContextUsedByOngoingCall` |
| non-blocking server (`ng_server.c:429-742`) | calls holder, `call_id` and request/response holders of every context, `handle->response` | `ng_GrpcParseNonBlocking` (with `ng_getValidContext`), `ng_AsyncResponse`, `ng_endOfCall` |
| blocking server (`ng_server.c:171-274`) | `handle->request`, `handle->response`, one context in use | `ng_GrpcParseBlocking`, cleanup callback |
| registry and lookup (`ng_server.c:47-132, 282-359`) | linked lists through `next` of services and methods, `method->context`, `ctx->method` | `ng_addMethodToService`, `ng_GrpcRegisterService`, `ng_setMethodContext`, `ng_setMethodCallback`, `getMethodByHash`, `getMethodByPath` |
| response encoding (`ng_server.c:34-44, 146-156`) | none | callbacks of nanopb that write the data and the error text |
| wire messages (`nanogrpc.proto`) | none | `GrpcRequest`, `GrpcResponse` |
| application of the non-blocking interface (the user's) | jobs, prepared responses | method callbacks, later `ng_AsyncResponse`/`ng_endOfCall` |
| example server, client (`examples/network_server`) | sockets, the queue of connections, the path holder | connect, send, receive, respond, close; leave, be killed |
| generator (`generator/`) | none | writes methods, contexts, services as C |

How they interact: the application fills the registry once, then calls the parse
function whenever a request arrived; the parse function looks the method up,
calls back into the application and writes to the line. The callback, or a job
it left behind, may call the server again. Contexts are shared: a method has one
context, and all its calls use it one after the other. From a context to its
call there is no pointer, only the id `ctx->call_id`, which is looked up in the
whole calls holder. The handle has one response structure for everybody; its
`lock` is never taken.

What is hard here, and what makes each part correct:

* *Non-blocking server.* Requests, late responses, failures of callbacks, of
  encoding and of the line come in any order; ids are chosen by clients. Table
  and contexts must keep agreeing although removal goes by id, a new request
  must replace the previous call of its own method only, the table must never
  stay full of dead calls, a deferred call must keep its request and nobody
  else's data may be sent.
* *Application.* A job answers long after its callback returned, when the line
  lets it, and its call may have been replaced by then. Every call must come to
  an end that its client hears of, or be one the server itself gave up.
* *Blocking server.* Nine ways through one function with different things
  allocated; a response is sized, sized again and written in three passes while
  what it is encoded from may change. Every request needs exactly one answer and
  everything must be released after its last use.
* *Example.* Nothing but the close of the connection marks the end of a response,
  sockets can be full, clients leave, and a signal can end the server. Nobody may
  wait for ever, and no client may take part of a listing for a listing.
* *Registry.* Objects carry their own `next`, so that being put on a second list
  takes them off the first. No list may become a cycle, and what was registered
  must stay found.

`PROJECT.json` lists these hazards one by one with their lines and the
properties that cover them, or why none does.

## The modules

| module | models | corresponds to |
|---|---|---|
| `NgCalls` | calls holder | operators on the array with the names of the C functions |
| `NgServer` | non-blocking server | one action per way out of `ng_GrpcParseNonBlocking` (`Parse...`), `AsyncResponse`, `AsyncEncodeFailed`, `endOfCall`, `Refuse` (the ways out that change nothing), and `Prepare`, the application |
| `NgCallLife` | the life of a call, abstractly | asked, ongoing on a context, on the line or not, ended or replaced; a request ends only the call of the context that serves it (`target`); with `TwoSteps` a request and the answer its callback returns are two steps |
| `NgApp` | an application over `NgServer` | `ng_GrpcParseNonBlocking` cut in two at the callback (`Enter`, `Return`), with jobs and callbacks that answer in between (`Fill`, `Stream`, `Finish`, `Refused`, `EncodeFailed`) |
| `NgRegistry` | registry and lookup | one action per function; `AlreadyThere` is the refusal of all of them |
| `NgBlocking` | blocking server | one action per stretch of `ng_GrpcParseBlocking` between two calls into nanopb or the application; `pc` names the stretch |
| `NgAnswer` | what blocking parsing promises | abstract: take a request, answer it once, return |
| `NgSession` | `client.c`, `server.c`, `common.c` | one action per part of a message that is sent or received, `Accept`, `Close`, and what ends a process or a connection |
| `MCNgServer`, `MCNgServerCrowded`, `MCNgApp`, `MCNgRegistry`, `MCNgBlocking` | small programs | constants for the runs |
| `NgCallsProofs`, `NgServerProofs`, `NgLifeProofs`, `NgAppProofs` | theorems about the calls holder, the server and the application | each builds on the one before |
| `NgListProofs`, `NgRegistryProofs` | lemmas about linked lists, theorems about the registry | |
| `NgBlockingProofs`, `NgSessionProofs` | theorems about blocking parsing and the example | |

`NgApp` extends `NgServer`, which extends `NgCalls`. `NgServer` instantiates
`NgCallLife` (`ImplementsLife`) and `NgBlocking` instantiates `NgAnswer`
(`ImplementsAnswer`) with refinement mappings. In the first, the current call of
a context is `CurrentCall`, read from the calls holder; what was asked is what
clients know (`AskedIds`), and `OnTheLine` is the response the last step sent. In
the second, `busy` is `pc # "idle"` and `answer` is what was written. `NgApp`
instantiates `NgCallLife` with the mapping of `NgServer` (`AppImplementsLife`) and
with `TwoSteps`: what a callback returns is an answer in a step of its own, which
may be lost together with the call of the context it comes from (`Lose`), or be the answer to a
request that is none of a call (`AnonymousAnswer`).

State of `NgServer`: `callsHolder` is the array, `ctxCallId[c]` is
`ctx->call_id`. A request or response holder is modelled by the id of the call
whose data it holds, or `Empty`: that is all that is needed to say whose data is
sent, kept or released. `reply` is the response the last step put on the line,
`came` the id of the request it took, `target` the context that served it,
`leaked` the calls whose allocated data that step overwrote, and `seen` the
client's knowledge of every id; these five only record what happened. pb_decode, pb_encode,
pb_get_encoded_size and canIWriteToOutput may fail at any call.

Assumptions of `NgServer`: the code runs in one task and callbacks do not call
back into the handle, so that one call of a function is one step (`NgApp` is the
model without that assumption); `input`, `output`, `canIWriteToOutput` and
`outputReady` are set; the application prepares responses only for calls that
are ongoing. `Reusable` says what clients do with ids: `{}` is a new id for every
request, `{"ended"}` allows an id again after its END_OF_CALL, `{"ended",
"failed"}` also after an error. Call id 0 may be used at any time in every run,
as the example client does. `Malloc` is `PB_ENABLE_MALLOC`.

State of `NgApp`: `serving` is the request whose callback runs and `shared` is
what `handle->response` holds meanwhile; `jobs` are the calls left to be
answered later, and `lost` those of which no client is told by the code (the
final answer of the parse function did not get out, or a new request took the
context). The application asks `ng_isCallOngoing` before it touches a context,
as the interface offers; a job that fails tries again. `AfterNested` is what a
callback may return that used the interface itself: a careful one has answered,
or left the rest to a job, and returns `WillRespondLater`.

State of `NgSession`: a message is a sequence of parts, each socket a queue of at
most `Capacity` parts per direction. A name in `Clients` stands for one
connection at a time, and may connect again when the server is done with it. A
request that breaks off is rejected; a response breaks off where `send` or the
encoding fails; a connection closed with input unread is reset, and what the
client had not read may be lost.

Definitions marked *faulty* (`ng_removeCall_anyway`, `Release_success`, ...) are
not used by the specifications. Each is a plausible mistake in the definition it
stands next to, and breaks the property it is paired with in `PROJECT.json`
under `mutants`: the properties do depend on that line of code.

## The runs

| run | question |
|---|---|
| `server_unique` | With a new id for every request, do table, contexts and holders keep in step, whatever fails? All properties of `NgServer` that hold then, and that it implements `NgCallLife`. |
| `server_crowded` | With ids used again after END_OF_CALL and more contexts than slots: do table and contexts still agree, and do deferred calls keep contexts and requests when a request finds the table full and is refused? |
| `app_jobs` | Does every call end, is every job's call ongoing or replaced, is each answered by the context that is busy with it, with its own data and never after its end, when jobs try again and callbacks call back? |
| `registry` | Programs put anything on any list in any order. While nothing is put on two lists, does everything registered stay found, and does a request change hands only for what was just registered? Do all lists end in any case? |
| `blocking_calls` | Does each request get one answer, does the caller learn of it, is all released, does the function return, and are data only encoded while they exist? |
| `session_clients` | Whoever leaves, is reset or is killed: is what a client prints the whole listing it asked for, and does every client end? |
| `server_id_reuse`, `server_context_in_use`, `server_second_answer`, `app_nested`, `blocking_input`, `blocking_sized` | counterexamples, see below |

The properties of `NgServer`, most important first:

* `TableSound`: an ongoing call's context records its id, and no id is in the
  table twice. Everything else goes from a context to its call by the id alone.
* `ImplementsLife`: a call becomes ongoing by its request and for a context of its
  own, answers go out for the current call of a context only, and a call leaves
  its context by its END_OF_CALL or for a request to the same context, never for
  one that another context serves or that none does.
* `ValidContextIsFree`: a context handed out for a request has no ongoing call.
* `OthersKeepTheirPlace`, `OngoingMeansThisContext`: removing and looking up by
  the id of a context never meets the call of another one.
* `AlwaysRoom`: with a slot per context, a request always finds one.
* `DeferredKeepsRequest`, `HeldRequestIsOngoing`: the request of a deferred call is
  there as long as the call can be answered, and no longer: no call ends with its
  request left in the holder.
* `OnlyReplacedCallsLeak`: allocated data is overwritten unreleased (`leaked`) only by a
  request that takes the place of that very call, ongoing on the same context.
  That one does leak (`ng_server.c:499`): every answer, failure and refusal does not.
* `AnswerCarriesOwnData`: no response has data of another call. Data is told apart by
  the id of its call, so that this is checked and proved where every id is new.
* `EndOfCallIsLast`: nothing is sent for a call after its END_OF_CALL.

Of `NgApp`: `EveryCallEnds` (a call a client waits for ends, or was given up by
the server itself), `JobsAreOngoing` (a job never lacks its call without reason),
`AppImplementsLife` (calls live as `NgCallLife` says, answered from where they may)
and `AnswersItsRequest` (the parse function answers the request it was called
for; see `app_nested`). Of `NgSession`: `ListedIsAskedFor`, `EveryClientEnds`.
Those of `NgRegistry` (`RegisteredStays`, `PathFindsTheMethod`,
`RedirectedOnlyToNew`, `EveryListEnds`) and of
`NgBlocking` (`NothingHeldBetweenCalls`, `RetTellsWritten`,
`EncodesLiveData`, `ImplementsAnswer`) are explained
where they are defined.

### Bounds, and why they are enough

* `NgServer`: 3 ids (2 in `server_crowded` and the counterexamples), plus id 0 without limit; a unary
  and a streaming method with a context each, a method without context, one
  without callback; 2 slots. What can go wrong needs a call of the context,
  a call of the other context and a third request that meets one of them; ids
  are only compared, so that they are symmetric. With fresh ids every behaviour
  ends after 3 named requests but goes on with requests under id 0. `server_crowded`
  gives the method without context one of its own (`MCNgServerCrowded`): 3 contexts,
  2 slots and 2 ids. With both ids in the table it is a request with id 0 that finds
  it full; the code treats it as any other until a slot would be taken. States are
  told apart there by what a step depends on (`CrowdedView` leaves out the response
  and the request of the last step, of which the run's properties do not speak), and
  the two unary methods may change places (`CrowdedSymmetry`). Each run explores
  all its reachable states (about 50 000 and 57 000). The runs are of the build
  with `PB_ENABLE_MALLOC`, where releasing and losing memory can go wrong; the
  theorems below that do not name it hold in both builds.
* `NgApp`: the same program with 2 ids and 2 slots (about 109 000 states): one call
  being served while the other is left to a job, or replaced by it. No bound on
  how often a job is refused or a stream goes on.
* `NgSession`: 2 clients, 2 paths, listings of 0 to `MaxFiles` = 2 files, sockets of
  `Capacity` = 2 parts, less than a request or a response has, so that both
  sides block (about 719 000 states). Clients may come back without limit.
* `NgRegistry`: 3 services, 3 methods, 2 handles, 3 hashes of which one is
  of a method, one "none" and one unknown (about 62 000 states). A cut list or a
  cycle needs two lists and two objects; a third object makes "in the middle"
  different from the ends. Two of the services share a name and so do two methods, one of
  which can be added to a service of another name: a lookup that forgot one of
  the two names would find the wrong one.
* `NgBlocking`: a listing of length 0 to 2 (`MaxLength`): shorter, equal and longer than
  declared; methods with and without cleanup and one that is not implemented.
  The number of calls is not bounded.

### Fairness

* `NgBlocking`: `WF_vars(Step)`. The function is sequential code and goes on to
  its return, provided that nanopb and the callbacks return, which the code
  relies on. Nothing forces a new call (`Call`) or the directory to change.
* `NgApp`: `WF_appVars(Return)`, callbacks return; and `SF_appVars(FinishJob(c))`.
  The loop of the program comes back to each job again and again, and in between
  requests come and callbacks run, so that finishing a job is not enabled all
  the time; strong fairness says that the line does not refuse it each time.
  Nothing forces a request, and no failure has to happen or to stop happening.
* `NgSession`: `WF_vars(ClientStep(k))` and `WF_vars(ServerStep)`, two programs that
  go on while `send`, `recv` and `accept` let them. None for connecting, leaving or
  failing.

`NgServer` and `NgRegistry` state none and have no liveness property: nobody has
to request, and in `NgServer` nothing makes an application answer a deferred call.

## What is proved

For any numbers of slots, ids, contexts, methods and clients, and any sizes of
sockets and listings:

| theorem | says | needs |
|---|---|---|
| `NgServerProofs`: `Typing` | `[]TypeOK` | |
| `Soundness` | `[]TableSound` | ids used again only after END_OF_CALL |
| `ContextVacated` | `[]ValidContextIsFree` | the same |
| `NgLifeProofs`: `OwnData` | `[]AnswerCarriesOwnData` | a new id for every request |
| `RequestKept` | `DeferredKeepsRequest` | ids used again only after END_OF_CALL |
| `RoomForAll` | `[]AlwaysRoom` | the same, finitely many contexts |
| `OthersLeftAlone` | `[]OthersKeepTheirPlace` | a new id for every request |
| `OngoingIsOwn` | `[]OngoingMeansThisContext` | the same |
| `RequestReleased` | `[]HeldRequestIsOngoing` | the same, `PB_ENABLE_MALLOC` |
| `LeakOnlyByReplacement` | `OnlyReplacedCallsLeak` | the same |
| `NothingAfterEnd` | `EndOfCallIsLast` | a new id for every request |
| `Refinement` | `ImplementsLife` | the same |
| `NgBlockingProofs`: `BlockingTyping` | `[]TypeOK` | |
| `AllReleased` | `[]NothingHeldBetweenCalls` | |
| `ReturnIsTrue` | `RetTellsWritten` | |
| `DataIsLive` | `EncodesLiveData` | |
| `OneAnswer` | the safety half of `ImplementsAnswer` | |
| `ReturnsInTime` | each step of the function counts down to its return | |
| `NgSessionProofs`: `SessionTyping` | `[]TypeOK` | |
| `ListedIsWanted` | `[]ListedIsAskedFor` | |
| `NgRegistryProofs`: `RegistryTyping` | `[]TypeOK` | |
| `ListsEnd` | `[]EveryListEnds` | |
| `StaysRegistered` | `[]RegisteredStays` | |
| `FoundByPath` | `[]PathFindsTheMethod` | |
| `Redirection` | `RedirectedOnlyToNew` | |
| `NgAppProofs`: `AppTyping` | `[]AppTypeOK` | |
| `JobsOngoing` | `[]JobsAreOngoing` | a new id for every request, `AfterNested` within `{"WillRespondLater"}` |
| `AppSoundness` | `TableSound`, `ValidContextIsFree`, `OthersKeepTheirPlace`, `OngoingMeansThisContext` | the same |
| `AppOwnData` | `[]AnswerCarriesOwnData` | the same |
| `AppNothingAfterEnd` | `EndOfCallIsLast` | the same |
| `AppRefinement` | `AppImplementsLife` | the same |
| `AppRequestReleased` | `[]HeldRequestIsOngoing` | the same, `PB_ENABLE_MALLOC` |
| `AppLeakOnlyByReplacement` | `OnlyReplacedCallsLeak` | the same |

Besides these, the theorems assume what the modules assume of their constants
(no id equals `ZeroId` or `Empty`, a method's context is one of the program's, a
program has finitely many methods and services, ...), which the runs evaluate. Where an assumption on ids is needed, `server_id_reuse` and
`server_context_in_use` have counterexamples without it. `AfterNested` within
`{"WillRespondLater"}` is the application that does not also return an answer from
a callback that used the interface itself; `app_nested` shows what becomes of
one that does.

`NgCallsProofs` proves what the loops over the array do: the first slot with an
id exists and has it, registering changes one free slot, removing frees at most
one slot, and (`RemoveDistinct`) exactly the slot with the id while no id is
there twice. The last one is what makes removal by id right. `RegisterCalls` and
`RemoveCalls` say the same of the set of calls in the table, without slots.

The argument for the server: `TableSound` is not inductive. A request with an id
that is still in the table would put it there twice, and nothing in the table
says that this cannot happen: it is the client that does not use an id before it
was told that its call is over. `OngoingIsOpen` (an id in the table is, for the
client, not yet ended) makes the connection, and `SoundInv = TypeOK /\ TableSound
/\ OngoingIsOpen` is inductive. The proof has a lemma per group of actions: a
request that leaves the table alone, one that registers a call, one that
registers and removes it, and the responses. A call may fail (`"failed"` for the
client) and stay in the table, which is why an id must not be used again after
an error. `ValidContextIsFree` follows: if `c` has an ongoing call, `TableSound`
says that `ctxCallId[c]` is its id and in no other slot, and `RemoveDistinct`
that it goes.

`SoundInv` does not say anything of a context without a call: its old id may have
gone to another context and be removed or answered there, which is just what
`server_id_reuse` shows. With new ids `UniqueInv` adds that an id a context
records was used (`UsedIds`) and by that context alone (`OwnIds`). From it follow
`OthersLeftAlone`, `OngoingIsOwn`, `NothingAfterEnd` and, action by action on the
sets of calls, `Refinement`. `DataInv` (a prepared response belongs to the id its
context records) is inductive whatever clients do with ids, but it says whose data is
sent only where an id is of one call, which `OwnData` therefore assumes. `HeldInv`
(what a request or response holder has is of the call its context is busy with)
needs new ids and a build that releases. `LeakOnlyByReplacement` follows: what a
request overwrites is of the call the context is busy with, and after the request
it is busy with another one or none. `AlwaysRoom` is the pigeonhole principle: after
`ng_getValidContext` the calls in the table are of different contexts, none of
them the one at hand, so that there are fewer of them than slots.

For blocking parsing `BlockingInv` says for each stretch of the function what has
been allocated, written and counted there (`HeldInv`, `WrittenInv`, `PassesInv`,
`DataInv`); the properties speak of its return. `ReturnsInTime` needs no more than
the order of the stretches: also the passes over data that changes lead on.

The application is the server with the two halves of `ng_GrpcParseNonBlocking` as
steps. All its other steps are steps of `NgServer`, whose lemmas say what they keep
(`AppSteps`), provided that a job fills the holder of the context its call is
ongoing on; that is what has to be proved first. `JobsAreOngoing` is not inductive:
a job asks for its id in the whole table and could find it elsewhere. `AppInv` adds
to `UniqueInv` that a job's id was used and is ongoing on no other context than the
job's (`JobsTended`), and that the callback that runs has the id its context
records, which is no job's (`ServingSound`): a request is new to all jobs. For
what callbacks return, `CallbackUnheard` says that the client was told nothing yet
and the call is ongoing as long as `handle->response` is what the parse function
prepared. Whatever ends the call on the way leaves its type there.

For the example, `SessionInv` looks at each part of a message wherever it is. A
part of a request fits its place, counted from what the server has taken of it
(`UpOK`, `ToSendOK`); so the path the server lists is the one that was asked for
(`PathInv`). A part of a response fits its place, counted from what the client
has read (`ComingOK`). That only holds because a connection is accepted once and
opened again only when the server is done with it (`QueueInv`): nothing of an
earlier response is in the socket. A client that goes on to print has read as
many parts as the second one says, which makes them the listing
(`WholeIsListing`). Nothing has to be known of a client that is gone.

For the registry, `List` is a recursive function of the number of rounds a loop
makes. The provers have no induction to apply to it, but what induction needs is
a fact about sets: a set of numbers with 0 and with every successor has all of
them, which `NgListProofs` derives from the well-foundedness of inclusion on finite
sets (`LeastNumber`, `Induction`). So it is shown once that `List` is a walk along
the pointers (`ListIsWalk`), and after that only walks are spoken of. That a list
ends follows from ranks: pointers that lead to lower ranks make no cycle, a walk
then sees no object twice and cannot be longer than there are objects
(`AcyclicEnds`). Putting an object in front of a list it is not on keeps the ranks
of that list and raises everything else (`StaysAcyclic`): the search of one list
is enough. `RegistryInv` adds that, while nothing is put on two lists, exactly what
a registration returned true for is on a list (`ListedIsTold`): a new object is
then on none and its pointer is free, so that no list is cut (`StaysRegistered`,
`FoundByPath`).
`Redirection` compares the first wanted method before and after: putting one in
front of a list changes the first one only to itself (`PutInFront`, `ForemostInFront`).

Only model-checked is liveness, which is out of the prover's reach: `EveryCallEnds`,
`EveryClientEnds`, and the liveness half of `ImplementsAnswer` (`OneAnswer` is the
other half, and `ReturnsInTime` the count that fairness needs).

## Where the code and its documentation differ

Each has a run with a counterexample and an entry in `findings`:

* `server_id_reuse`: `ctx->call_id` is never reset. When an id comes back for
  another method, a request to the first method ends that call.
* `server_context_in_use`: after a failed callback the call stays registered. If
  its id is used again it is in the table twice, and `ng_getValidContext` hands
  out a context that is in use.
* `server_second_answer`: for the same reason a unary method can send another
  response after the error.
* `app_nested`: `ng_AsyncResponse` and `ng_endOfCall` refill `handle->response`. A
  callback that used one of them and then returns a response has it sent under
  the id left there.
* `blocking_input`: blocking parsing returns true for input that is no
  `GrpcRequest`, where its comment promises false (`:167-169`).
* `blocking_sized`: a response that was sized successfully can still break off
  after its status was written, if its data changed in between.

Seen in the code and not made runs of: the error text is chosen through one
indirection too few (`ng_server.c:36`); a service registered with two
handles cuts the list of the first (`:353`); a context set for two methods belongs
to the second (`:315`), and the first encodes its responses as the second's; a
request that replaces a deferred call zero-fills its holders and does not release
them (`:499`), so that what was allocated is lost (no document speaks of it;
`OnlyReplacedCallsLeak` shows that nothing else is); a final answer the line does not take
is dropped with its call (`:574`); `listdir_callback` runs three times per response and not
"once" (`examples/network_server/server.c:34`).

## What is not modelled

* Wire format, error texts, hashing and buffers: nanopb's (a submodule that is not
  in the tree) or wording, modelled by success, failure and whose data.
* The three passes of a response in non-blocking mode: one choice there, modelled
  in blocking mode.
* NULL arguments of the registration functions and a handle that is not set up.
* Memory behind the holders: the models say whose data a holder has and whose was
  overwritten, not how much was allocated for it. Data that an application
  allocates itself is known to the model as far as it is in the response holder.
* What a broken message does to the line it is flushed to (`:573`): framing is the
  application's.
* Several tasks that use one handle: the code has a lock and never takes it, and
  does not support it.
* The generator (text) and build files.

## Plan

Done: `NgCalls` and `NgServer` with its theorems and refinement, `NgApp`,
`NgRegistry`, `NgBlocking` with `NgAnswer`, `NgSession`, and their theorems. The order
was by what most needs it: the calls holder and the server that depends on it
first.

Left: the safety half of the liveness of `NgApp` and `NgSession` as counts like
`ReturnsInTime` (what a job's `Finish` and a step of a client bring nearer), and a
count of live allocations.
