----------------------------- MODULE NgRegistry -----------------------------
(***************************************************************************)
(* How a program puts its methods into services and its services into      *)
(* handles, and how a request finds a method: ng_addMethodToService,       *)
(* ng_GrpcRegisterService, ng_setMethodContext, ng_setMethodCallback,      *)
(* getMethodByHash and getMethodByPath.                                    *)
(*                                                                         *)
(* Services and methods carry their own next pointer, so that an object    *)
(* can be on one list only.  Nothing but the list at hand is searched      *)
(* before an object is put on it.                                          *)
(***************************************************************************)
EXTENDS Integers, SequencesExt

CONSTANTS
  Handles, Services, Methods, Contexts,
  Null,
  Names,        \* names without a delimiter, the empty one excepted
  ServiceName, MethodName,
  Hashes,       \* hashes a request can carry; 0 means none
  NameHash,     \* method->nameHash
  MayRegister,  \* the <<handle, service>> pairs this program registers,
  MayAdd,       \* the <<service, method>> pairs it adds,
  MaySet,       \* the <<method, context>> pairs it sets,
  MayCall       \* and the methods it sets a callback for

ASSUME NullAssumption == Null \notin Handles \cup Services \cup Methods \cup Contexts
ASSUME ObjectAssumption ==
  /\ IsFiniteSet(Services) /\ IsFiniteSet(Methods)
  /\ Handles \cap Services = {}
ASSUME NameAssumption ==
  /\ "" \notin Names
  /\ ServiceName \in [Services -> Names]
  /\ MethodName \in [Methods -> Names]
  /\ 0 \in Hashes
  /\ NameHash \in [Methods -> Hashes]
ASSUME PairAssumption ==
  /\ MayRegister \subseteq Handles \X Services
  /\ MayAdd \subseteq Services \X Methods
  /\ MaySet \subseteq Methods \X Contexts
  /\ MayCall \subseteq Methods

VARIABLES
  serviceHolder,  \* handle->serviceHolder
  service_next,   \* service->next
  service_method, \* service->method
  method_next,    \* method->next
  callbacks,      \* the methods whose callback was set
  context,        \* method->context
  ctx_method,     \* ctx->method
  told            \* the pairs for which a registration returned true

vars == <<serviceHolder, service_next, service_method, method_next,
          callbacks, context, ctx_method, told>>

Init ==
  /\ serviceHolder = [h \in Handles |-> Null]
  /\ service_next = [s \in Services |-> Null]
  /\ service_method = [s \in Services |-> Null]
  /\ method_next = [m \in Methods |-> Null]
  /\ callbacks = {}
  /\ context = [m \in Methods |-> Null]
  /\ ctx_method = [c \in Contexts |-> Null]
  /\ told = {}

-----------------------------------------------------------------------------
(* Linked lists                                                            *)

\* What a loop over the list sees, in this order; one more than there are
\* objects is enough to tell a list without an end.
List(head, next) ==
  LET from[n \in 0 .. Cardinality(DOMAIN next) + 1] ==
        [x \in DOMAIN next \cup {Null} |->
           IF n = 0 \/ x = Null THEN <<>> ELSE <<x>> \o from[n - 1][next[x]]]
  IN  from[Cardinality(DOMAIN next) + 1][head]

OnList(x, head, next) == x \in Range(List(head, next))

ListEnds(head, next) == Len(List(head, next)) <= Cardinality(DOMAIN next)

-----------------------------------------------------------------------------
(* Finding a method                                                        *)

MethodsOf(s) == List(service_method[s], method_next)

\* Where the wanted ones, pairs of a service and a method, are among the methods
\* of a service
Hits(s, wanted) ==
  LET methods == MethodsOf(s)
  IN  {k \in DOMAIN methods : <<s, methods[k]>> \in wanted}

\* The first wanted method of the first service that has one
Lookup(h, wanted) ==
  LET services == List(serviceHolder[h], service_next)
      having   == {i \in DOMAIN services : Hits(services[i], wanted) # {}}
      s        == services[Min(having)]
  IN  IF having = {} THEN Null ELSE MethodsOf(s)[Min(Hits(s, wanted))]

getMethodByHash(h, hash) ==
  Lookup(h, {p \in Services \X Methods : NameHash[p[2]] = hash})

\* A path is what its delimiters leave of it: "/svc/method" is
\* <<"", "svc", "method">>.  It starts with a delimiter and has one more, with
\* names that are not empty.
WellFormed(path) ==
  Len(path) = 3 /\ path[1] = "" /\ path[2] # "" /\ path[3] # ""

getMethodByPath_anyService(h, path) ==  \* faulty: the service's name is not compared
  IF ~ WellFormed(path) THEN Null
  ELSE Lookup(h, {p \in Services \X Methods : MethodName[p[2]] = path[3]})

getMethodByPath(h, path) ==
  IF ~ WellFormed(path) THEN Null
  ELSE Lookup(h, {p \in Services \X Methods :
                    ServiceName[p[1]] = path[2] /\ MethodName[p[2]] = path[3]})

\* The two attempts both parse functions make; no path is <<>>.
FindMethod(h, hash, path) ==
  LET byHash == IF hash # 0 THEN getMethodByHash(h, hash) ELSE Null IN
  IF byHash = Null /\ path # <<>> THEN getMethodByPath(h, path) ELSE byHash

-----------------------------------------------------------------------------
(* Setting up                                                              *)

ng_addMethodToService_replaces(s, m) ==  \* faulty: the list is not linked on
  /\ ~ OnList(m, service_method[s], method_next)
  /\ method_next' = [method_next EXCEPT ![m] = Null]
  /\ service_method' = [service_method EXCEPT ![s] = m]
  /\ told' = told \cup {<<s, m>>}
  /\ UNCHANGED <<serviceHolder, service_next, callbacks, context, ctx_method>>

ng_addMethodToService_linksService(s, m) ==  \* faulty: method->next = service
  /\ ~ OnList(m, service_method[s], method_next)
  /\ method_next' = [method_next EXCEPT ![m] = s]
  /\ service_method' = [service_method EXCEPT ![s] = m]
  /\ told' = told \cup {<<s, m>>}
  /\ UNCHANGED <<serviceHolder, service_next, callbacks, context, ctx_method>>

ng_addMethodToService(s, m) ==
  /\ ~ OnList(m, service_method[s], method_next)
  /\ method_next' = [method_next EXCEPT ![m] = service_method[s]]
  /\ service_method' = [service_method EXCEPT ![s] = m]
  /\ told' = told \cup {<<s, m>>}
  /\ UNCHANGED <<serviceHolder, service_next, callbacks, context, ctx_method>>

ng_GrpcRegisterService_again(h, s) ==  \* faulty: the list is not searched
  /\ service_next' = [service_next EXCEPT ![s] = serviceHolder[h]]
  /\ serviceHolder' = [serviceHolder EXCEPT ![h] = s]
  /\ told' = told \cup {<<h, s>>}
  /\ UNCHANGED <<service_method, method_next, callbacks, context, ctx_method>>

ng_GrpcRegisterService(h, s) ==
  /\ ~ OnList(s, serviceHolder[h], service_next)
  /\ service_next' = [service_next EXCEPT ![s] = serviceHolder[h]]
  /\ serviceHolder' = [serviceHolder EXCEPT ![h] = s]
  /\ told' = told \cup {<<h, s>>}
  /\ UNCHANGED <<service_method, method_next, callbacks, context, ctx_method>>

\* ctx->next is set nowhere: the list of contexts has one element.
ng_setMethodContext(m, c) ==
  /\ context[m] # c
  /\ context' = [context EXCEPT ![m] = c]
  /\ ctx_method' = [ctx_method EXCEPT ![c] = m]
  /\ UNCHANGED <<serviceHolder, service_next, service_method, method_next,
                 callbacks, told>>

ng_setMethodCallback(m) ==
  /\ callbacks' = callbacks \cup {m}
  /\ UNCHANGED <<serviceHolder, service_next, service_method, method_next,
                 context, ctx_method, told>>

\* What is on the list already is refused with false and changes nothing.
AlreadyThere ==
  /\ \/ \E p \in MayAdd : OnList(p[2], service_method[p[1]], method_next)
     \/ \E p \in MayRegister : OnList(p[2], serviceHolder[p[1]], service_next)
     \/ \E p \in MaySet : context[p[1]] = p[2]
  /\ UNCHANGED vars

Next ==
  \/ \E p \in MayAdd : ng_addMethodToService(p[1], p[2])
  \/ \E p \in MayRegister : ng_GrpcRegisterService(p[1], p[2])
  \/ \E p \in MaySet : ng_setMethodContext(p[1], p[2])
  \/ \E m \in MayCall : ng_setMethodCallback(m)
  \/ AlreadyThere

Spec == Init /\ [][Next]_vars

-----------------------------------------------------------------------------
(* Properties                                                              *)

\* Every variable keeps its type.
TypeOK ==
  /\ serviceHolder \in [Handles -> Services \cup {Null}]
  /\ service_next \in [Services -> Services \cup {Null}]
  /\ service_method \in [Services -> Methods \cup {Null}]
  /\ method_next \in [Methods -> Methods \cup {Null}]
  /\ callbacks \subseteq Methods
  /\ context \in [Methods -> Contexts \cup {Null}]
  /\ ctx_method \in [Contexts -> Methods \cup {Null}]
  /\ told \subseteq (Handles \X Services) \cup (Services \X Methods)

\* No list bites its tail, whatever is put on which list in whatever order:
\* every loop over services or methods ends.
EveryListEnds ==
  /\ \A h \in Handles : ListEnds(serviceHolder[h], service_next)
  /\ \A s \in Services : ListEnds(service_method[s], method_next)

\* No object was put on two lists: the next pointer of one that was belongs to
\* the last of them, and the others are cut or run on into it.
OnOneList == \A p, q \in told : p[2] = q[2] => p = q

\* "@return true if success": what was put on a list with true is on it from
\* then on, whatever is registered later, while no object is on two lists.
RegisteredStays ==
  OnOneList =>
    /\ \A p \in told \cap (Handles \X Services) :
         OnList(p[2], serviceHolder[p[1]], service_next)
    /\ \A p \in told \cap (Services \X Methods) :
         OnList(p[2], service_method[p[1]], method_next)

\* The path of a method that was added to a registered service leads to a method,
\* and whatever services and methods share names, to one of that name which was
\* added to a service of that name registered with the same handle.
PathFindsTheMethod ==
  \A h \in Handles, s \in Services, m \in Methods :
    OnOneList /\ <<h, s>> \in told /\ <<s, m>> \in told
      => LET found == getMethodByPath(h, <<"", ServiceName[s], MethodName[m]>>)
         IN  \E t \in Services :
               /\ <<h, t>> \in told /\ ServiceName[t] = ServiceName[s]
               /\ <<t, found>> \in told /\ MethodName[found] = MethodName[m]

\* A request is sent to another method than before only because that method,
\* or a service, was put on a list by this very step: the latest registration
\* wins and nothing else changes who answers.
RedirectedOnlyToNew ==
  [][ OnOneList' => \A h \in Handles, hash \in Hashes,
         svc \in Range(ServiceName), mth \in Range(MethodName) :
        LET path   == <<"", svc, mth>>
            before == FindMethod(h, hash, path)
            after  == FindMethod(h, hash, path)'
        IN  before # Null /\ after # before
              => \E p \in told' \ told :
                   \/ p[2] = after
                   \/ /\ p[1] = h
                      /\ OnList(after, service_method'[p[2]], method_next') ]_vars
=============================================================================
