-------------------------- MODULE NgRegistryProofs --------------------------
(***************************************************************************)
(* Theorems about setting up, for any program.                             *)
(***************************************************************************)
EXTENDS NgListProofs, TLAPS

USE NullAssumption, ObjectAssumption, PairAssumption

\* Every variable keeps its type: pointers of lists lead to objects of the kind
\* the list is of, in whatever order and on whatever lists objects are put.
THEOREM RegistryTyping == Spec => []TypeOK
<1>1. Init => TypeOK
  BY DEF Init, TypeOK
<1>2. ASSUME TypeOK, [Next]_vars
      PROVE  TypeOK'
  <2>1. CASE UNCHANGED vars
    BY <1>2, <2>1 DEF TypeOK, vars
  <2>2. ASSUME NEW p \in MayAdd, ng_addMethodToService(p[1], p[2])
        PROVE  TypeOK'
    <3>1. p[1] \in Services /\ p[2] \in Methods /\ <<p[1], p[2]>> \in Services \X Methods
      BY <2>2
    <3> QED
      BY <1>2, <2>2, <3>1 DEF TypeOK, ng_addMethodToService
  <2>3. ASSUME NEW p \in MayRegister, ng_GrpcRegisterService(p[1], p[2])
        PROVE  TypeOK'
    <3>1. p[1] \in Handles /\ p[2] \in Services /\ <<p[1], p[2]>> \in Handles \X Services
      BY <2>3
    <3> QED
      BY <1>2, <2>3, <3>1 DEF TypeOK, ng_GrpcRegisterService
  <2>4. ASSUME NEW p \in MaySet, ng_setMethodContext(p[1], p[2])
        PROVE  TypeOK'
    <3>1. p[1] \in Methods /\ p[2] \in Contexts
      BY <2>4
    <3> QED
      BY <1>2, <2>4, <3>1 DEF TypeOK, ng_setMethodContext
  <2>5. ASSUME NEW m \in MayCall, ng_setMethodCallback(m)
        PROVE  TypeOK'
    BY <1>2, <2>5 DEF TypeOK, ng_setMethodCallback
  <2> QED
    BY <1>2, <2>1, <2>2, <2>3, <2>4, <2>5 DEF Next, AlreadyThere
<1> QED
  BY <1>1, <1>2, PTL DEF Spec

-----------------------------------------------------------------------------
(* What lists hold                                                         *)

NoCycle == Acyclic(service_next, Services) /\ Acyclic(method_next, Methods)

\* While no object was put on two lists, a list holds what was put on it and
\* nothing else.  The second half is needed for the first: a new object must be
\* on none of the lists, for its pointer to be free.
ServicesTold ==
  \A h \in Handles, s \in Services :
    OnList(s, serviceHolder[h], service_next) <=> <<h, s>> \in told

MethodsTold ==
  \A s \in Services, m \in Methods :
    OnList(m, service_method[s], method_next) <=> <<s, m>> \in told

ListedIsTold == OnOneList => ServicesTold /\ MethodsTold

RegistryInv == TypeOK /\ NoCycle /\ ListedIsTold

LEMMA EndsEverywhere ==
  ASSUME TypeOK, NoCycle
  PROVE  /\ \A x \in Services \cup {Null} : ListEnds(x, service_next)
         /\ \A x \in Methods \cup {Null} : ListEnds(x, method_next)
<1>1. Null \notin Services /\ Null \notin Methods
  OBVIOUS
<1> QED
  BY <1>1, AcyclicEnds DEF TypeOK, NoCycle

LEMMA RegistryInit == Init => NoCycle /\ ListedIsTold
<1> SUFFICES ASSUME Init PROVE NoCycle /\ ListedIsTold
  OBVIOUS
<1>1. NoCycle
  <2>1. [s \in Services |-> 0] \in [Services -> Nat] /\ [m \in Methods |-> 0] \in [Methods -> Nat]
    OBVIOUS
  <2>2. /\ \A s \in Services : service_next[s] = Null
        /\ \A m \in Methods : method_next[m] = Null
    BY DEF Init
  <2> QED
    BY <2>1, <2>2 DEF NoCycle, Acyclic
<1>2. \A D : Null \notin D /\ IsFiniteSet(D) =>
        \A next \in [D -> D \cup {Null}] : \A y : ~ OnList(y, Null, next)
  <2> SUFFICES ASSUME NEW D, Null \notin D, IsFiniteSet(D),
                      NEW next \in [D -> D \cup {Null}], NEW y,
                      OnList(y, Null, next)
               PROVE  FALSE
    OBVIOUS
  <2>1. List(Null, next) = <<>>
    BY ListIsWalk, Zenon DEF IsWalk
  <2>2. Len(List(Null, next)) = 0
    BY <2>1, EmptySeq
  <2> QED
    BY <2>2, OnListAt
<1>3. ServicesTold
  <2>1. service_next \in [Services -> Services \cup {Null}] /\ Null \notin Services
    BY DEF Init
  <2>2. \A y : ~ OnList(y, Null, service_next)
    BY <1>2, <2>1
  <2> QED
    BY <2>2 DEF Init, ServicesTold
<1>4. MethodsTold
  <2>1. method_next \in [Methods -> Methods \cup {Null}] /\ Null \notin Methods
    BY DEF Init
  <2>2. \A y : ~ OnList(y, Null, method_next)
    BY <1>2, <2>1
  <2> QED
    BY <2>2 DEF Init, MethodsTold
<1> QED
  BY <1>1, <1>3, <1>4 DEF ListedIsTold

\* A method that is put on a list, and will be on one list only, was on none.
LEMMA MethodIsFree ==
  ASSUME RegistryInv, NEW s \in Services, NEW m \in Methods,
         ng_addMethodToService(s, m), OnOneList'
  PROVE  /\ <<s, m>> \notin told
         /\ \A t \in Services : ~ OnList(m, service_method[t], method_next)
<1>1. told' = told \cup {<<s, m>>} /\ ~ OnList(m, service_method[s], method_next)
  BY DEF ng_addMethodToService
<1>2. OnOneList /\ MethodsTold
  BY <1>1 DEF OnOneList, RegistryInv, ListedIsTold
<1>3. <<s, m>> \notin told
  BY <1>1, <1>2 DEF MethodsTold
<1>4. ASSUME NEW t \in Services, <<t, m>> \in told
      PROVE  FALSE
  <2>1. <<t, m>> \in told' /\ <<s, m>> \in told'
    BY <1>1, <1>4
  <2>2. <<t, m>> = <<s, m>>
    BY <2>1 DEF OnOneList
  <2> QED
    BY <1>3, <1>4, <2>2
<1> QED
  BY <1>2, <1>3, <1>4 DEF MethodsTold

\* So was a service.
LEMMA ServiceIsFree ==
  ASSUME RegistryInv, NEW g \in Handles, NEW s \in Services,
         ng_GrpcRegisterService(g, s), OnOneList'
  PROVE  /\ <<g, s>> \notin told
         /\ \A k \in Handles : ~ OnList(s, serviceHolder[k], service_next)
<1>1. told' = told \cup {<<g, s>>} /\ ~ OnList(s, serviceHolder[g], service_next)
  BY DEF ng_GrpcRegisterService
<1>2. OnOneList /\ ServicesTold
  BY <1>1 DEF OnOneList, RegistryInv, ListedIsTold
<1>3. <<g, s>> \notin told
  BY <1>1, <1>2 DEF ServicesTold
<1>4. ASSUME NEW k \in Handles, <<k, s>> \in told
      PROVE  FALSE
  <2>1. <<k, s>> \in told' /\ <<g, s>> \in told'
    BY <1>1, <1>4
  <2>2. <<k, s>> = <<g, s>>
    BY <2>1 DEF OnOneList
  <2> QED
    BY <1>3, <1>4, <2>2
<1> QED
  BY <1>2, <1>3, <1>4 DEF ServicesTold

\* A method is put on the list of a service that does not have it.
LEMMA MethodAdded ==
  ASSUME RegistryInv, NEW s \in Services, NEW m \in Methods,
         ng_addMethodToService(s, m)
  PROVE  (NoCycle /\ ListedIsTold)'
<1> DEFINE h == service_method[s]
<1>1. /\ method_next \in [Methods -> Methods \cup {Null}]
      /\ h \in Methods \cup {Null}
      /\ \A t \in Services : service_method[t] \in Methods \cup {Null}
      /\ Null \notin Methods
  BY DEF RegistryInv, TypeOK
<1>2. PointsTo(m, h, method_next, method_next', Methods)
  BY <1>1, SetPointer DEF ng_addMethodToService
<1>3. ~ OnList(m, h, method_next) /\ Acyclic(method_next, Methods) /\ ListEnds(h, method_next)
  BY <1>1, EndsEverywhere DEF ng_addMethodToService, RegistryInv, NoCycle
<1>4. /\ UNCHANGED <<serviceHolder, service_next>>
      /\ service_method'[s] = m
      /\ \A t \in Services \ {s} : service_method'[t] = service_method[t]
      /\ told' = told \cup {<<s, m>>}
  BY DEF ng_addMethodToService, RegistryInv, TypeOK
<1> HIDE DEF h
<1>5. NoCycle'
  <2>1. Acyclic(method_next', Methods)
    BY <1>1, <1>2, <1>3, StaysAcyclic
  <2> QED
    BY <1>4, <2>1 DEF RegistryInv, NoCycle
<1>6. ASSUME OnOneList'
      PROVE  ServicesTold' /\ MethodsTold'
  <2>1. OnOneList /\ ServicesTold /\ MethodsTold
    BY <1>4, <1>6 DEF OnOneList, RegistryInv, ListedIsTold
  <2>2. ServicesTold'
    <3>1. \A g \in Handles, t \in Services : <<g, t>> # <<s, m>>
      OBVIOUS
    <3> QED
      BY <1>4, <2>1, <3>1 DEF ServicesTold
  <2>4. \A t \in Services : ~ OnList(m, service_method[t], method_next)
    BY <1>6, MethodIsFree
  <2>5. ASSUME NEW t \in Services, NEW x \in Methods
        PROVE  OnList(x, service_method[t], method_next)' <=> <<t, x>> \in told'
    <3>1. CASE t = s
      <4>1. OnList(x, m, method_next') <=> x = m \/ OnList(x, h, method_next)
        BY <1>1, <1>2, <1>3, OnListInFront
      <4>2. OnList(x, h, method_next) <=> <<s, x>> \in told
        BY <2>1 DEF MethodsTold, h
      <4> QED
        BY <1>4, <3>1, <4>1, <4>2 DEF OnList
    <3>2. CASE t # s
      <4>1. service_method'[t] = service_method[t]
        BY <1>4, <3>2
      <4>2. List(service_method[t], method_next') = List(service_method[t], method_next)
        BY <1>1, <1>2, <2>4, OtherListsKept
      <4>3. <<t, x>> \in told' <=> <<t, x>> \in told
        BY <1>4, <3>2
      <4> QED
        BY <2>1, <4>1, <4>2, <4>3 DEF MethodsTold, OnList
    <3> QED
      BY <3>1, <3>2
  <2> QED
    BY <2>2, <2>5 DEF MethodsTold
<1> QED
  BY <1>5, <1>6 DEF ListedIsTold

\* A service is put on the list of a handle that does not have it.
LEMMA ServiceRegistered ==
  ASSUME RegistryInv, NEW g \in Handles, NEW s \in Services,
         ng_GrpcRegisterService(g, s)
  PROVE  (NoCycle /\ ListedIsTold)'
<1> DEFINE h == serviceHolder[g]
<1>1. /\ service_next \in [Services -> Services \cup {Null}]
      /\ h \in Services \cup {Null}
      /\ \A k \in Handles : serviceHolder[k] \in Services \cup {Null}
      /\ Null \notin Services
  BY DEF RegistryInv, TypeOK
<1>2. PointsTo(s, h, service_next, service_next', Services)
  BY <1>1, SetPointer DEF ng_GrpcRegisterService
<1>3. ~ OnList(s, h, service_next) /\ Acyclic(service_next, Services) /\ ListEnds(h, service_next)
  BY <1>1, EndsEverywhere DEF ng_GrpcRegisterService, RegistryInv, NoCycle
<1>4. /\ UNCHANGED <<service_method, method_next>>
      /\ serviceHolder'[g] = s
      /\ \A k \in Handles \ {g} : serviceHolder'[k] = serviceHolder[k]
      /\ told' = told \cup {<<g, s>>}
  BY DEF ng_GrpcRegisterService, RegistryInv, TypeOK
<1> HIDE DEF h
<1>5. NoCycle'
  <2>1. Acyclic(service_next', Services)
    BY <1>1, <1>2, <1>3, StaysAcyclic
  <2> QED
    BY <1>4, <2>1 DEF RegistryInv, NoCycle
<1>6. ASSUME OnOneList'
      PROVE  ServicesTold' /\ MethodsTold'
  <2>1. OnOneList /\ ServicesTold /\ MethodsTold
    BY <1>4, <1>6 DEF OnOneList, RegistryInv, ListedIsTold
  <2>2. MethodsTold'
    <3>1. \A t \in Services, m \in Methods : <<t, m>> # <<g, s>>
      OBVIOUS
    <3> QED
      BY <1>4, <2>1, <3>1 DEF MethodsTold
  <2>4. \A k \in Handles : ~ OnList(s, serviceHolder[k], service_next)
    BY <1>6, ServiceIsFree
  <2>5. ASSUME NEW k \in Handles, NEW x \in Services
        PROVE  OnList(x, serviceHolder[k], service_next)' <=> <<k, x>> \in told'
    <3>1. CASE k = g
      <4>1. OnList(x, s, service_next') <=> x = s \/ OnList(x, h, service_next)
        BY <1>1, <1>2, <1>3, OnListInFront
      <4>2. OnList(x, h, service_next) <=> <<g, x>> \in told
        BY <2>1 DEF ServicesTold, h
      <4> QED
        BY <1>4, <3>1, <4>1, <4>2 DEF OnList
    <3>2. CASE k # g
      <4>1. serviceHolder'[k] = serviceHolder[k]
        BY <1>4, <3>2
      <4>2. List(serviceHolder[k], service_next') = List(serviceHolder[k], service_next)
        BY <1>1, <1>2, <2>4, OtherListsKept
      <4>3. <<k, x>> \in told' <=> <<k, x>> \in told
        BY <1>4, <3>2
      <4> QED
        BY <2>1, <4>1, <4>2, <4>3 DEF ServicesTold, OnList
    <3> QED
      BY <3>1, <3>2
  <2> QED
    BY <2>2, <2>5 DEF ServicesTold
<1> QED
  BY <1>5, <1>6 DEF ListedIsTold

LEMMA RegistryStep ==
  ASSUME RegistryInv, [Next]_vars
  PROVE  (NoCycle /\ ListedIsTold)'
<1>1. ASSUME NEW p \in MayAdd, ng_addMethodToService(p[1], p[2])
      PROVE  (NoCycle /\ ListedIsTold)'
  BY <1>1, MethodAdded
<1>2. ASSUME NEW p \in MayRegister, ng_GrpcRegisterService(p[1], p[2])
      PROVE  (NoCycle /\ ListedIsTold)'
  BY <1>2, ServiceRegistered
<1>3. CASE UNCHANGED <<serviceHolder, service_next, service_method, method_next, told>>
  BY <1>3 DEF RegistryInv, NoCycle, ListedIsTold, ServicesTold, MethodsTold, OnOneList
<1> QED
  BY <1>1, <1>2, <1>3
  DEF Next, AlreadyThere, vars, ng_setMethodContext, ng_setMethodCallback

LEMMA RegistryInvariance == Spec => []RegistryInv
<1>1. Init /\ TypeOK => RegistryInv
  BY RegistryInit DEF RegistryInv
<1>2. RegistryInv /\ [Next]_vars /\ TypeOK' => RegistryInv'
  BY RegistryStep DEF RegistryInv
<1> QED
  BY <1>1, <1>2, RegistryTyping, PTL DEF Spec

\* Every loop over services or methods ends, whatever is put on which list in
\* whatever order: ng_GrpcRegisterService and ng_addMethodToService search only
\* the list at hand, and that is enough for an object never to come behind
\* itself.
THEOREM ListsEnd == Spec => []EveryListEnds
<1>1. RegistryInv => EveryListEnds
  BY EndsEverywhere DEF RegistryInv, TypeOK, EveryListEnds
<1> QED
  BY <1>1, RegistryInvariance, PTL

\* What was put on a list with true is on it from then on, while no object is on
\* two lists.
THEOREM StaysRegistered == Spec => []RegisteredStays
<1>1. ASSUME RegistryInv
      PROVE  RegisteredStays
  <2> SUFFICES ASSUME OnOneList
               PROVE  /\ \A p \in told \cap (Handles \X Services) :
                           OnList(p[2], serviceHolder[p[1]], service_next)
                      /\ \A p \in told \cap (Services \X Methods) :
                           OnList(p[2], service_method[p[1]], method_next)
    BY DEF RegisteredStays
  <2>1. ServicesTold /\ MethodsTold
    BY <1>1 DEF RegistryInv, ListedIsTold
  <2>2. \A A, B : \A p \in A \X B : p = <<p[1], p[2]>> /\ p[1] \in A /\ p[2] \in B
    OBVIOUS
  <2> QED
    BY <2>1, <2>2 DEF ServicesTold, MethodsTold
<1> QED
  BY <1>1, RegistryInvariance, PTL

-----------------------------------------------------------------------------
(* Finding a method                                                        *)

\* A loop over services finds a wanted method when there is one on one of the
\* handle's services, and what it finds is a wanted one.
LEMMA LookupFinds ==
  ASSUME TypeOK, NEW h \in Handles, NEW wanted
  PROVE  LET there(s, m) == /\ s \in Services /\ m \in Methods /\ <<s, m>> \in wanted
                            /\ OnList(s, serviceHolder[h], service_next)
                            /\ OnList(m, service_method[s], method_next)
         IN  /\ Lookup(h, wanted) # Null => \E s : there(s, Lookup(h, wanted))
             /\ (\E s, m : there(s, m)) => Lookup(h, wanted) # Null
<1> DEFINE services == List(serviceHolder[h], service_next)
           having == {i \in DOMAIN services : Hits(services[i], wanted) # {}}
           there(s, m) == /\ s \in Services /\ m \in Methods /\ <<s, m>> \in wanted
                          /\ OnList(s, serviceHolder[h], service_next)
                          /\ OnList(m, service_method[s], method_next)
<1>1. /\ serviceHolder[h] \in Services \cup {Null}
      /\ \A s \in Services : service_method[s] \in Methods \cup {Null}
      /\ service_next \in [Services -> Services \cup {Null}] /\ Null \notin Services
      /\ method_next \in [Methods -> Methods \cup {Null}] /\ Null \notin Methods
  BY DEF TypeOK
<1>2. /\ DOMAIN services \subseteq Nat
      /\ \A i \in DOMAIN services : services[i] \in Services
                                     /\ OnList(services[i], serviceHolder[h], service_next)
      /\ \A s : OnList(s, serviceHolder[h], service_next)
                => \E i \in DOMAIN services : services[i] = s
  BY <1>1, Listed
<1>3. ASSUME NEW s \in Services
      PROVE  /\ Hits(s, wanted) \subseteq Nat
             /\ \A k \in Hits(s, wanted) :
                  /\ MethodsOf(s)[k] \in Methods /\ <<s, MethodsOf(s)[k]>> \in wanted
                  /\ OnList(MethodsOf(s)[k], service_method[s], method_next)
             /\ \A m : OnList(m, service_method[s], method_next) /\ <<s, m>> \in wanted
                        => Hits(s, wanted) # {}
  <2>1. /\ DOMAIN MethodsOf(s) \subseteq Nat
        /\ \A k \in DOMAIN MethodsOf(s) :
              MethodsOf(s)[k] \in Methods
              /\ OnList(MethodsOf(s)[k], service_method[s], method_next)
        /\ \A m : OnList(m, service_method[s], method_next)
                  => \E k \in DOMAIN MethodsOf(s) : MethodsOf(s)[k] = m
    BY <1>1, Listed DEF MethodsOf
  <2> QED
    BY <2>1 DEF Hits
<1>4. Lookup(h, wanted) = IF having = {} THEN Null
                          ELSE MethodsOf(services[Min(having)])
                                 [Min(Hits(services[Min(having)], wanted))]
  BY DEF Lookup
<1>5. having # {} => there(services[Min(having)], Lookup(h, wanted))
  <2> SUFFICES ASSUME having # {}
               PROVE  there(services[Min(having)], Lookup(h, wanted))
    OBVIOUS
  <2>1. Min(having) \in having
    <3>1. having \subseteq Nat
      BY <1>2
    <3> HIDE DEF having
    <3> QED
      BY <3>1, MinIsLeast
  <2> HIDE DEF services
  <2>2. /\ services[Min(having)] \in Services /\ Hits(services[Min(having)], wanted) # {}
        /\ OnList(services[Min(having)], serviceHolder[h], service_next)
    BY <1>2, <2>1
  <2> HIDE DEF having
  <2>3. Min(Hits(services[Min(having)], wanted)) \in Hits(services[Min(having)], wanted)
    BY <1>3, <2>2, MinIsLeast
  <2> QED
    BY <1>3, <1>4, <2>2, <2>3
<1>6. ASSUME NEW s, NEW m, there(s, m)
      PROVE  having # {}
  <2>1. \E i \in DOMAIN services : services[i] = s
    BY <1>2, <1>6
  <2> QED
    BY <1>3, <1>6, <2>1
<1> HIDE DEF having, services
<1>7. having # {} => Lookup(h, wanted) # Null
  BY <1>1, <1>5
<1>8. having = {} => Lookup(h, wanted) = Null
  BY <1>4
<1> QED
  BY <1>5, <1>6, <1>7, <1>8

\* A method that was added to a registered service is found by its path, or one
\* of its name that was added to a service of the same name, which was registered
\* with the same handle.
THEOREM FoundByPath == Spec => []PathFindsTheMethod
<1>1. ASSUME RegistryInv
      PROVE  PathFindsTheMethod
  <2> DEFINE Found(h, s, m) ==
               LET found == getMethodByPath(h, <<"", ServiceName[s], MethodName[m]>>)
               IN  \E t \in Services :
                     /\ <<h, t>> \in told /\ ServiceName[t] = ServiceName[s]
                     /\ <<t, found>> \in told /\ MethodName[found] = MethodName[m]
  <2>0. PathFindsTheMethod
          <=> \A h \in Handles, s \in Services, m \in Methods :
                OnOneList /\ <<h, s>> \in told /\ <<s, m>> \in told => Found(h, s, m)
    BY DEF PathFindsTheMethod
  <2> HIDE DEF Found
  <2> SUFFICES ASSUME NEW h \in Handles, NEW s \in Services, NEW m \in Methods,
                      OnOneList, <<h, s>> \in told, <<s, m>> \in told
               PROVE  Found(h, s, m)
    BY <2>0
  <2> DEFINE path == <<"", ServiceName[s], MethodName[m]>>
             wanted == {p \in Services \X Methods :
                          ServiceName[p[1]] = path[2] /\ MethodName[p[2]] = path[3]}
  <2>1. /\ Len(path) = 3 /\ path[1] = "" /\ path[2] = ServiceName[s] /\ path[3] = MethodName[m]
        /\ ServiceName[s] \in Names /\ MethodName[m] \in Names
    BY NameAssumption
  <2>2. getMethodByPath(h, path) = Lookup(h, wanted)
    BY <2>1, NameAssumption DEF getMethodByPath, WellFormed
  <2>3. <<s, m>> \in wanted
    BY <2>1
  <2>4. /\ TypeOK
        /\ \A t \in Services : OnList(t, serviceHolder[h], service_next) <=> <<h, t>> \in told
        /\ \A t \in Services, x \in Methods :
             OnList(x, service_method[t], method_next) <=> <<t, x>> \in told
    BY <1>1 DEF RegistryInv, ListedIsTold, ServicesTold, MethodsTold
  <2>5. \A t, x : <<t, x>> \in wanted
                  => ServiceName[t] = ServiceName[s] /\ MethodName[x] = MethodName[m]
    BY <2>1
  <2> HIDE DEF path, wanted
  <2>6. Lookup(h, wanted) # Null
    BY <2>3, <2>4, LookupFinds
  <2>7. PICK t \in Services :
          /\ Lookup(h, wanted) \in Methods /\ <<t, Lookup(h, wanted)>> \in wanted
          /\ OnList(t, serviceHolder[h], service_next)
          /\ OnList(Lookup(h, wanted), service_method[t], method_next)
    BY <2>4, <2>6, LookupFinds
  <2> QED
    BY <2>2, <2>4, <2>5, <2>7 DEF Found, path
<1> QED
  BY <1>1, RegistryInvariance, PTL

-----------------------------------------------------------------------------
(* Which step changes the method that a request finds                      *)

\* A search in two loops: the first service that has a wanted method, and the
\* first wanted method of it.
MethodIn(s, wanted) == Foremost(MethodsOf(s), {m \in Methods : <<s, m>> \in wanted})

ServicesWith(wanted) == {t \in Services : MethodIn(t, wanted) # Null}

ServiceWith(h, wanted) ==
  Foremost(List(serviceHolder[h], service_next), ServicesWith(wanted))

LookupIsSearch ==
  \A h \in Handles, wanted \in SUBSET (Services \X Methods) :
    /\ ServiceWith(h, wanted) \in Services \cup {Null}
    /\ Lookup(h, wanted) = IF ServiceWith(h, wanted) = Null THEN Null
                           ELSE MethodIn(ServiceWith(h, wanted), wanted)

LEMMA Searching == TypeOK => LookupIsSearch
<1> SUFFICES ASSUME TypeOK, NEW h \in Handles,
                    NEW wanted \in SUBSET (Services \X Methods)
             PROVE  /\ ServiceWith(h, wanted) \in Services \cup {Null}
                    /\ Lookup(h, wanted) = IF ServiceWith(h, wanted) = Null THEN Null
                                           ELSE MethodIn(ServiceWith(h, wanted), wanted)
  BY DEF LookupIsSearch
<1> DEFINE services == List(serviceHolder[h], service_next)
           having == {i \in DOMAIN services : Hits(services[i], wanted) # {}}
<1>1. /\ Null \notin Services /\ Null \notin Methods
      /\ services \in Seq(Services)
      /\ \A s \in Services : MethodsOf(s) \in Seq(Methods)
  BY OnListAt DEF TypeOK, MethodsOf
<1>2. ASSUME NEW s \in Services
      PROVE  /\ Hits(s, wanted) = Where(MethodsOf(s), {m \in Methods : <<s, m>> \in wanted})
             /\ s \in ServicesWith(wanted) <=> Hits(s, wanted) # {}
             /\ MethodIn(s, wanted) = IF Hits(s, wanted) = {} THEN Null
                                      ELSE MethodsOf(s)[Min(Hits(s, wanted))]
  <2> DEFINE ms == {m \in Methods : <<s, m>> \in wanted}
  <2>1. MethodsOf(s) \in [1 .. Len(MethodsOf(s)) -> Methods]
    BY <1>1, LenProperties
  <2>2. Hits(s, wanted) = Where(MethodsOf(s), ms)
    BY <2>1 DEF Hits, Where
  <2>3. Foremost(MethodsOf(s), ms) = Null <=> Where(MethodsOf(s), ms) = {}
    BY <1>1, ForemostIsWanted
  <2> QED
    BY <2>2, <2>3 DEF MethodIn, ServicesWith, Foremost
<1>3. having = Where(services, ServicesWith(wanted))
  <2>1. services \in [1 .. Len(services) -> Services]
    BY <1>1, LenProperties
  <2> HIDE DEF services
  <2> QED
    BY <1>2, <2>1 DEF Where
<1>4. Lookup(h, wanted) = IF having = {} THEN Null
                          ELSE MethodsOf(services[Min(having)])
                                 [Min(Hits(services[Min(having)], wanted))]
  BY DEF Lookup
<1>5. /\ ServiceWith(h, wanted) \in Services \cup {Null}
      /\ ServiceWith(h, wanted) = Null <=> Where(services, ServicesWith(wanted)) = {}
      /\ ServiceWith(h, wanted) # Null => ServiceWith(h, wanted) \in ServicesWith(wanted)
  BY <1>1, ForemostIsWanted DEF ServiceWith
<1>6. having # {} => ServiceWith(h, wanted) = services[Min(having)]
  BY <1>3 DEF ServiceWith, Foremost
<1> HIDE DEF services, having
<1>7. CASE having = {}
  BY <1>3, <1>4, <1>5, <1>7
<1>8. CASE having # {}
  <2> DEFINE s == ServiceWith(h, wanted)
  <2>1. s = services[Min(having)] /\ s # Null /\ s \in Services /\ s \in ServicesWith(wanted)
    BY <1>1, <1>3, <1>5, <1>6, <1>8
  <2>2. Hits(s, wanted) # {} /\ MethodIn(s, wanted) = MethodsOf(s)[Min(Hits(s, wanted))]
    BY <1>2, <2>1
  <2>3. Lookup(h, wanted) = MethodsOf(s)[Min(Hits(s, wanted))]
    BY <1>4, <1>8, <2>1
  <2> QED
    BY <1>5, <2>1, <2>2, <2>3
<1> QED
  BY <1>7, <1>8

\* A method that was added to a service is what a request finds, or every request
\* finds what it found.
LEMMA LookupAfterAdding ==
  ASSUME RegistryInv, LookupIsSearch, LookupIsSearch', TypeOK',
         NEW s \in Services, NEW m \in Methods,
         ng_addMethodToService(s, m), OnOneList',
         NEW h \in Handles, NEW wanted \in SUBSET (Services \X Methods)
  PROVE  Lookup(h, wanted)' = Lookup(h, wanted) \/ Lookup(h, wanted)' = m
<1>1. /\ method_next \in [Methods -> Methods \cup {Null}]
      /\ \A t \in Services : service_method[t] \in Methods \cup {Null}
      /\ service_next \in [Services -> Services \cup {Null}]
      /\ serviceHolder[h] \in Services \cup {Null}
      /\ Null \notin Methods /\ Null \notin Services
  BY DEF RegistryInv, TypeOK
<1>2. /\ UNCHANGED <<serviceHolder, service_next>>
      /\ service_method'[s] = m
      /\ \A t \in Services \ {s} : service_method'[t] = service_method[t]
  BY DEF ng_addMethodToService, RegistryInv, TypeOK
<1>3. PointsTo(m, service_method[s], method_next, method_next', Methods)
  BY <1>1, SetPointer DEF ng_addMethodToService
<1>4. \A t \in Services : ~ OnList(m, service_method[t], method_next)
  BY MethodIsFree
<1>5. ASSUME NEW t \in Services
      PROVE  MethodsOf(t) \in Seq(Methods)
  BY <1>1, OnListAt DEF MethodsOf
<1>6. MethodIn(s, wanted)' = IF <<s, m>> \in wanted THEN m ELSE MethodIn(s, wanted)
  <2>1. ListEnds(service_method[s], method_next)
    BY <1>1, EndsEverywhere DEF RegistryInv
  <2>2. List(m, method_next') = <<m>> \o List(service_method[s], method_next)
    BY <1>1, <1>3, <1>4, <2>1, PutInFront
  <2>3. MethodsOf(s)' = <<m>> \o MethodsOf(s)
    BY <1>2, <2>2 DEF MethodsOf
  <2> DEFINE ms == {x \in Methods : <<s, x>> \in wanted}
  <2>4. Foremost(<<m>> \o MethodsOf(s), ms)
          = IF m \in ms THEN m ELSE Foremost(MethodsOf(s), ms)
    BY <1>1, <1>5, ForemostInFront
  <2> QED
    BY <2>3, <2>4 DEF MethodIn
<1>7. ASSUME NEW t \in Services, t # s
      PROVE  MethodIn(t, wanted)' = MethodIn(t, wanted)
  <2>1. List(service_method[t], method_next') = List(service_method[t], method_next)
    BY <1>1, <1>3, <1>4, OtherListsKept
  <2> QED
    BY <1>2, <1>7, <2>1 DEF MethodIn, MethodsOf
<1>8. List(serviceHolder[h], service_next)' = List(serviceHolder[h], service_next)
  BY <1>2
<1>9. /\ ServiceWith(h, wanted) \in Services \cup {Null}
      /\ Lookup(h, wanted) = IF ServiceWith(h, wanted) = Null THEN Null
                             ELSE MethodIn(ServiceWith(h, wanted), wanted)
      /\ Lookup(h, wanted)' = IF ServiceWith(h, wanted)' = Null THEN Null
                              ELSE MethodIn(ServiceWith(h, wanted), wanted)'
  BY DEF LookupIsSearch
<1> DEFINE before == ServiceWith(h, wanted)
<1>10. CASE <<s, m>> \notin wanted
  <2>1. \A t \in Services : MethodIn(t, wanted)' = MethodIn(t, wanted)
    BY <1>6, <1>7, <1>10
  <2>2. ServicesWith(wanted)' = ServicesWith(wanted)
    BY <2>1 DEF ServicesWith
  <2>3. before' = before
    BY <1>8, <2>2 DEF ServiceWith
  <2> QED
    BY <1>9, <2>1, <2>3 DEF MethodIn, MethodsOf
<1>11. CASE <<s, m>> \in wanted
  <2>1. \A t \in Services : t \in ServicesWith(wanted)'
                            <=> t \in ServicesWith(wanted) \/ t = s
    BY <1>1, <1>6, <1>7, <1>11 DEF ServicesWith
  <2>2. List(serviceHolder[h], service_next) \in Seq(Services)
    BY <1>1, OnListAt
  <2>3. before' = s \/ before' = before
    <3>1. PICK L, less, more : /\ L = List(serviceHolder[h], service_next)
                               /\ less = ServicesWith(wanted)
                               /\ more = ServicesWith(wanted)'
      OBVIOUS
    <3>2. before = Foremost(L, less) /\ before' = Foremost(L, more)
      BY <1>8, <3>1 DEF ServiceWith
    <3>3. L \in Seq(Services)
      BY <2>2, <3>1
    <3>4. \A y \in Services : y \in more <=> y \in less \/ y = s
      BY <2>1, <3>1
    <3>5. Null \notin Services
      BY <1>1
    <3> HIDE DEF before
    <3>6. Foremost(L, more) = s \/ Foremost(L, more) = Foremost(L, less)
      BY <3>3, <3>4, <3>5, ForemostWanted
    <3> QED
      BY <3>2, <3>6
  <2>4. CASE before' = s
    BY <1>1, <1>6, <1>9, <1>11, <2>4 DEF MethodIn, MethodsOf
  <2>5. CASE before' = before /\ before # s
    BY <1>7, <1>9, <2>5 DEF MethodIn, MethodsOf
  <2> QED
    BY <2>3, <2>4, <2>5
<1> QED
  BY <1>10, <1>11

\* A service that was registered has what a request finds, or every request finds
\* what it found.
LEMMA LookupAfterRegistering ==
  ASSUME RegistryInv, LookupIsSearch, LookupIsSearch', TypeOK',
         NEW g \in Handles, NEW s \in Services,
         ng_GrpcRegisterService(g, s), OnOneList',
         NEW h \in Handles, NEW wanted \in SUBSET (Services \X Methods)
  PROVE  \/ Lookup(h, wanted)' = Lookup(h, wanted)
         \/ /\ Lookup(h, wanted)' # Null /\ h = g
            /\ OnList(Lookup(h, wanted)', service_method'[s], method_next')
<1>1. /\ method_next \in [Methods -> Methods \cup {Null}]
      /\ \A t \in Services : service_method[t] \in Methods \cup {Null}
      /\ service_next \in [Services -> Services \cup {Null}]
      /\ \A k \in Handles : serviceHolder[k] \in Services \cup {Null}
      /\ Null \notin Methods /\ Null \notin Services
  BY DEF RegistryInv, TypeOK
<1>2. /\ UNCHANGED <<service_method, method_next>>
      /\ serviceHolder'[g] = s
      /\ \A k \in Handles \ {g} : serviceHolder'[k] = serviceHolder[k]
  BY DEF ng_GrpcRegisterService, RegistryInv, TypeOK
<1>3. PointsTo(s, serviceHolder[g], service_next, service_next', Services)
  BY <1>1, SetPointer DEF ng_GrpcRegisterService
<1>4. \A k \in Handles : ~ OnList(s, serviceHolder[k], service_next)
  BY ServiceIsFree
<1>5. \A t : MethodIn(t, wanted)' = MethodIn(t, wanted)
  BY <1>2 DEF MethodIn, MethodsOf
<1>6. ServicesWith(wanted)' = ServicesWith(wanted)
  BY <1>5 DEF ServicesWith
<1>7. /\ ServiceWith(h, wanted) \in Services \cup {Null}
      /\ Lookup(h, wanted) = IF ServiceWith(h, wanted) = Null THEN Null
                             ELSE MethodIn(ServiceWith(h, wanted), wanted)
      /\ Lookup(h, wanted)' = IF ServiceWith(h, wanted)' = Null THEN Null
                              ELSE MethodIn(ServiceWith(h, wanted)', wanted)
  <2>1. Lookup(h, wanted)' = IF ServiceWith(h, wanted)' = Null THEN Null
                             ELSE MethodIn(ServiceWith(h, wanted), wanted)'
    BY DEF LookupIsSearch
  <2>2. MethodIn(ServiceWith(h, wanted), wanted)' = MethodIn(ServiceWith(h, wanted)', wanted)
    BY <1>2 DEF MethodIn, MethodsOf
  <2> QED
    BY <2>1, <2>2 DEF LookupIsSearch
<1>8. CASE ServiceWith(h, wanted)' = ServiceWith(h, wanted)
  BY <1>7, <1>8
<1>9. CASE h # g
  <2>1. List(serviceHolder[h], service_next') = List(serviceHolder[h], service_next)
    BY <1>1, <1>3, <1>4, OtherListsKept
  <2>2. ServiceWith(h, wanted)' = ServiceWith(h, wanted)
    BY <1>2, <1>6, <1>9, <2>1 DEF ServiceWith
  <2> QED
    BY <1>8, <2>2
<1>10. CASE h = g /\ ServiceWith(h, wanted)' # ServiceWith(h, wanted)
  <2> DEFINE L == List(serviceHolder[g], service_next)
  <2>1. ListEnds(serviceHolder[g], service_next) /\ L \in Seq(Services)
    BY <1>1, EndsEverywhere, OnListAt DEF RegistryInv
  <2>2. List(s, service_next') = <<s>> \o L
    BY <1>1, <1>3, <1>4, <2>1, PutInFront
  <2>3. Foremost(<<s>> \o L, ServicesWith(wanted))
          = IF s \in ServicesWith(wanted) THEN s ELSE Foremost(L, ServicesWith(wanted))
    BY <1>1, <2>1, ForemostInFront
  <2>4. ServiceWith(h, wanted)' = Foremost(<<s>> \o L, ServicesWith(wanted))
    BY <1>2, <1>6, <1>10, <2>2 DEF ServiceWith
  <2>5. ServiceWith(h, wanted) = Foremost(L, ServicesWith(wanted))
    BY <1>10 DEF ServiceWith
  <2>6. ServiceWith(h, wanted)' = s /\ s \in ServicesWith(wanted)
    BY <1>10, <2>3, <2>4, <2>5
  <2>7. Lookup(h, wanted)' = MethodIn(s, wanted) /\ MethodIn(s, wanted) # Null
    BY <1>1, <1>7, <2>6 DEF ServicesWith
  <2>8. OnList(MethodIn(s, wanted), service_method[s], method_next)
    <3> DEFINE ms == {x \in Methods : <<s, x>> \in wanted}
               M == List(service_method[s], method_next)
    <3>1. M \in Seq(Methods) /\ Where(M, ms) \subseteq DOMAIN M /\ DOMAIN M \subseteq Nat
      BY <1>1, OnListAt, Listed DEF Where
    <3>2. MethodIn(s, wanted) = Foremost(M, ms)
      BY DEF MethodIn, MethodsOf
    <3> HIDE DEF ms
    <3>3. Where(M, ms) # {} /\ MethodIn(s, wanted) = M[Min(Where(M, ms))]
      BY <2>7, <3>2 DEF Foremost
    <3>4. Min(Where(M, ms)) \in DOMAIN M
      BY <3>1, <3>3, MinIsLeast
    <3> QED
      BY <1>1, <3>3, <3>4, Listed
  <2> QED
    BY <1>2, <1>10, <2>7, <2>8
<1> QED
  BY <1>8, <1>9, <1>10

\* A request is sent to another method than before only because that method, or a
\* service that has it, was put on a list by this very step; no registration and
\* nothing else changes who answers the other requests.
THEOREM Redirection == Spec => RedirectedOnlyToNew
<1> DEFINE Due(h, before, after) ==
             before # Null /\ after # before
               => \E p \in told' \ told :
                    \/ p[2] = after
                    \/ p[1] = h /\ OnList(after, service_method'[p[2]], method_next')
           Step(h, wanted) ==
             \/ Lookup(h, wanted)' = Lookup(h, wanted)
             \/ /\ Lookup(h, wanted)' # Null
                /\ \E p \in told' \ told :
                     \/ p[2] = Lookup(h, wanted)'
                     \/ /\ p[1] = h
                        /\ OnList(Lookup(h, wanted)', service_method'[p[2]], method_next')
<1>1. ASSUME RegistryInv, LookupIsSearch, LookupIsSearch', TypeOK', [Next]_vars, OnOneList',
             NEW h \in Handles, NEW wanted \in SUBSET (Services \X Methods)
      PROVE  Step(h, wanted)
  <2>1. ASSUME NEW q \in MayAdd, ng_addMethodToService(q[1], q[2])
        PROVE  Step(h, wanted)
    <3> DEFINE s == q[1]
               m == q[2]
    <3>1. s \in Services /\ m \in Methods /\ ng_addMethodToService(s, m)
      BY <2>1
    <3> HIDE DEF s, m
    <3>2. <<s, m>> \in told' \ told
      BY <1>1, <3>1, MethodIsFree DEF ng_addMethodToService
    <3>3. Lookup(h, wanted)' = Lookup(h, wanted) \/ Lookup(h, wanted)' = m
      BY <1>1, <3>1, LookupAfterAdding
    <3>4. <<s, m>>[2] = m /\ m # Null
      BY <3>1
    <3> QED
      BY <3>2, <3>3, <3>4, Zenon
  <2>2. ASSUME NEW q \in MayRegister, ng_GrpcRegisterService(q[1], q[2])
        PROVE  Step(h, wanted)
    <3> DEFINE g == q[1]
               s == q[2]
    <3>1. g \in Handles /\ s \in Services /\ ng_GrpcRegisterService(g, s)
      BY <2>2
    <3> HIDE DEF g, s
    <3>2. <<g, s>> \in told' \ told
      BY <1>1, <3>1, ServiceIsFree DEF ng_GrpcRegisterService
    <3>3. \/ Lookup(h, wanted)' = Lookup(h, wanted)
          \/ /\ Lookup(h, wanted)' # Null /\ h = g
             /\ OnList(Lookup(h, wanted)', service_method'[s], method_next')
      BY <1>1, <3>1, LookupAfterRegistering
    <3>4. <<g, s>>[1] = g /\ <<g, s>>[2] = s
      OBVIOUS
    <3> QED
      BY <3>2, <3>3, <3>4, Zenon
  <2>3. CASE UNCHANGED <<serviceHolder, service_next, service_method, method_next>>
    BY <2>3 DEF Lookup, Hits, MethodsOf
  <2> QED
    BY <1>1, <2>1, <2>2, <2>3
    DEF Next, AlreadyThere, vars, ng_setMethodContext, ng_setMethodCallback
<1>2. ASSUME RegistryInv, LookupIsSearch, LookupIsSearch', TypeOK', [Next]_vars, OnOneList',
             NEW h \in Handles, NEW hash \in Hashes,
             NEW svc \in Range(ServiceName), NEW mth \in Range(MethodName)
      PROVE  Due(h, FindMethod(h, hash, <<"", svc, mth>>),
                    FindMethod(h, hash, <<"", svc, mth>>)')
  <2> DEFINE path == <<"", svc, mth>>
             hashed == {p \in Services \X Methods : NameHash[p[2]] = hash}
             named == {p \in Services \X Methods :
                         ServiceName[p[1]] = path[2] /\ MethodName[p[2]] = path[3]}
             byHash == IF hash # 0 THEN Lookup(h, hashed) ELSE Null
             byPath == IF WellFormed(path) THEN Lookup(h, named) ELSE Null
  <2>1. Step(h, hashed) /\ Step(h, named)
    BY <1>1, <1>2
  <2>2. path # <<>>
    OBVIOUS
  <2>3. /\ FindMethod(h, hash, path) = IF byHash = Null THEN byPath ELSE byHash
        /\ FindMethod(h, hash, path)' = IF byHash' = Null THEN byPath' ELSE byHash'
    BY <2>2 DEF FindMethod, getMethodByHash, getMethodByPath
  <2>4. CASE byHash' = byHash
    <3>1. CASE byHash # Null
      BY <2>3, <2>4, <3>1
    <3>2. CASE byHash = Null
      <4>1. FindMethod(h, hash, path) = byPath /\ FindMethod(h, hash, path)' = byPath'
        BY <2>3, <2>4, <3>2
      <4> QED
        BY <2>1, <4>1
    <3> QED
      BY <3>1, <3>2
  <2>5. CASE byHash' # byHash
    <3>1. byHash' = Lookup(h, hashed)' /\ byHash = Lookup(h, hashed)
      BY <2>5
    <3>2. byHash' # Null
      BY <2>1, <2>5, <3>1
    <3>3. FindMethod(h, hash, path)' = Lookup(h, hashed)'
      BY <2>3, <3>1, <3>2
    <3> QED
      BY <2>1, <2>5, <3>1, <3>3
  <2> QED
    BY <2>4, <2>5
<1>3. RegistryInv /\ LookupIsSearch /\ LookupIsSearch' /\ TypeOK' /\ [Next]_vars
        => [OnOneList' => \A h \in Handles, hash \in Hashes,
              svc \in Range(ServiceName), mth \in Range(MethodName) :
                LET path   == <<"", svc, mth>>
                    before == FindMethod(h, hash, path)
                    after  == FindMethod(h, hash, path)'
                IN  before # Null /\ after # before
                      => \E p \in told' \ told :
                           \/ p[2] = after
                           \/ /\ p[1] = h
                              /\ OnList(after, service_method'[p[2]], method_next') ]_vars
  BY <1>2
<1>4. RegistryInv => TypeOK /\ LookupIsSearch
  BY Searching DEF RegistryInv
<1> QED
  BY <1>3, <1>4, RegistryInvariance, PTL DEF Spec, RedirectedOnlyToNew
=============================================================================
