---------------------------- MODULE NgCallsProofs ----------------------------
(***************************************************************************)
(* What the operations on the calls holder do, for a calls holder of any   *)
(* size.  The proofs about the server cite these lemmas and never expand   *)
(* the definitions of NgCalls.                                             *)
(***************************************************************************)
EXTENDS NgCalls, TLAPS, WellFoundedInduction

\* A set of slots that is not empty has a first one: the loops of the C code
\* that stop at the first match are well defined.
LEMMA LeastElement ==
  ASSUME NEW S \in SUBSET Nat, S # {}
  PROVE  \E n \in S : \A j \in S : n <= j
<1> DEFINE R == OpToRel(<, Nat)
           Q == {ss \in Nat \X Nat : ss[1] < ss[2]}
<1>1. IsWellFoundedOn(R, Nat)
  BY NatLessThanWellFounded
<1>2. R = Q
  BY Zenon DEF OpToRel
<1> HIDE DEF R, Q
<1>3. IsWellFoundedOn(Q, Nat)
  BY <1>1, <1>2
<1>4. PICK n \in S : \A y \in S : ~ (<<y, n>> \in Q)
  BY <1>3, WFMin
<1>5. \A j \in S : n <= j
  <2>1. SUFFICES ASSUME NEW j \in S, ~ (n <= j)
                 PROVE  FALSE
    OBVIOUS
  <2>2. j \in Nat /\ n \in Nat /\ j < n
    BY <2>1
  <2>3. <<j, n>> \in Nat \X Nat /\ <<j, n>>[1] < <<j, n>>[2]
    BY <2>2
  <2>4. <<j, n>> \in Q
    BY <2>3, Zenon DEF Q
  <2> QED
    BY <2>4, <1>4
<1> QED
  BY <1>5

\* The slot a search of the calls holder stops at has the id searched for.
LEMMA FirstSlot ==
  ASSUME NEW t \in CallsHolder, NEW id \in AnyId, SlotsWith(t, id) # {}
  PROVE  FirstSlotWith(t, id) \in Slots /\ t[FirstSlotWith(t, id)].call_id = id
<1> DEFINE S == SlotsWith(t, id)
<1>1. S \in SUBSET Nat
  BY SizeAssumption DEF SlotsWith, Slots
<1>2. \E n \in S : \A j \in S : n <= j
  <2> HIDE DEF S
  <2> QED
    BY <1>1, LeastElement DEF S
<1>3. FirstSlotWith(t, id) \in S
  BY <1>2 DEF FirstSlotWith, Min
<1> QED
  BY <1>3 DEF SlotsWith

\* The free slot is in the set of calls.
LEMMA FreeCallType == FreeCall \in Call
BY DEF FreeCall, Call, AnyId, AnyContext

\* A call that is registered takes one free slot and changes no other.
LEMMA Register ==
  ASSUME NEW t \in CallsHolder, NEW c \in Contexts, NEW id \in AnyId,
         CanRegister(t)
  PROVE  \E k \in Slots :
           /\ t[k].call_id = ZeroId
           /\ ng_registerCall(t, c, id)
                = [t EXCEPT ![k] = [call_id |-> id, context |-> c]]
           /\ ng_registerCall(t, c, id) \in CallsHolder
<1> DEFINE k == FirstSlotWith(t, ZeroId)
<1>1. k \in Slots /\ t[k].call_id = ZeroId
  BY FirstSlot DEF CanRegister, AnyId
<1>2. [call_id |-> id, context |-> c] \in Call
  BY DEF Call, AnyContext
<1>3. ng_registerCall(t, c, id) = [t EXCEPT ![k] = [call_id |-> id, context |-> c]]
  BY DEF ng_registerCall
<1> HIDE DEF k
<1>4. ng_registerCall(t, c, id) \in CallsHolder
  BY <1>2, <1>3 DEF CallsHolder
<1> QED
  BY <1>1, <1>3, <1>4

\* A removal frees at most one slot, one that has the id, and changes no other.
LEMMA Remove ==
  ASSUME NEW t \in CallsHolder, NEW id \in AnyId
  PROVE  /\ ng_removeCall(t, id) \in CallsHolder
         /\ \/ ng_removeCall(t, id) = t /\ ~ ng_isCallOngoing(t, id)
            \/ \E k \in Slots :
                 /\ id # ZeroId
                 /\ t[k].call_id = id
                 /\ ng_removeCall(t, id) = [t EXCEPT ![k] = FreeCall]
<1> DEFINE k == FirstSlotWith(t, id)
<1>1. CASE ng_isCallOngoing(t, id)
  <2>1. k \in Slots /\ t[k].call_id = id
    BY <1>1, FirstSlot DEF ng_isCallOngoing
  <2>2. ng_removeCall(t, id) = [t EXCEPT ![k] = FreeCall] /\ id # ZeroId
    BY <1>1 DEF ng_isCallOngoing, ng_removeCall
  <2> HIDE DEF k
  <2>3. [t EXCEPT ![k] = FreeCall] \in CallsHolder
    BY FreeCallType DEF CallsHolder
  <2> QED
    BY <2>1, <2>2, <2>3
<1>2. CASE ~ ng_isCallOngoing(t, id)
  BY <1>2 DEF ng_isCallOngoing, ng_removeCall
<1> QED
  BY <1>1, <1>2

\* No id is in the calls holder twice.
Distinct(t) ==
  \A i, j \in Slots :
    t[i].call_id # ZeroId /\ t[i].call_id = t[j].call_id => i = j

\* While no id is there twice, a removal leaves every other call in its place
\* and none with the id.
LEMMA RemoveDistinct ==
  ASSUME NEW t \in CallsHolder, NEW id \in AnyId, Distinct(t)
  PROVE  \A i \in Slots :
           ng_removeCall(t, id)[i] = IF id # ZeroId /\ t[i].call_id = id
                                     THEN FreeCall ELSE t[i]
<1> SUFFICES ASSUME NEW i \in Slots
             PROVE  ng_removeCall(t, id)[i] = IF id # ZeroId /\ t[i].call_id = id
                                              THEN FreeCall ELSE t[i]
  OBVIOUS
<1>1. CASE ng_removeCall(t, id) = t /\ ~ ng_isCallOngoing(t, id)
  BY <1>1 DEF ng_isCallOngoing, SlotsWith
<1>2. ASSUME NEW k \in Slots,
             id # ZeroId, t[k].call_id = id,
             ng_removeCall(t, id) = [t EXCEPT ![k] = FreeCall]
      PROVE  ng_removeCall(t, id)[i] = IF id # ZeroId /\ t[i].call_id = id
                                       THEN FreeCall ELSE t[i]
  BY <1>2 DEF Distinct, CallsHolder
<1> QED
  BY <1>1, <1>2, Remove

(***************************************************************************)
(* What matters of the calls holder: the calls in it, whatever slots they  *)
(* are in.                                                                 *)
(***************************************************************************)
Calls(t) == {t[i] : i \in {j \in Slots : t[j].call_id # ZeroId}}

\* What the two searches for a call tell.
LEMMA OngoingCalls ==
  ASSUME NEW t \in CallsHolder
  PROVE  /\ \A id \in AnyId :
              ng_isCallOngoing(t, id) <=> \E call \in Calls(t) : call.call_id = id
         /\ \A c \in Contexts :
              ng_isContextUsedByOngoingCall(t, c)
                <=> \E call \in Calls(t) : call.context = c
<1>1. ASSUME NEW id \in AnyId
      PROVE  ng_isCallOngoing(t, id) <=> \E call \in Calls(t) : call.call_id = id
  BY DEF ng_isCallOngoing, SlotsWith, Calls
<1>2. ASSUME NEW c \in Contexts
      PROVE  ng_isContextUsedByOngoingCall(t, c)
               <=> \E call \in Calls(t) : call.context = c
  BY ContextAssumption DEF ng_isContextUsedByOngoingCall, Calls
<1> QED
  BY <1>1, <1>2

\* A registration adds a call, unless its id is zero.
LEMMA RegisterCalls ==
  ASSUME NEW t \in CallsHolder, NEW c \in Contexts, NEW id \in AnyId,
         CanRegister(t)
  PROVE  Calls(ng_registerCall(t, c, id))
           = Calls(t) \cup (IF id = ZeroId THEN {}
                            ELSE {[call_id |-> id, context |-> c]})
<1> DEFINE new == [call_id |-> id, context |-> c]
<1>1. PICK k \in Slots : /\ t[k].call_id = ZeroId
                         /\ ng_registerCall(t, c, id) = [t EXCEPT ![k] = new]
  BY Register
<1> DEFINE r == ng_registerCall(t, c, id)
<1>2. r[k] = new /\ \A i \in Slots \ {k} : r[i] = t[i]
  BY <1>1 DEF CallsHolder
<1> HIDE DEF r
<1>3. Calls(r) = Calls(t) \cup (IF id = ZeroId THEN {} ELSE {new})
  BY <1>1, <1>2 DEF Calls
<1> QED
  BY <1>3 DEF r

\* While no id is there twice, a removal takes the calls with that id away.
LEMMA RemoveCalls ==
  ASSUME NEW t \in CallsHolder, NEW id \in AnyId, Distinct(t)
  PROVE  Calls(ng_removeCall(t, id)) = {call \in Calls(t) : call.call_id # id}
<1> DEFINE r == ng_removeCall(t, id)
<1>1. \A i \in Slots : r[i] = IF id # ZeroId /\ t[i].call_id = id
                              THEN FreeCall ELSE t[i]
  BY RemoveDistinct
<1> HIDE DEF r
<1>2. Calls(r) = {call \in Calls(t) : call.call_id # id}
  BY <1>1 DEF Calls, FreeCall
<1> QED
  BY <1>2 DEF r
=============================================================================
