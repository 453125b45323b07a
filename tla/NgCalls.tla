------------------------------- MODULE NgCalls -------------------------------
(***************************************************************************)
(* The calls holder of a nanogrpc handle: the array in which the           *)
(* non-blocking server remembers which calls are ongoing, and the four     *)
(* functions of ng_server.c that search and change it.  A slot whose       *)
(* call_id is zero is free; there is no other mark.                        *)
(*                                                                         *)
(* The operators take the array as an argument (t) and return the array    *)
(* the C function leaves behind, so that a handler that calls several of   *)
(* them is their composition.                                              *)
(***************************************************************************)
EXTENDS Integers, FiniteSetsExt

CONSTANTS
  callsHolderSize,  \* number of slots the user gave the handle; 0 also
                    \* stands for callsHolder == NULL
  Ids,              \* the call ids a client can choose, zero excepted
  ZeroId,           \* call id 0
  Contexts,         \* the ng_methodContext_t objects of the program
  NoContext         \* the NULL context pointer

ASSUME SizeAssumption == callsHolderSize \in Nat
ASSUME IdAssumption == ZeroId \notin Ids
ASSUME ContextAssumption == NoContext \notin Contexts

AnyId == Ids \cup {ZeroId}
AnyContext == Contexts \cup {NoContext}

Slots == 0 .. callsHolderSize - 1
Call == [call_id : AnyId, context : AnyContext]
CallsHolder == [Slots -> Call]

FreeCall == [call_id |-> ZeroId, context |-> NoContext]

(***************************************************************************)
(* The loops look at the slots in index order and stop at the first one    *)
(* with the id they look for: zero to find a free slot.                    *)
(***************************************************************************)
SlotsWith(t, id) == {i \in Slots : t[i].call_id = id}
FirstSlotWith(t, id) == Min(SlotsWith(t, id))

\* Does ng_registerCall return true?
CanRegister(t) == SlotsWith(t, ZeroId) # {}

\* Faulty variants: slots counted from one; the context forgotten.
ng_registerCall_fromOne(t, c, id) ==
  LET free == Min({i \in 1 .. callsHolderSize :
                     i \notin Slots \/ t[i].call_id = ZeroId})
  IN  [i \in Slots \cup {free} |->
         IF i = free THEN [call_id |-> id, context |-> c] ELSE t[i]]

ng_registerCall_noContext(t, c, id) ==
  IF CanRegister(t)
  THEN [t EXCEPT ![FirstSlotWith(t, ZeroId)] = [FreeCall EXCEPT !.call_id = id]]
  ELSE t

ng_registerCall(t, c, id) ==
  IF CanRegister(t)
  THEN [t EXCEPT ![FirstSlotWith(t, ZeroId)] = [call_id |-> id, context |-> c]]
  ELSE t

\* Faulty variants: the last slot is cleared when none has the id; the mark of
\* the slot stays.
ng_removeCall_anyway(t, id) ==
  [t EXCEPT ![IF SlotsWith(t, id) # {} THEN FirstSlotWith(t, id)
              ELSE callsHolderSize - 1] = FreeCall]

ng_removeCall_contextOnly(t, id) ==
  IF id # ZeroId /\ SlotsWith(t, id) # {}
  THEN [t EXCEPT ![FirstSlotWith(t, id)].context = NoContext]
  ELSE t

ng_removeCall(t, id) ==
  IF id # ZeroId /\ SlotsWith(t, id) # {}
  THEN [t EXCEPT ![FirstSlotWith(t, id)] = FreeCall]
  ELSE t

ng_isCallOngoing(t, id) == id # ZeroId /\ SlotsWith(t, id) # {}

ng_isContextUsedByOngoingCall(t, c) ==
  /\ c # NoContext
  /\ \E i \in Slots : t[i].call_id # ZeroId /\ t[i].context = c
=============================================================================
