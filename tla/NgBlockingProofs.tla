-------------------------- MODULE NgBlockingProofs --------------------------
(***************************************************************************)
(* Theorems about blocking parsing, for any methods and any listing: what  *)
(* a call allocates, writes and returns, and that it is an NgAnswer as far *)
(* as safety goes.  That it comes to an end is left to the model checker.  *)
(***************************************************************************)
EXTENDS NgBlocking, TLAPS

USE MethodAssumption, LengthAssumption

(***************************************************************************)
(* Where the function is tells what it has done.  The properties speak     *)
(* about its return; this is what makes them come true there.              *)
(***************************************************************************)
Before == {"decode", "find", "payload", "callback", "size"}

\* How often the data may have been encoded
PassesInv ==
  /\ pc \in Before => passes = 0
  /\ pc = "encode" => passes <= 1
  /\ pc = "data" => passes <= 2

\* Nothing is written, and nothing cleaned up, before the response is encoded;
\* then one thing is written and ret says which.
WrittenInv ==
  /\ pc \in Before \cup {"encode", "data"}
       => line = "nothing" /\ ret /\ ~ cleaned
  /\ pc \in {"cleanup", "release"}
       => line # "nothing" /\ (ret <=> line = "whole")

\* The holders of a context are filled only for a method that has one.
HeldInv ==
  /\ pc \in {"idle", "decode"} => held = {}
  /\ pc \in {"find", "payload"} => held = {"request"}
  /\ held # {} /\ held # {"request"} => method \in Servable
  /\ pc \in {"callback", "size"} => "ctx.request" \in held

\* There is data only of a request that was decoded.
DataInv ==
  /\ pc \in Before => ~ hasData
  /\ pc = "data" => hasData
  /\ pc \in {"encode", "data"} /\ hasData => "ctx.request" \in held

BlockingInv == TypeOK /\ PassesInv /\ WrittenInv /\ HeldInv /\ DataInv

\* The arithmetic of passes and lengths
LEMMA Counting ==
  /\ 0 \in 0 .. 3 /\ 0 \in Lengths
  /\ \A n \in 0 .. 3 : (n <= 2 => n + 1 \in 0 .. 3) /\ ~ (n > n) /\ ~ (0 > n)
BY DEF Lengths

LEMMA InitBlocking == Init => BlockingInv
<1> SUFFICES ASSUME Init PROVE BlockingInv
  OBVIOUS
<1>1. TypeOK
  <2>1. hasData \in BOOLEAN /\ cleaned \in BOOLEAN /\ ret \in BOOLEAN
    BY Zenon DEF Init
  <2>2. 0 \in Lengths /\ 0 \in 0 .. 3
    BY DEF Lengths
  <2> QED
    BY <2>1, <2>2 DEF Init, TypeOK
<1>2. PassesInv
  BY DEF Init, PassesInv, Before
<1>3. WrittenInv /\ HeldInv /\ DataInv
  BY DEF Init, WrittenInv, HeldInv, DataInv, Before
<1> QED
  BY <1>1, <1>2, <1>3 DEF BlockingInv

\* The function is called, and decodes what it was called for.
LEMMA EntryBlocking ==
  ASSUME BlockingInv,
         \/ Call \/ Undecodable \/ Decode \/ NotFound
         \/ \E m \in Methods : Find(m)
         \/ Unimplemented \/ BadPayload \/ DecodePayload
  PROVE  BlockingInv'
<1> USE DEF BlockingInv, TypeOK, PassesInv, WrittenInv, HeldInv, DataInv, Before,
            Goto, Fail
<1>1. CASE Call
  <2>1. TypeOK'
    <3>1. hasData' \in BOOLEAN /\ ret' \in BOOLEAN
      BY <1>1 DEF Call, Lengths
    <3>2. cleaned' \in BOOLEAN
      BY <1>1, Zenon DEF Call
    <3>3. passes' \in 0 .. 3
      BY <1>1, Counting, Zenon DEF Call
    <3>4. declared' \in Lengths /\ listing' \in Lengths
      BY <1>1, Counting, Zenon DEF Call
    <3> QED
      BY <1>1, <3>1, <3>2, <3>3, <3>4 DEF Call
  <2>2. PassesInv'
    BY <1>1 DEF Call, Lengths
  <2>3. WrittenInv'
    BY <1>1 DEF Call, Lengths
  <2>4. HeldInv'
    BY <1>1 DEF Call, Lengths
  <2>5. DataInv'
    BY <1>1 DEF Call, Lengths
  <2> QED
    BY <2>1, <2>2, <2>3, <2>4, <2>5
<1>2. CASE Undecodable
  BY <1>2 DEF Undecodable
<1>3. CASE Decode
  BY <1>3 DEF Decode
<1>4. CASE NotFound
  BY <1>4 DEF NotFound
<1>5. ASSUME NEW m \in Methods, Find(m)
      PROVE  BlockingInv'
  <2>1. TypeOK'
    BY <1>5 DEF Find
  <2>2. PassesInv'
    BY <1>5 DEF Find
  <2>3. WrittenInv'
    BY <1>5 DEF Find
  <2>4. HeldInv'
    BY <1>5 DEF Find
  <2>5. DataInv'
    BY <1>5 DEF Find
  <2> QED
    BY <2>1, <2>2, <2>3, <2>4, <2>5
<1>6. CASE Unimplemented
  BY <1>6 DEF Unimplemented
<1>7. CASE BadPayload
  BY <1>7 DEF BadPayload
<1>8. CASE DecodePayload
  BY <1>8 DEF DecodePayload
<1> QED
  BY <1>1, <1>2, <1>3, <1>4, <1>5, <1>6, <1>7, <1>8

\* The callback is called, and its response encoded.
LEMMA AnswerBlocking ==
  ASSUME BlockingInv,
         \/ \E s \in CallbackStatus : CallbackNotOk(s)
         \/ CallbackOk
         \/ \E valid \in BOOLEAN : Size(valid)
         \/ EncodeFails \/ EncodeHead \/ EncodeData \/ EncodeDataFails
  PROVE  BlockingInv'
<1> USE DEF BlockingInv, TypeOK, PassesInv, WrittenInv, HeldInv, DataInv, Before,
            Goto, Fail, Broken
<1>1. ASSUME NEW s \in CallbackStatus, CallbackNotOk(s)
      PROVE  BlockingInv'
  BY <1>1 DEF CallbackNotOk
<1>2. CASE CallbackOk
  BY <1>2 DEF CallbackOk
<1>3. ASSUME NEW valid \in BOOLEAN, Size(valid)
      PROVE  BlockingInv'
  BY <1>3 DEF Size
<1>4. CASE EncodeFails
  BY <1>4 DEF EncodeFails
<1>5. CASE EncodeHead
  <2>1. TypeOK'
    <3>1. hasData' \in BOOLEAN /\ ret' \in BOOLEAN
      BY <1>5 DEF EncodeHead
    <3>2. cleaned' \in BOOLEAN
      BY <1>5 DEF EncodeHead
    <3>3. passes' \in 0 .. 3
      BY <1>5 DEF EncodeHead
    <3>4. declared' \in Lengths /\ listing' \in Lengths
      BY <1>5 DEF EncodeHead
    <3> QED
      BY <1>5, <3>1, <3>2, <3>3, <3>4 DEF EncodeHead
  <2>2. PassesInv'
    BY <1>5 DEF EncodeHead
  <2>3. WrittenInv'
    BY <1>5 DEF EncodeHead
  <2>4. HeldInv'
    BY <1>5 DEF EncodeHead
  <2>5. DataInv'
    BY <1>5 DEF EncodeHead
  <2> QED
    BY <2>1, <2>2, <2>3, <2>4, <2>5
<1>6. CASE EncodeData
  <2>1. TypeOK'
    BY <1>6 DEF EncodeData
  <2>2. PassesInv'
    BY <1>6 DEF EncodeData
  <2>3. WrittenInv'
    BY <1>6 DEF EncodeData
  <2>4. HeldInv'
    BY <1>6 DEF EncodeData
  <2>5. DataInv'
    BY <1>6 DEF EncodeData
  <2> QED
    BY <2>1, <2>2, <2>3, <2>4, <2>5
<1>7. CASE EncodeDataFails
  <2>1. TypeOK'
    <3>1. hasData' \in BOOLEAN /\ ret' \in BOOLEAN
      BY <1>7 DEF EncodeDataFails
    <3>2. cleaned' \in BOOLEAN
      BY <1>7 DEF EncodeDataFails
    <3>3. passes' \in 0 .. 3
      <4>1. passes <= 2 /\ passes' = passes + 1 /\ passes \in 0 .. 3
        BY <1>7 DEF EncodeDataFails
      <4> QED
        BY <4>1, Counting, Zenon
    <3>4. declared' \in Lengths /\ listing' \in Lengths
      BY <1>7 DEF EncodeDataFails
    <3> QED
      BY <1>7, <3>1, <3>2, <3>3, <3>4 DEF EncodeDataFails
  <2>2. PassesInv'
    BY <1>7 DEF EncodeDataFails
  <2>3. WrittenInv'
    BY <1>7 DEF EncodeDataFails
  <2>4. HeldInv'
    BY <1>7 DEF EncodeDataFails
  <2>5. DataInv'
    BY <1>7 DEF EncodeDataFails
  <2> QED
    BY <2>1, <2>2, <2>3, <2>4, <2>5
<1> QED
  BY <1>1, <1>2, <1>3, <1>4, <1>5, <1>6, <1>7

\* The function cleans up and returns, or the listing changes.
LEMMA ReturnBlocking ==
  ASSUME BlockingInv, Cleanup \/ Release \/ ListingChanges
  PROVE  BlockingInv'
<1> USE DEF BlockingInv, TypeOK, PassesInv, WrittenInv, HeldInv, DataInv, Before,
            Goto
<1>1. CASE Cleanup
  <2>1. TypeOK'
    <3>1. hasData' \in BOOLEAN /\ ret' \in BOOLEAN
      BY <1>1, Zenon DEF Cleanup
    <3>2. cleaned' \in BOOLEAN
      BY <1>1, Zenon DEF Cleanup
    <3>3. passes' \in 0 .. 3
      BY <1>1 DEF Cleanup
    <3>4. declared' \in Lengths /\ listing' \in Lengths
      BY <1>1 DEF Cleanup
    <3> QED
      BY <1>1, <3>1, <3>2, <3>3, <3>4 DEF Cleanup
  <2>2. PassesInv'
    BY <1>1 DEF Cleanup
  <2>3. WrittenInv'
    BY <1>1 DEF Cleanup
  <2>4. HeldInv'
    BY <1>1 DEF Cleanup
  <2>5. DataInv'
    BY <1>1 DEF Cleanup
  <2> QED
    BY <2>1, <2>2, <2>3, <2>4, <2>5
<1>2. CASE Release
  BY <1>2 DEF Release
<1>3. CASE ListingChanges
  <2>1. TypeOK'
    BY <1>3 DEF ListingChanges, server
  <2>2. PassesInv'
    BY <1>3 DEF ListingChanges, server
  <2>3. WrittenInv'
    BY <1>3 DEF ListingChanges, server
  <2>4. HeldInv'
    BY <1>3 DEF ListingChanges, server
  <2>5. DataInv'
    BY <1>3 DEF ListingChanges, server
  <2> QED
    BY <2>1, <2>2, <2>3, <2>4, <2>5
<1> QED
  BY <1>1, <1>2, <1>3

LEMMA BlockingInvariance == Spec => []BlockingInv
<1>1. BlockingInv /\ [Next]_vars => BlockingInv'
  <2> SUFFICES ASSUME BlockingInv, [Next]_vars
               PROVE  BlockingInv'
    OBVIOUS
  <2>1. CASE UNCHANGED vars
    <3>1. TypeOK'
      BY <2>1 DEF vars, server, BlockingInv, TypeOK
    <3>2. PassesInv' /\ WrittenInv' /\ HeldInv' /\ DataInv'
      BY <2>1
      DEF vars, server, BlockingInv, PassesInv, WrittenInv, HeldInv, DataInv
    <3> QED
      BY <3>1, <3>2 DEF BlockingInv
  <2>2. CASE Next
    BY <2>2, EntryBlocking, AnswerBlocking, ReturnBlocking DEF Next, Step
  <2> QED
    BY <2>1, <2>2
<1> QED
  BY <1>1, InitBlocking, PTL DEF Spec

-----------------------------------------------------------------------------
\* Every variable keeps its type; no response is encoded more than three times.
THEOREM BlockingTyping == Spec => []TypeOK
BY BlockingInvariance, PTL DEF BlockingInv

\* Whichever way a call takes, what was allocated in it is released.
THEOREM AllReleased == Spec => []NothingHeldBetweenCalls
<1>1. BlockingInv => NothingHeldBetweenCalls
  BY DEF BlockingInv, HeldInv, NothingHeldBetweenCalls
<1> QED
  BY <1>1, BlockingInvariance, PTL

\* The caller is told whether a whole response was written.
THEOREM ReturnIsTrue == Spec => RetTellsWritten
<1>1. ASSUME BlockingInv, [Next]_vars
      PROVE  [pc # "idle" /\ pc' = "idle" => (ret <=> line = "whole")]_vars
  <2>1. CASE UNCHANGED vars
    BY <2>1
  <2>2. CASE Next /\ pc # "idle" /\ pc' = "idle"
    <3>1. pc = "release"
      BY <2>2
      DEF Next, Step, Call, Undecodable, Decode, NotFound, Find, Unimplemented,
          BadPayload, DecodePayload, CallbackNotOk, CallbackOk, Size, EncodeFails,
          EncodeHead, EncodeData, EncodeDataFails, Cleanup, Release, Fail, Broken,
          ListingChanges, Goto
    <3>2. ret <=> line = "whole"
      BY <1>1, <3>1 DEF BlockingInv, WrittenInv
    <3> QED
      BY <3>2
  <2> QED
    BY <1>1, <2>1, <2>2
<1> QED
  BY <1>1, BlockingInvariance, PTL DEF Spec, RetTellsWritten

\* The data is encoded from a request that is there and not cleaned up.
THEOREM DataIsLive == Spec => EncodesLiveData
<1>1. ASSUME BlockingInv, [Next]_vars
      PROVE  [passes' > passes => "ctx.request" \in held /\ ~ cleaned]_vars
  <2>1. CASE passes' = passes
    <3>1. ~ (passes' > passes)
      BY <1>1, <2>1, Counting, Zenon DEF BlockingInv, TypeOK
    <3> QED
      BY <3>1
  <2>2. CASE Call
    <3>1. ~ (passes' > passes)
      BY <1>1, <2>2, Counting, Zenon DEF Call, BlockingInv, TypeOK
    <3> QED
      BY <3>1
  <2>3. CASE passes' # passes /\ ~ Call
    <3>1. ~ (\/ Undecodable \/ Decode \/ NotFound \/ Unimplemented \/ BadPayload
             \/ DecodePayload \/ CallbackOk)
      BY <2>3
      DEF Undecodable, Decode, NotFound, Unimplemented, BadPayload, DecodePayload,
          CallbackOk, Fail
    <3>2. ~ (\E m \in Methods : Find(m)) /\ ~ (\E s \in CallbackStatus : CallbackNotOk(s))
      BY <2>3 DEF Find, CallbackNotOk, Fail
    <3>3. ~ (EncodeFails \/ Cleanup \/ Release \/ ListingChanges)
      BY <2>3, Zenon DEF EncodeFails, Cleanup, Release, ListingChanges, server
    <3>4. ~ (UNCHANGED vars)
      BY <2>3, Zenon DEF vars, server
    <3>5. (\E valid \in BOOLEAN : Size(valid)) \/ EncodeHead \/ EncodeData \/ EncodeDataFails
      BY <1>1, <2>3, <3>1, <3>2, <3>3, <3>4, Zenon DEF Next, Step
    <3>6. EncodeHead => pc = "encode" /\ hasData
      BY <2>3, Zenon DEF EncodeHead
    <3>7. pc = "size" \/ (pc = "encode" /\ hasData) \/ pc = "data"
      BY <3>5, <3>6, Zenon DEF Size, EncodeData, EncodeDataFails
    <3> QED
      BY <1>1, <3>7
      DEF BlockingInv, TypeOK, WrittenInv, HeldInv, DataInv, Before
  <2> QED
    BY <2>1, <2>2, <2>3
<1> QED
  BY <1>1, BlockingInvariance, PTL DEF Spec, EncodesLiveData

(***************************************************************************)
(* How many steps the function has to go at most.  Every step of it counts *)
(* down, also where data is encoded in several passes: with the fairness   *)
(* of Spec, which the provers cannot handle, this is why it returns.       *)
(***************************************************************************)
ToGo(l) ==
  CASE l = "idle"     -> 0
    [] l = "release"  -> 1
    [] l = "cleanup"  -> 2
    [] l = "data"     -> 3
    [] l = "encode"   -> 4
    [] l = "size"     -> 5
    [] l = "callback" -> 6
    [] l = "payload"  -> 7
    [] l = "find"     -> 8
    [] l = "decode"   -> 9

Nearer == pc # "idle" /\ ToGo(pc) \in 1 .. 9 /\ ToGo(pc') < ToGo(pc)

\* No step of the function leads back: nine steps after it was called at the
\* latest it has returned, whatever fails and however the listing changes.
THEOREM ReturnsInTime == Spec => [][Step => Nearer]_vars
<1>1. ASSUME Step PROVE Nearer
  <2>1. CASE Undecodable \/ Decode
    BY <2>1 DEF Undecodable, Decode, Fail, Goto, Nearer, ToGo
  <2>2. CASE NotFound \/ \E m \in Methods : Find(m)
    BY <2>2 DEF NotFound, Find, Fail, Goto, Nearer, ToGo
  <2>3. CASE Unimplemented \/ BadPayload \/ DecodePayload
    BY <2>3 DEF Unimplemented, BadPayload, DecodePayload, Fail, Goto, Nearer, ToGo
  <2>4. CASE CallbackOk \/ \E s \in CallbackStatus : CallbackNotOk(s)
    BY <2>4 DEF CallbackOk, CallbackNotOk, Fail, Goto, Nearer, ToGo
  <2>5. CASE \E valid \in BOOLEAN : Size(valid)
    <3>1. pc = "size" /\ pc' = "encode"
      BY <2>5 DEF Size, Goto
    <3> QED
      BY <3>1 DEF Nearer, ToGo
  <2>6. CASE EncodeFails \/ EncodeHead
    <3>1. pc = "encode" /\ pc' \in {"data", "cleanup"}
      BY <2>6 DEF EncodeFails, EncodeHead, Broken, Goto
    <3> QED
      BY <3>1 DEF Nearer, ToGo
  <2>7. CASE EncodeData \/ EncodeDataFails
    <3>1. pc = "data" /\ pc' = "cleanup"
      BY <2>7 DEF EncodeData, EncodeDataFails, Broken, Goto
    <3> QED
      BY <3>1 DEF Nearer, ToGo
  <2>8. CASE Cleanup \/ Release
    <3>1. (pc = "cleanup" /\ pc' = "release") \/ (pc = "release" /\ pc' = "idle")
      BY <2>8 DEF Cleanup, Release, Goto
    <3> QED
      BY <3>1 DEF Nearer, ToGo
  <2> QED
    BY <1>1, <2>1, <2>2, <2>3, <2>4, <2>5, <2>6, <2>7, <2>8 DEF Step
<1>2. [Next]_vars => [Step => Nearer]_vars
  BY <1>1
<1> QED
  BY <1>2, PTL DEF Spec

\* Each request is answered once, before the caller gets control back: a step of
\* the function is a step of NgAnswer or leaves it where it is.
THEOREM OneAnswer == Spec => Promise!Init /\ [][Promise!Next]_(Promise!vars)
<1>1. Init => Promise!Init
  BY DEF Init, Promise!Init
<1>2. ASSUME BlockingInv, [Next]_vars
      PROVE  [Promise!Next]_(Promise!vars)
  <2>1. CASE UNCHANGED <<pc, line>>
    BY <2>1 DEF Promise!vars
  <2>2. CASE Call
    BY <2>2 DEF Call, Goto, Promise!Next, Promise!Take
  <2>3. CASE Release
    BY <1>2, <2>3
    DEF Release, Goto, Promise!Next, Promise!Return, BlockingInv, WrittenInv
  <2>4. CASE /\ pc # "idle" /\ pc' # "idle"
             /\ line = "nothing" /\ line' \in {"whole", "cut by the line", "cut by the data"}
    BY <2>4 DEF Promise!Next, Promise!Answer
  <2>5. CASE pc # "idle" /\ pc' # "idle" /\ line' = line
    BY <2>5 DEF Promise!vars
  <2>6. CASE \/ Undecodable \/ Decode \/ NotFound \/ (\E m \in Methods : Find(m))
             \/ Unimplemented \/ BadPayload \/ DecodePayload
             \/ (\E s \in CallbackStatus : CallbackNotOk(s))
             \/ CallbackOk \/ (\E valid \in BOOLEAN : Size(valid)) \/ Cleanup
    <3>1. pc # "idle" /\ pc' # "idle" /\ line' = line
      BY <2>6
      DEF Undecodable, Decode, NotFound, Find, Unimplemented, BadPayload,
          DecodePayload, CallbackNotOk, CallbackOk, Size, Cleanup, Fail, Goto
    <3> QED
      BY <2>5, <3>1
  <2>7. CASE EncodeFails \/ EncodeHead \/ EncodeData \/ EncodeDataFails
    <3>1. pc # "idle" /\ pc' # "idle" /\ line = "nothing"
      BY <1>2, <2>7
      DEF EncodeFails, EncodeHead, EncodeData, EncodeDataFails, Broken, Goto,
          BlockingInv, WrittenInv
    <3>2. line' \in {"nothing", "whole", "cut by the line", "cut by the data"}
      BY <2>7, <3>1
      DEF EncodeFails, EncodeHead, EncodeData, EncodeDataFails, Broken, Goto
    <3> QED
      BY <2>4, <2>5, <3>1, <3>2
  <2> QED
    BY <1>2, <2>1, <2>2, <2>3, <2>6, <2>7 DEF Next, Step, ListingChanges, server, vars
<1> QED
  BY <1>1, <1>2, BlockingInvariance, PTL DEF Spec
=============================================================================
