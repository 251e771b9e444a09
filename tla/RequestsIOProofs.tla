-------------------------- MODULE RequestsIOProofs --------------------------
(***************************************************************************)
(* Theorems about the streamed request body (RequestsIO), for any number   *)
(* of pieces, size of a chunk and number of timeouts.                      *)
(***************************************************************************)
EXTENDS RequestsIO, SequenceTheorems, TLAPS

-----------------------------------------------------------------------------
(* The inductive invariant                                                 *)

Data == Seq(1..MaxPieces)

\* The caller and the thread hold the slot while they store, take or clear.
CallerHolds == IF pc = "recheck" \/ (pc \in {"store", "release"} /\ error # "timeout") THEN 1 ELSE 0
ThreadHolds == IF wpc \in {"take", "release"} THEN 1 ELSE 0
Handed == IF wpc = "dead" THEN 1 ELSE 0
InTimeout == IF error = "timeout" THEN 1 ELSE 0

\* There is one slot: a permit more comes from the end of the thread, or from
\* a put() that gave a permit back which it never had.
PermitsOwned ==
  semPut + semGet + CallerHolds + ThreadHolds + InTimeout = SlotPermits + Handed + timeouts

\* What the step of a call says about its argument.
CallShape ==
  /\ error # "none" => pc \in {"store", "release"}
  /\ error = "request" => asyncErr
  /\ pc \in {"join", "joining", "joined"} => op = "finish"
  /\ pc = "reraise" => op # "finish"
  /\ pc # "idle" /\ op \in {"finish", "finish_flush"} => buf = None
  /\ pc # "idle" => (op = "finish" <=> chunk = None)
  /\ pc = "joined" => ~waitObj

\* What the step of the thread says about the request.
ThreadShape ==
  /\ asyncErr => wpc \in {"clear", "end", "dead"}
  /\ ~waitObj <=> wpc \in {"end", "dead"}
  /\ wpc = "send" => got # None
  /\ wpc = "answer" => exhausted
  /\ wpc \in {"clear", "end", "dead"} => exhausted \/ asyncErr
  /\ reloads = 0 /\ exhausted => wpc \in {"answer", "clear", "end", "dead"}

\* No call has raised and the request was issued once.
Live == ~raised /\ reloads = 0

Generator == IF wpc \in {"release", "send"} THEN got ELSE None
Full == semGet > 0 \/ wpc = "take"
Slot == IF Full \/ pc = "release" THEN lastData ELSE None
AtCaller == IF pc \in {"check", "assert", "acquire", "recheck", "store"} THEN chunk ELSE None

\* While nothing goes wrong, what was written is spread, in order, over the
\* body, the generator, the slot, the call and the buffer; and None passes
\* through the slot only when finish() has put it there.
InTransit ==
  Live /\ ~asyncErr /\ error = "none" =>
    /\ timeouts = 0
    /\ written = body \o (Generator \o (Slot \o (AtCaller \o buf)))
    /\ (Full \/ pc = "release") /\ lastData = None =>
         op = "finish" /\ pc \in {"release", "join", "joining"}
    /\ wpc = "release" /\ got = None => pc \in {"join", "joining"}
    /\ exhausted => /\ semGet = 0
                    /\ \/ pc \in {"join", "joining", "joined"}
                       \/ ~waitObj /\ pc \in {"idle", "check", "assert"}

\* From a timeout until its error is raised the order still holds.
TimedOut ==
  Live /\ ~asyncErr /\ error = "timeout" =>
    /\ timeouts = 1
    /\ \E rest \in Data :
         written = body \o (Generator \o ((IF Full THEN lastData ELSE None) \o rest))

Begun == Live => \E rest \in Data : written = body \o rest

IInv ==
  /\ TypeOK /\ PermitsOwned /\ CallShape /\ ThreadShape
  /\ InTransit /\ TimedOut /\ Begun

-----------------------------------------------------------------------------
(* Sequences                                                               *)

LEMMA NoneIsData == None \in Data
BY EmptySeq DEF None, Data

LEMMA ConcatData ==
  ASSUME NEW s \in Data, NEW t \in Data
  PROVE  s \o t \in Data
BY ConcatProperties DEF Data

LEMMA ConcatNone ==
  ASSUME NEW s \in Data
  PROVE  s \o None = s /\ None \o s = s
BY ConcatEmptySeq DEF None, Data

LEMMA ConcatAssoc ==
  ASSUME NEW s \in Data, NEW t \in Data, NEW u \in Data
  PROVE  (s \o t) \o u = s \o (t \o u)
BY ConcatAssociative DEF Data

\* What the generator held goes to the end of the body.
LEMMA SendRegroups ==
  ASSUME NEW s \in Data, NEW t \in Data, NEW u \in Data
  PROVE  s \o (t \o u) = (s \o t) \o (None \o u)
<1>1. None \o u = u
  BY ConcatNone
<1>2. (s \o t) \o u = s \o (t \o u)
  BY ConcatAssoc
<1>. QED BY <1>1, <1>2

LEMMA AppendData ==
  ASSUME NEW s \in Data, NEW p \in 1..MaxPieces
  PROVE  /\ Append(s, p) \in Data /\ <<p>> \in Data
         /\ Append(s, p) = s \o <<p>>
BY DEF Data

LEMMA AppendConcat ==
  ASSUME NEW s \in Data, NEW t \in Data, NEW p \in 1..MaxPieces
  PROVE  Append(s \o t, p) = s \o Append(t, p)
<1>1. <<p>> \in Data /\ s \o t \in Data
  BY AppendData, ConcatData
<1>2. Append(s \o t, p) = (s \o t) \o <<p>> /\ Append(t, p) = t \o <<p>>
  BY <1>1, AppendData
<1>. QED BY <1>1, <1>2, ConcatAssoc

LEMMA ConcatIsPrefix ==
  ASSUME NEW s \in Data, NEW t \in Data
  PROVE  IsPrefix(s, s \o t)
<1>1. /\ Len(s) \in Nat /\ Len(t) \in Nat /\ Len(s \o t) = Len(s) + Len(t)
  BY ConcatProperties, LenProperties DEF Data
<1>2. SubSeq(s \o t, 1, Len(s)) = SubSeq(s, 1, Len(s))
  <2>1. CASE Len(s) = 0
    BY <2>1, SubSeqEmpty
  <2>2. CASE Len(s) > 0
    BY <1>1, <2>2, SubSeqOfConcat1 DEF Data
  <2>. QED BY <1>1, <2>1, <2>2
<1>. QED BY <1>1, <1>2 DEF IsPrefix

-----------------------------------------------------------------------------
LEMMA TypeFacts ==
  ASSUME TypeOK
  PROVE  /\ written \in Data /\ buf \in Data /\ chunk \in Data
         /\ lastData \in Data /\ got \in Data /\ body \in Data
         /\ Generator \in Data /\ Slot \in Data /\ AtCaller \in Data
         /\ semPut \in Nat /\ semGet \in Nat /\ timeouts \in Nat /\ reloads \in Nat
BY NoneIsData DEF TypeOK, Data, Generator, Slot, AtCaller

LEMMA InitInv == Init => IInv
<1> SUFFICES ASSUME Init PROVE IInv
  OBVIOUS
<1>1. TypeOK
  <2>1. /\ waitObj \in BOOLEAN /\ asyncErr \in BOOLEAN /\ resp \in BOOLEAN
        /\ exhausted \in BOOLEAN /\ raised \in BOOLEAN
    BY DEF Init
  <2>. QED BY <2>1, NoneIsData, SizesAssumption DEF Init, TypeOK, Data, None, SlotPermits
<1>2. PermitsOwned /\ CallShape /\ ThreadShape
  BY DEF Init, PermitsOwned, CallShape, ThreadShape, CallerHolds, ThreadHolds, Handed, InTimeout,
     SlotPermits
<1>3. None \o None = None
  BY NoneIsData, ConcatNone
<1>4. InTransit
  BY <1>3 DEF Init, InTransit, Generator, Slot, Full, AtCaller, None
<1>5. TimedOut
  BY DEF Init, TimedOut
<1>6. Begun
  BY <1>3, NoneIsData DEF Init, Begun, None
<1>. QED BY <1>1, <1>2, <1>4, <1>5, <1>6 DEF IInv

LEMMA FlagStep ==
  ASSUME TypeOK, Next
  PROVE  /\ waitObj' \in BOOLEAN /\ asyncErr' \in BOOLEAN /\ resp' \in BOOLEAN
         /\ exhausted' \in BOOLEAN /\ raised' \in BOOLEAN
<1>1. waitObj' \in BOOLEAN /\ asyncErr' \in BOOLEAN /\ resp' \in BOOLEAN /\ exhausted' \in BOOLEAN
  BY DEF TypeOK, Next, CallerCalls, CallerContinues, RequestGoesOn, Write, Flush, Finish, CheckError,
     AssertAlive, AcquirePut, TimeOut, RecheckError, StoreData, ReleaseGet, Reraise, ReadWaitObj,
     Join, FinishReturns, Connected, AcquireGet, TakeData, ReleasePut, Send, Reissue,
     RequestReturns, RequestRaises, ClearWaitObj, EndThread, request
<1>2. raised' \in BOOLEAN
  BY DEF TypeOK, Next, CallerCalls, CallerContinues, RequestGoesOn, Write, Flush, Finish, CheckError,
     AssertAlive, AcquirePut, TimeOut, RecheckError, StoreData, ReleaseGet, Reraise, ReadWaitObj,
     Join, FinishReturns, Connected, AcquireGet, TakeData, ReleasePut, Send, Reissue,
     RequestReturns, RequestRaises, ClearWaitObj, EndThread, StartPut, Raise, Return
<1>. QED BY <1>1, <1>2

LEMMA TypeStep ==
  ASSUME TypeOK, Next
  PROVE  TypeOK'
<1>. USE FlagStep DEF TypeOK
<1>1. CASE Write
  <2>1. Len(written) + 1 \in 1..MaxPieces
    BY <1>1, SizesAssumption DEF Write
  <2>2. Append(written, Len(written) + 1) \in Data /\ Append(buf, Len(written) + 1) \in Data
    BY <2>1, AppendData DEF Data
  <2>. QED
    BY <1>1, <2>2, NoneIsData DEF Write, StartPut, Return, slot, request, Data, None
<1>2. CASE Flush \/ Finish
  BY <1>2, NoneIsData DEF Flush, Finish, StartPut, slot, request, Data, None
<1>3. CASE CheckError \/ AssertAlive \/ AcquirePut \/ RecheckError \/ ReadWaitObj \/ Join
  BY <1>3 DEF CheckError, AssertAlive, AcquirePut, RecheckError, ReadWaitObj, Join, JoinThread,
     Raise, caller, slot, request
<1>4. CASE StoreData
  BY <1>4, NoneIsData DEF StoreData, Stored, caller, request, Data, None
<1>5. CASE ReleaseGet \/ FinishReturns
  BY <1>5 DEF ReleaseGet, FinishReturns, Raise, Return, caller, slot, request
<1>6. CASE Reraise
  BY <1>6, NoneIsData DEF Reraise, StartPut, Raise, Return, slot, request, Data, None
<1>7. CASE TimeOut
  BY <1>7, SizesAssumption DEF TimeOut, TimeOutError, caller, slot, request
<1>8. CASE Connected \/ AcquireGet \/ TakeData \/ ReleasePut \/ RequestReturns \/ RequestRaises
            \/ ClearWaitObj \/ EndThread
  BY <1>8 DEF Connected, AcquireGet, TakeData, ReleasePut, RequestReturns, RequestRaises,
     ClearWaitObj, EndThread, ReleasedAtEnd, caller, slot
<1>9. CASE Send
  BY <1>9, ConcatData DEF Send, caller, slot, Data
<1>10. CASE Reissue
  BY <1>10, NoneIsData, SizesAssumption DEF Reissue, caller, slot, Data, None
<1>. QED
  BY <1>1, <1>2, <1>3, <1>4, <1>5, <1>6, <1>7, <1>8, <1>9, <1>10
  DEF Next, CallerCalls, CallerContinues, RequestGoesOn

LEMMA PermitsStep ==
  ASSUME TypeOK, CallShape, PermitsOwned, Next
  PROVE  PermitsOwned'
<1>. USE DEF PermitsOwned, CallerHolds, ThreadHolds, Handed, InTimeout, SlotPermits
<1>0. semPut \in Nat /\ semGet \in Nat /\ timeouts \in Nat
  BY TypeFacts
<1>1. CASE Write \/ Flush \/ Finish
  BY <1>1 DEF Write, Flush, Finish, StartPut, Return, slot, request
<1>2. CASE CheckError \/ AssertAlive \/ ReadWaitObj \/ Join \/ FinishReturns
  BY <1>2 DEF CheckError, AssertAlive, ReadWaitObj, Join, FinishReturns, JoinThread, Raise, Return,
     slot, request
<1>3. CASE AcquirePut
  BY <1>0, <1>3 DEF AcquirePut, CallShape, request
<1>4. CASE RecheckError \/ StoreData
  BY <1>4 DEF RecheckError, StoreData, CallShape, slot, request
<1>5. CASE ReleaseGet
  <2>1. pc' \in {"idle", "join", "reraise"} /\ error' = "none"
    BY <1>5 DEF ReleaseGet, Raise
  <2>. QED BY <1>0, <1>5, <2>1 DEF ReleaseGet, request
<1>6. CASE Reraise
  <2>1. pc' \in {"idle", "check"}
    BY <1>6 DEF Reraise, Raise, Return, StartPut
  <2>. QED BY <1>6, <2>1 DEF Reraise, slot, request
<1>7. CASE TimeOut
  BY <1>0, <1>7 DEF TimeOut, TimeOutError, CallShape, slot, request
<1>8. CASE Connected \/ TakeData \/ Send \/ RequestReturns \/ RequestRaises \/ ClearWaitObj \/ Reissue
  BY <1>8 DEF Connected, TakeData, Send, RequestReturns, RequestRaises, ClearWaitObj, Reissue, slot
<1>9. CASE AcquireGet \/ ReleasePut \/ EndThread
  BY <1>0, <1>9 DEF AcquireGet, ReleasePut, EndThread, ReleasedAtEnd, slot
<1>. QED
  BY <1>1, <1>2, <1>3, <1>4, <1>5, <1>6, <1>7, <1>8, <1>9
  DEF Next, CallerCalls, CallerContinues, RequestGoesOn

LEMMA CallShapeStep ==
  ASSUME TypeOK, CallShape, ThreadShape, Next
  PROVE  CallShape'
<1>. USE DEF CallShape
<1>1. CASE Write
  <2>1. CASE Len(Append(buf, Len(written) + 1)) >= ChunkSize
    <3>1. Append(buf, Len(written) + 1) # None
      BY <2>1, SizesAssumption, EmptySeq DEF None
    <3>. QED BY <1>1, <2>1, <3>1 DEF Write, StartPut, request, slot
  <2>2. CASE ~(Len(Append(buf, Len(written) + 1)) >= ChunkSize)
    BY <1>1, <2>2 DEF Write, Return, request, slot
  <2>. QED BY <2>1, <2>2
<1>2. CASE Flush
  BY <1>2 DEF Flush, StartPut, request, slot, None
<1>3. CASE Finish
  BY <1>3 DEF Finish, StartPut, request, slot, None
<1>4. CASE CheckError \/ AssertAlive \/ AcquirePut \/ RecheckError
  BY <1>4 DEF CheckError, AssertAlive, AcquirePut, RecheckError, Raise, caller, slot, request
<1>5. CASE StoreData \/ ReleaseGet
  BY <1>5 DEF StoreData, ReleaseGet, Raise, caller, request
<1>6. CASE Reraise
  BY <1>6 DEF Reraise, Raise, Return, StartPut, slot, request, None
<1>7. CASE ReadWaitObj \/ Join \/ FinishReturns
  BY <1>7 DEF ReadWaitObj, Join, FinishReturns, JoinThread, ThreadShape, Raise, Return, caller,
     slot, request
<1>8. CASE TimeOut
  BY <1>8 DEF TimeOut, TimeOutError, caller, slot, request
<1>9. CASE Connected \/ AcquireGet \/ TakeData \/ ReleasePut \/ Send \/ Reissue \/ RequestReturns
  BY <1>9 DEF Connected, AcquireGet, TakeData, ReleasePut, Send, Reissue, RequestReturns, caller
<1>10. CASE RequestRaises \/ ClearWaitObj \/ EndThread
  BY <1>10 DEF RequestRaises, ClearWaitObj, EndThread, caller
<1>. QED
  BY <1>1, <1>2, <1>3, <1>4, <1>5, <1>6, <1>7, <1>8, <1>9, <1>10
  DEF Next, CallerCalls, CallerContinues, RequestGoesOn

LEMMA ThreadShapeStep ==
  ASSUME TypeOK, ThreadShape, Next
  PROVE  ThreadShape'
<1>. USE DEF ThreadShape
<1>1. CASE CallerCalls \/ CallerContinues \/ TimeOut
  BY <1>1 DEF CallerCalls, CallerContinues, Write, Flush, Finish, CheckError, AssertAlive,
     AcquirePut, TimeOut, RecheckError, StoreData, ReleaseGet, Reraise, ReadWaitObj, Join,
     FinishReturns, request
<1>2. CASE Connected \/ AcquireGet \/ TakeData \/ Send
  BY <1>2 DEF Connected, AcquireGet, TakeData, Send
<1>3. CASE ReleasePut
  <2>1. /\ exhausted' <=> got = None
        /\ ~asyncErr /\ waitObj /\ UNCHANGED <<asyncErr, waitObj, got, reloads>>
    BY <1>3 DEF ReleasePut, TypeOK
  <2>2. wpc' = IF got = None THEN "answer" ELSE "send"
    BY <1>3 DEF ReleasePut
  <2>. QED BY <2>1, <2>2
<1>4. CASE Reissue
  BY <1>4, TypeFacts DEF Reissue
<1>5. CASE RequestReturns \/ RequestRaises
  BY <1>5 DEF RequestReturns, RequestRaises
<1>6. CASE ClearWaitObj \/ EndThread
  BY <1>6 DEF ClearWaitObj, EndThread
<1>. QED
  BY <1>1, <1>2, <1>3, <1>4, <1>5, <1>6 DEF Next, RequestGoesOn
-----------------------------------------------------------------------------
(* Where the pieces are                                                    *)

LEMMA LiveStep ==
  ASSUME TypeOK, Next, Live'
  PROVE  Live
BY TypeFacts DEF Live, TypeOK, Next, CallerCalls, CallerContinues, RequestGoesOn, Write, Flush, Finish,
   CheckError, AssertAlive, AcquirePut, TimeOut, RecheckError, StoreData, ReleaseGet, Reraise,
   ReadWaitObj, Join, FinishReturns, Connected, AcquireGet, TakeData, ReleasePut, Send, Reissue,
   RequestReturns, RequestRaises, ClearWaitObj, EndThread, StartPut, Raise, Return, request

\* Before a call raises, errors do not go away and there is one permit.
LEMMA OnePermit ==
  ASSUME IInv, Live, ~asyncErr
  PROVE  /\ error # "request"
         /\ semPut + semGet + CallerHolds + ThreadHolds = 1 + Handed
         /\ semPut \in Nat /\ semGet \in Nat
         /\ CallerHolds \in {0, 1} /\ ThreadHolds \in {0, 1} /\ Handed \in {0, 1}
         /\ Handed = 1 => exhausted
<1>1. error # "request" /\ error \in {"none", "timeout"}
  BY DEF IInv, CallShape, TypeOK
<1>2. timeouts = InTimeout
  BY <1>1 DEF IInv, InTransit, TimedOut, InTimeout
<1>. QED
  BY <1>1, <1>2, TypeFacts DEF IInv, PermitsOwned, CallerHolds, ThreadHolds, Handed, SlotPermits,
     InTimeout, ThreadShape

LEMMA StillGood ==
  ASSUME IInv, Next, Live', ~asyncErr'
  PROVE  Live /\ ~asyncErr /\ (error' = "none" => error = "none")
<1>. USE DEF IInv
<1>1. Live
  BY LiveStep
<1>2. ~asyncErr
  BY DEF Next, CallerCalls, CallerContinues, RequestGoesOn, Write, Flush, Finish, CheckError,
     AssertAlive, AcquirePut, TimeOut, RecheckError, StoreData, ReleaseGet, Reraise, ReadWaitObj,
     Join, FinishReturns, Connected, AcquireGet, TakeData, ReleasePut, Send, Reissue,
     RequestReturns, RequestRaises, ClearWaitObj, EndThread, request
<1>3. ASSUME error' = "none", error # "none" PROVE FALSE
  <2>1. ReleaseGet \/ RecheckError
    BY <1>3 DEF Next, CallerCalls, CallerContinues, RequestGoesOn, Write, Flush, Finish, CheckError,
       AssertAlive, AcquirePut, TimeOut, StoreData, Reraise, ReadWaitObj, TimeOutError,
       Join, FinishReturns, Connected, AcquireGet, TakeData, ReleasePut, Send, Reissue,
       RequestReturns, RequestRaises, ClearWaitObj, EndThread
  <2>2. CASE ReleaseGet
    BY <1>3, <2>2 DEF ReleaseGet, Raise, Live
  <2>3. CASE RecheckError
    BY <1>3, <2>3 DEF RecheckError, CallShape
  <2>. QED BY <2>1, <2>2, <2>3
<1>. QED BY <1>1, <1>2, <1>3

LEMMA TransitStep ==
  ASSUME IInv, Next
  PROVE  InTransit'
<1> SUFFICES ASSUME Live', ~asyncErr', error' = "none"
             PROVE  InTransit'
  BY DEF InTransit
<1>. USE DEF IInv
<1>0. Live /\ ~asyncErr /\ error = "none"
  BY StillGood
<1>1. /\ written \in Data /\ body \in Data /\ Generator \in Data /\ Slot \in Data
      /\ AtCaller \in Data /\ buf \in Data /\ chunk \in Data
  BY TypeFacts
<1>2. written = body \o (Generator \o (Slot \o (AtCaller \o buf)))
  BY <1>0 DEF InTransit
<1>3. CASE Write
  <2>1. DEFINE piece == Len(written) + 1
  <2>2. piece \in 1..MaxPieces /\ pc = "idle"
    BY <1>1, <1>3, SizesAssumption, LenProperties DEF Write, Data
  <2>3. /\ AtCaller = None /\ AtCaller \o buf = buf
        /\ Append(buf, piece) \in Data
    BY <1>1, <2>2, ConcatNone, AppendData DEF AtCaller
  <2>4. written' = body \o (Generator \o (Slot \o Append(buf, piece)))
    <3>1. /\ Slot \o buf \in Data /\ Generator \o (Slot \o buf) \in Data
          /\ written = body \o (Generator \o (Slot \o buf))
      BY <1>1, <1>2, <2>3, ConcatData
    <3>2. Append(Slot \o buf, piece) = Slot \o Append(buf, piece)
      BY <1>1, <2>2, AppendConcat
    <3>3. Append(Generator \o (Slot \o buf), piece) = Generator \o Append(Slot \o buf, piece)
      BY <1>1, <2>2, <3>1, AppendConcat
    <3>4. Append(written, piece) = body \o Append(Generator \o (Slot \o buf), piece)
      BY <1>1, <2>2, <3>1, AppendConcat
    <3>. QED BY <1>3, <3>2, <3>3, <3>4 DEF Write
  <2>5. AtCaller' \o buf' = Append(buf, piece)
    <3>1. CASE Len(Append(buf, piece)) >= ChunkSize
      BY <1>3, <2>3, <3>1, ConcatNone DEF Write, StartPut, AtCaller, None
    <3>2. CASE ~(Len(Append(buf, piece)) >= ChunkSize)
      BY <1>3, <2>3, <3>2, ConcatNone DEF Write, Return, AtCaller
    <3>. QED BY <3>1, <3>2
  <2>6. pc' \in {"idle", "check"}
    BY <1>3 DEF Write, StartPut, Return
  <2>7. UNCHANGED <<body, Generator, Slot, Full, timeouts, exhausted, semGet, wpc, got, lastData, waitObj>>
    BY <1>3, <2>2, <2>6 DEF Write, Generator, Slot, Full, slot, request
  <2>. QED BY <1>0, <2>2, <2>4, <2>5, <2>6, <2>7 DEF InTransit
<1>4. CASE Flush \/ Finish
  <2>1. pc = "idle" /\ pc' = "check" /\ buf' = None /\ AtCaller = None /\ AtCaller' = buf
    BY <1>4 DEF Flush, Finish, StartPut, AtCaller, None
  <2>2. AtCaller' \o buf' = AtCaller \o buf
    BY <1>1, <2>1, ConcatNone
  <2>3. UNCHANGED <<written, body, Generator, Slot, Full, timeouts, exhausted, semGet, wpc, got,
                    lastData, waitObj>>
    BY <1>4, <2>1 DEF Flush, Finish, Generator, Slot, Full, slot, request
  <2>. QED BY <1>0, <2>1, <2>2, <2>3 DEF InTransit
<1>5. CASE CheckError \/ AssertAlive \/ Reraise
  <2>1. /\ pc \in {"check", "assert", "reraise"} /\ pc' \in {"assert", "acquire", "check", "idle"}
        /\ pc = "check" => pc' = "assert"
        /\ pc = "assert" => waitObj /\ pc' = "acquire"
        /\ pc = "reraise" => pc' \in {"idle", "check"}
    BY <1>0, <1>5 DEF CheckError, AssertAlive, Reraise, StartPut, Raise, Return, Live
  <2>2. AtCaller' = AtCaller
    BY <1>0, <1>5 DEF CheckError, AssertAlive, Reraise, StartPut, Raise, Return, AtCaller, Live, caller, None
  <2>3. UNCHANGED <<written, body, buf, Generator, Slot, Full, timeouts, exhausted, semGet, wpc, got,
                    lastData, waitObj>>
    BY <1>5, <2>1 DEF CheckError, AssertAlive, Reraise, Generator, Slot, Full, slot, request, caller
  <2>. QED BY <1>0, <2>1, <2>2, <2>3 DEF InTransit
<1>6. CASE AcquirePut \/ RecheckError
  <2>1. pc \in {"acquire", "recheck"} /\ pc' \in {"recheck", "store"}
    BY <1>6 DEF AcquirePut, RecheckError
  <2>2. UNCHANGED <<written, body, buf, Generator, Slot, AtCaller, Full, timeouts, exhausted, semGet,
                    wpc, got, lastData, waitObj>>
    BY <1>6, <2>1 DEF AcquirePut, RecheckError, Generator, Slot, AtCaller, Full, slot, request, caller
  <2>. QED BY <1>0, <2>1, <2>2 DEF InTransit
<1>7. CASE StoreData
  <2>1. /\ pc = "store" /\ pc' = "release" /\ lastData' = chunk
        /\ UNCHANGED <<op, written, body, buf, Generator, Full, timeouts, exhausted, semGet, wpc,
                       got, waitObj>>
    BY <1>0, <1>7 DEF StoreData, Stored, Generator, Full, request, caller
  <2>2. ~Full
    BY <1>0, <2>1, OnePermit DEF Full, CallerHolds, ThreadHolds, InTransit
  <2>3. Slot = None /\ AtCaller = chunk /\ Slot' = chunk /\ AtCaller' = None
    BY <2>1, <2>2 DEF Slot, AtCaller
  <2>4. Slot \o (AtCaller \o buf) = Slot' \o (AtCaller' \o buf')
    BY <1>1, <2>1, <2>3, ConcatNone, ConcatData
  <2>5. chunk = None => op = "finish"
    BY <2>1 DEF CallShape
  <2>. QED BY <1>0, <2>1, <2>4, <2>5 DEF InTransit
<1>8. CASE ReleaseGet
  <2>1. /\ pc = "release" /\ pc' \in {"join", "reraise"}
        /\ pc' = "join" <=> op = "finish"
        /\ semGet' = semGet + 1 /\ semGet' > 0
        /\ UNCHANGED <<op, written, body, buf, Generator, timeouts, exhausted, wpc, got, lastData, waitObj>>
    BY <1>0, <1>8, TypeFacts DEF ReleaseGet, Generator, request, caller
  <2>2. Slot' = Slot /\ AtCaller' = AtCaller
    BY <2>1 DEF Slot, AtCaller, Full
  <2>. QED BY <1>0, <2>1, <2>2 DEF InTransit, Full
<1>9. CASE ReadWaitObj \/ Join \/ FinishReturns
  <2>1. /\ pc \in {"join", "joining", "joined"} /\ pc' \in {"joining", "joined", "idle"}
        /\ pc' = "joining" <=> (pc = "join" /\ waitObj)
        /\ pc = "join" /\ ~waitObj => pc' = "joined"
        /\ pc = "joining" => pc' = "joined" /\ wpc = "dead"
        /\ pc = "joined" => pc' = "idle" /\ ~waitObj
        /\ UNCHANGED <<op, written, body, buf, Generator, Full, timeouts, exhausted, semGet, wpc, got,
                       lastData, waitObj>>
    BY <1>0, <1>9 DEF ReadWaitObj, Join, FinishReturns, JoinThread, Return, CallShape, Generator, Full,
       request, caller, slot
  <2>2. Slot' = Slot /\ AtCaller' = AtCaller
    BY <2>1 DEF Slot, AtCaller
  <2>3. pc' \in {"joined", "idle"} => exhausted /\ wpc \in {"end", "dead"}
    BY <1>0, <2>1 DEF ThreadShape
  <2>4. pc' \in {"joined", "idle"} => ~Full /\ wpc # "release"
    BY <1>0, <2>3, TypeFacts DEF InTransit, Full
  <2>. QED BY <1>0, <2>1, <2>2, <2>3, <2>4 DEF InTransit
<1>10. CASE TimeOut
  BY <1>0, <1>10 DEF TimeOut, TimeOutError
<1>11. CASE Connected
  <2>1. UNCHANGED <<op, pc, written, body, buf, Slot, AtCaller, timeouts, exhausted, semGet, got,
                    lastData, waitObj>>
        /\ Generator' = Generator /\ Full' = Full /\ wpc' \in {"answer", "get"}
    BY <1>11 DEF Connected, Generator, Slot, AtCaller, Full, caller, slot
  <2>. QED BY <1>0, <2>1 DEF InTransit
<1>12. CASE AcquireGet
  <2>1. /\ UNCHANGED <<op, pc, written, body, buf, AtCaller, timeouts, exhausted, got,
                       lastData, waitObj>>
        /\ Generator' = Generator /\ Slot' = Slot /\ Full /\ Full' /\ wpc' = "take" /\ wpc = "get"
    BY <1>12 DEF AcquireGet, Generator, Slot, AtCaller, Full, caller
  <2>2. ~exhausted
    BY <1>0, <2>1 DEF ThreadShape, Live
  <2>. QED BY <1>0, <2>1, <2>2 DEF InTransit
<1>13. CASE TakeData
  <2>1. /\ wpc = "take" /\ wpc' = "release" /\ got' = lastData
        /\ UNCHANGED <<op, pc, written, body, buf, AtCaller, timeouts, exhausted, semGet,
                       lastData, waitObj>>
    BY <1>13 DEF TakeData, AtCaller, caller, slot
  <2>2. semGet = 0 /\ pc # "release"
    BY <1>0, <2>1, OnePermit DEF CallerHolds, ThreadHolds, Handed
  <2>3. Generator = None /\ Slot = lastData /\ Generator' = lastData /\ Slot' = None /\ ~Full'
    BY <2>1, <2>2 DEF Generator, Slot, Full
  <2>4. Generator \o (Slot \o (AtCaller \o buf)) = Generator' \o (Slot' \o (AtCaller' \o buf'))
    BY <1>1, <2>1, <2>3, ConcatNone, ConcatData
  <2>5. ~exhausted
    BY <1>0, <2>1 DEF ThreadShape, Live
  <2>6. lastData = None => pc \in {"join", "joining"}
    BY <1>0, <2>1, <2>2 DEF InTransit, Full
  <2>. QED BY <1>0, <2>1, <2>2, <2>3, <2>4, <2>5, <2>6 DEF InTransit
<1>14. CASE ReleasePut
  <2>1. /\ wpc = "release" /\ wpc' = IF got = None THEN "answer" ELSE "send"
        /\ exhausted' <=> got = None
        /\ UNCHANGED <<op, pc, written, body, buf, AtCaller, Slot, Full, timeouts, semGet, got,
                       lastData, waitObj>>
    BY <1>14 DEF ReleasePut, AtCaller, Slot, Full, caller, TypeOK
  <2>2. Generator' = Generator
    BY <2>1 DEF Generator
  <2>3. semGet = 0
    BY <1>0, <2>1, OnePermit DEF CallerHolds, ThreadHolds, Handed
  <2>. QED BY <1>0, <2>1, <2>2, <2>3 DEF InTransit
<1>15. CASE Send
  <2>1. /\ wpc = "send" /\ wpc' = "get" /\ body' = body \o got
        /\ UNCHANGED <<op, pc, written, buf, AtCaller, Slot, Full, timeouts, semGet, got, exhausted,
                       lastData, waitObj>>
    BY <1>15 DEF Send, AtCaller, Slot, Full, caller, slot
  <2>2. Generator = got /\ Generator' = None
    BY <2>1 DEF Generator
  <2>3. body \o (Generator \o (Slot \o (AtCaller \o buf)))
          = body' \o (Generator' \o (Slot' \o (AtCaller' \o buf')))
    <3>1. Slot \o (AtCaller \o buf) \in Data
      BY <1>1, ConcatData
    <3>2. body \in Data /\ got \in Data
      BY TypeFacts
    <3>3. body \o (got \o (Slot \o (AtCaller \o buf)))
            = (body \o got) \o (None \o (Slot \o (AtCaller \o buf)))
      BY <3>1, <3>2, SendRegroups
    <3>. QED BY <2>1, <2>2, <3>3
  <2>. QED BY <1>0, <2>1, <2>3 DEF InTransit
<1>16. CASE Reissue
  BY <1>16, TypeFacts DEF Reissue, Live
<1>17. CASE RequestReturns \/ ClearWaitObj \/ EndThread
  <2>1. /\ wpc \in {"answer", "clear", "end"} /\ wpc' \in {"clear", "end", "dead"}
        /\ UNCHANGED <<op, pc, written, body, buf, AtCaller, Slot, Full, timeouts, semGet, got,
                       exhausted, lastData>>
        /\ ~waitObj => ~waitObj'
    BY <1>17 DEF RequestReturns, ClearWaitObj, EndThread, AtCaller, Slot, Full, caller, slot
  <2>2. Generator' = Generator
    BY <2>1 DEF Generator
  <2>. QED BY <1>0, <2>1, <2>2 DEF InTransit
<1>18. CASE RequestRaises
  BY <1>18 DEF RequestRaises
<1>. QED
  BY <1>3, <1>4, <1>5, <1>6, <1>7, <1>8, <1>9, <1>10, <1>11, <1>12, <1>13, <1>14, <1>15, <1>16,
     <1>17, <1>18
  DEF Next, CallerCalls, CallerContinues, RequestGoesOn

LEMMA TimedOutStep ==
  ASSUME IInv, Next
  PROVE  TimedOut'
<1> SUFFICES ASSUME Live', ~asyncErr', error' = "timeout"
             PROVE  TimedOut'
  BY DEF TimedOut
<1>. USE DEF IInv
<1>. DEFINE Held == IF Full THEN lastData ELSE None
<1>0. Live /\ ~asyncErr
  BY StillGood
<1>1. /\ written \in Data /\ body \in Data /\ Generator \in Data /\ got \in Data
      /\ lastData \in Data /\ AtCaller \in Data /\ buf \in Data /\ Held \in Data
  BY TypeFacts, NoneIsData
<1>2. CASE error = "none"
  <2>1. TimeOut
    BY <1>2, OnePermit, <1>0 DEF Next, CallerCalls, CallerContinues, RequestGoesOn, Write, Flush, Finish,
       CheckError, AssertAlive, AcquirePut, RecheckError, StoreData, ReleaseGet, Reraise,
       ReadWaitObj, Join, FinishReturns, Connected, AcquireGet, TakeData, ReleasePut, Send, Reissue,
       RequestReturns, RequestRaises, ClearWaitObj, EndThread
  <2>2. /\ pc = "acquire" /\ timeouts' = timeouts + 1 /\ timeouts = 0
        /\ UNCHANGED <<written, body, Generator, Full, lastData>>
    BY <1>0, <1>2, <2>1 DEF TimeOut, InTransit, Generator, Full, caller, slot, request
  <2>3. Slot = Held
    BY <2>2 DEF Slot
  <2>4. written' = body' \o (Generator' \o (Held' \o (AtCaller \o buf)))
    BY <1>0, <1>2, <2>2, <2>3 DEF InTransit
  <2>5. AtCaller \o buf \in Data
    BY <1>1, ConcatData
  <2>6. \E rest \in Data :
          written' = body' \o (Generator' \o ((IF Full THEN lastData ELSE None)' \o rest))
    BY <2>4, <2>5
  <2>7. timeouts' = 1
    BY <2>2
  <2>. QED BY <2>6, <2>7 DEF TimedOut
<1>3. CASE error = "timeout"
  <2>0. pc \in {"store", "release"} /\ timeouts = 1
    BY <1>0, <1>3 DEF CallShape, TimedOut
  <2>1. PICK rest \in Data : written = body \o (Generator \o (Held \o rest))
    BY <1>0, <1>3 DEF TimedOut
  <2>2. CASE StoreData
    <3>1. /\ lastData' = None /\ Held' = None
          /\ UNCHANGED <<written, body, Generator, timeouts>>
      BY <1>3, <2>2 DEF StoreData, Stored, Generator, caller, request
    <3>2. Held \o rest \in Data /\ Held' \o (Held \o rest) = Held \o rest
      BY <1>1, <3>1, ConcatData, ConcatNone
    <3>. QED BY <2>0, <2>1, <3>1, <3>2 DEF TimedOut
  <2>3. CASE Connected \/ AcquireGet \/ ReleasePut \/ RequestReturns \/ ClearWaitObj \/ EndThread
    <3>1. /\ UNCHANGED <<written, body, Generator, Held, timeouts>>
      BY <2>3, TypeFacts DEF Connected, AcquireGet, ReleasePut, RequestReturns, ClearWaitObj, EndThread,
         Generator, Full, caller, slot
    <3>. QED BY <2>0, <2>1, <3>1 DEF TimedOut
  <2>4. CASE TakeData
    <3>1. semGet = 0
      BY <1>0, <2>4, OnePermit DEF TakeData, CallerHolds, ThreadHolds, Handed
    <3>2. /\ UNCHANGED <<written, body, timeouts>>
          /\ Generator = None /\ Held = lastData /\ Generator' = lastData /\ Held' = None
      BY <2>4, <3>1 DEF TakeData, Generator, Full, caller, slot
    <3>3. Generator' \o (Held' \o rest) = Generator \o (Held \o rest)
      BY <1>1, <3>2, ConcatNone, ConcatData
    <3>. QED BY <2>0, <2>1, <3>2, <3>3 DEF TimedOut
  <2>5. CASE Send
    <3>1. /\ UNCHANGED <<written, Held, timeouts>> /\ body' = body \o got
          /\ Generator = got /\ Generator' = None
      BY <2>5 DEF Send, Generator, Full, caller, slot
    <3>2. Held \o rest \in Data
      BY <1>1, ConcatData
    <3>3. \A s \in Data : body \o (got \o s) = (body \o got) \o (None \o s)
      BY <1>1, SendRegroups
    <3>4. body \o (got \o (Held \o rest)) = (body \o got) \o (None \o (Held \o rest))
      BY <3>2, <3>3
    <3>. QED BY <2>0, <2>1, <3>1, <3>4 DEF TimedOut
  <2>6. CASE ReleaseGet
    BY <2>6 DEF ReleaseGet
  <2>7. CASE Reissue \/ RequestRaises
    BY <2>7, TypeFacts DEF Reissue, RequestRaises, Live
  <2>. QED
    BY <2>0, <2>2, <2>3, <2>4, <2>5, <2>6, <2>7 DEF Next, CallerCalls, CallerContinues,
       RequestGoesOn, Write, Flush, Finish, CheckError, AssertAlive, AcquirePut, RecheckError,
       Reraise, ReadWaitObj, Join, FinishReturns, TimeOut
<1>. QED BY <1>0, <1>2, <1>3, OnePermit DEF TypeOK

\* What is sent is the beginning of what was written.
LEMMA SendsInOrder ==
  ASSUME IInv, Live, ~asyncErr
  PROVE  \E rest \in Data : written = (body \o Generator) \o rest
<1>. USE DEF IInv
<1>1. /\ body \in Data /\ Generator \in Data /\ Slot \in Data /\ AtCaller \in Data /\ buf \in Data
      /\ lastData \in Data
  BY TypeFacts
<1>0. body \in Data /\ Generator \in Data
  BY <1>1
<1>2. \A s \in Data : body \o (Generator \o s) = (body \o Generator) \o s
  BY <1>0, ConcatAssoc
<1>3. CASE error = "none"
  <2>. DEFINE rest == Slot \o (AtCaller \o buf)
  <2>1. rest \in Data
    BY <1>1, ConcatData
  <2>2. written = body \o (Generator \o rest)
    BY <1>3 DEF InTransit
  <2>. HIDE DEF rest
  <2>. QED BY <1>2, <2>1, <2>2
<1>4. CASE error = "timeout"
  <2>1. PICK rest \in Data :
          written = body \o (Generator \o ((IF Full THEN lastData ELSE None) \o rest))
    BY <1>4 DEF TimedOut
  <2>. DEFINE after == (IF Full THEN lastData ELSE None) \o rest
  <2>2. after \in Data
    BY <1>1, NoneIsData, ConcatData
  <2>3. written = body \o (Generator \o after)
    BY <2>1
  <2>. HIDE DEF after
  <2>. QED BY <1>2, <2>2, <2>3
<1>. QED BY <1>3, <1>4, OnePermit DEF TypeOK

LEMMA BegunStep ==
  ASSUME IInv, Next
  PROVE  Begun'
<1> SUFFICES ASSUME Live' PROVE \E rest \in Data : written' = body' \o rest
  BY DEF Begun
<1>. USE DEF IInv
<1>0. Live
  BY LiveStep
<1>1. written \in Data /\ body \in Data
  BY TypeFacts
<1>2. PICK rest \in Data : written = body \o rest
  BY <1>0 DEF Begun
<1>3. CASE Write
  <2>1. Len(written) + 1 \in 1..MaxPieces
    BY <1>1, <1>3, SizesAssumption, LenProperties DEF Write, Data
  <2>2. written' = body \o Append(rest, Len(written) + 1) /\ Append(rest, Len(written) + 1) \in Data
    BY <1>1, <1>2, <1>3, <2>1, AppendConcat, AppendData DEF Write
  <2>. QED BY <1>3, <2>2 DEF Write, request
<1>4. CASE Send
  <2>1. ~asyncErr /\ Generator = got /\ body' = body \o got /\ written' = written
    BY <1>4 DEF Send, ThreadShape, Generator, caller
  <2>. QED BY <1>0, <2>1, SendsInOrder
<1>5. CASE Reissue
  BY <1>5, TypeFacts DEF Reissue, Live
<1>6. CASE ~(Write \/ Send \/ Reissue)
  <2>1. written' = written /\ body' = body
    BY <1>6 DEF Next, CallerCalls, CallerContinues, RequestGoesOn, Flush, Finish, CheckError,
       AssertAlive, AcquirePut, TimeOut, RecheckError, StoreData, ReleaseGet, Reraise, ReadWaitObj,
       Join, FinishReturns, Connected, AcquireGet, TakeData, ReleasePut, RequestReturns,
       RequestRaises, ClearWaitObj, EndThread, request, caller
  <2>. QED BY <1>2, <2>1
<1>. QED BY <1>3, <1>4, <1>5, <1>6

-----------------------------------------------------------------------------
LEMMA IInvStep == IInv /\ [Next]_vars => IInv'
<1> SUFFICES ASSUME IInv, [Next]_vars PROVE IInv'
  OBVIOUS
<1>1. CASE Next
  BY <1>1, TypeStep, PermitsStep, CallShapeStep, ThreadShapeStep, TransitStep, TimedOutStep,
     BegunStep DEF IInv
<1>2. CASE UNCHANGED vars
  <2>1. UNCHANGED <<buf, chunk, op, written, lastData, semPut, semGet, wpc, got, exhausted, body,
                    reloads, waitObj, asyncErr, resp, pc, error, result, timeouts, raised>>
    BY <1>2 DEF vars, caller, slot, request
  <2>2. TypeOK' /\ PermitsOwned' /\ CallShape' /\ ThreadShape'
    BY <2>1 DEF IInv, TypeOK, PermitsOwned, CallShape, ThreadShape, CallerHolds, ThreadHolds, Handed,
       InTimeout
  <2>3. InTransit' /\ TimedOut' /\ Begun'
    BY <2>1 DEF IInv, InTransit, TimedOut, Begun, Live, Generator, Slot, AtCaller, Full
  <2>. QED BY <2>2, <2>3 DEF IInv
<1>. QED BY <1>1, <1>2

LEMMA Invariant == Spec => []IInv
BY InitInv, IInvStep, PTL DEF Spec

(* Whatever times out, fails or is issued again, the variables of both        *)
(* threads keep their ranges.                                                 *)
THEOREM TypeCorrect == Spec => []TypeOK
<1>1. IInv => TypeOK
  BY DEF IInv
<1>. QED BY Invariant, <1>1, PTL

(* The slot is handed to and fro with one permit; a second appears only when  *)
(* the thread has ended or a put() gave back what it never had.               *)
THEOREM PermitsBounded == Spec => [](semPut + semGet <= 2 + timeouts)
<1>1. IInv => semPut + semGet <= 2 + timeouts
  BY TypeFacts DEF IInv, PermitsOwned, CallerHolds, ThreadHolds, Handed, InTimeout, SlotPermits
<1>. QED BY Invariant, <1>1, PTL

-----------------------------------------------------------------------------
(* The refinement of UploadPipe                                            *)

LEMMA FailedStays ==
  ASSUME TypeOK, Next, Outcome = "failed"
  PROVE  Outcome' = "failed"
BY LiveStep, TypeFacts, TypeStep DEF Outcome, Live, TypeOK

LEMMA PipeStep ==
  ASSUME IInv, Next
  PROVE  Pipe!Next \/ UNCHANGED <<written, body, Outcome>>
<1>. USE DEF IInv
<1>0. /\ written \in Data /\ body \in Data /\ TypeOK'
      /\ Outcome \in {"failed", "ok", "open"} /\ Outcome' \in {"failed", "ok", "open"}
      /\ Outcome' # "failed" => Outcome # "failed"
      /\ Outcome # "failed" <=> Live
  BY TypeFacts, TypeStep, FailedStays DEF Outcome, Live, TypeOK
<1>1. CASE Write
  <2>1. Len(written) + 1 \in 1..MaxPieces /\ written' = Append(written, Len(written) + 1)
    BY <1>0, <1>1, SizesAssumption, LenProperties DEF Write, Data
  <2>2. /\ op' = "write" /\ body' = body /\ UNCHANGED <<raised, reloads>>
    BY <1>1 DEF Write, StartPut, Return, request
  <2>3. Outcome' = IF Outcome = "failed" THEN "failed" ELSE "open"
    BY <2>2 DEF Outcome
  <2>. QED BY <2>1, <2>2, <2>3 DEF Pipe!Next, Pipe!Write
<1>2. CASE Send
  <2>1. Outcome' = Outcome /\ written' = written /\ body' = body \o got /\ got \in Data
    BY <1>2, TypeFacts DEF Send, Outcome, caller
  <2>2. ASSUME Live PROVE IsPrefix(body, body') /\ IsPrefix(body', written)
    <3>1. ~asyncErr /\ Generator = got
      BY <1>2 DEF Send, ThreadShape, Generator
    <3>2. PICK rest \in Data : written = (body \o got) \o rest
      BY <2>2, <3>1, SendsInOrder
    <3>. QED BY <1>0, <2>1, <3>2, ConcatData, ConcatIsPrefix
  <2>3. Outcome # "failed" => IsPrefix(body, body') /\ IsPrefix(body', written)
    BY <1>0, <2>2
  <2>. QED BY <2>1, <2>3 DEF Pipe!Next, Pipe!Send, Pipe!IsPrefix, IsPrefix
<1>3. CASE Reissue
  <2>1. Outcome' = "failed" /\ written' = written
    BY <1>3, TypeFacts DEF Reissue, Outcome, caller
  <2>. QED BY <2>1 DEF Pipe!Next, Pipe!Fail
<1>4. CASE ~(Write \/ Send \/ Reissue)
  <2>1. written' = written /\ body' = body
    BY <1>4 DEF Next, CallerCalls, CallerContinues, RequestGoesOn, Flush, Finish, CheckError,
       AssertAlive, AcquirePut, TimeOut, RecheckError, StoreData, ReleaseGet, Reraise, ReadWaitObj,
       Join, FinishReturns, Connected, AcquireGet, TakeData, ReleasePut, RequestReturns,
       RequestRaises, ClearWaitObj, EndThread, request, caller
  <2>2. CASE Outcome' = "failed"
    BY <2>1, <2>2 DEF Pipe!Next, Pipe!Fail
  <2>3. CASE Outcome = Outcome'
    BY <2>1, <2>3
  <2>4. CASE Outcome = "ok" /\ Outcome' = "open"
    BY <2>1, <2>4 DEF Pipe!Next, Pipe!CallAgain
  <2>5. CASE Outcome = "open" /\ Outcome' = "ok"
    <3>1. Live /\ Live' /\ pc' = "idle" /\ op' = "finish" /\ result' = "ok"
      <4>1. Live /\ Outcome' # "failed"
        BY <1>0, <2>5
      <4>2. ~raised' /\ ~(reloads' > 0)
        BY <4>1 DEF Outcome
      <4>3. pc' = "idle" /\ op' = "finish" /\ result' = "ok"
        BY <2>5, <4>2 DEF Outcome
      <4>4. reloads' \in Nat
        BY <1>0 DEF TypeOK
      <4>. QED BY <4>1, <4>2, <4>3, <4>4 DEF Live
    <3>2. ~raised' /\ ~(pc = "idle" /\ op = "finish" /\ result = "ok")
      BY <2>5, <3>1 DEF Outcome, Live
    <3>3. ~(CallerCalls \/ TimeOut \/ RequestGoesOn)
      BY <1>4, <3>1, <3>2 DEF CallerCalls, RequestGoesOn, Flush, Finish, StartPut, TimeOut, Connected,
         AcquireGet, TakeData, ReleasePut, RequestReturns, RequestRaises, ClearWaitObj, EndThread,
         caller
    <3>4. ~(CheckError \/ AssertAlive \/ AcquirePut \/ RecheckError \/ StoreData \/ ReadWaitObj \/ Join)
      BY <3>1, <3>2 DEF CheckError, AssertAlive, AcquirePut, RecheckError, StoreData, ReadWaitObj,
         Join, Raise, JoinThread
    <3>5. ~(ReleaseGet \/ Reraise)
      BY <3>1, <3>2 DEF ReleaseGet, Reraise, Raise, Return, StartPut, CallShape, caller
    <3>6. FinishReturns
      BY <1>4, <3>3, <3>4, <3>5 DEF Next, CallerContinues
    <3>7. pc = "joined" /\ ~asyncErr /\ error = "none" /\ op = "finish" /\ wpc \in {"end", "dead"}
          /\ exhausted /\ ~waitObj
      BY <3>1, <3>6 DEF FinishReturns, Raise, Live, CallShape, ThreadShape
    <3>8. Generator = None /\ Slot = None /\ AtCaller = None /\ buf = None
      BY <3>1, <3>7 DEF InTransit, Generator, Slot, Full, AtCaller, CallShape
    <3>9. written = body
      BY <1>0, <3>1, <3>7, <3>8, NoneIsData, ConcatNone DEF InTransit
    <3>. QED BY <2>1, <2>5, <3>9 DEF Pipe!Next, Pipe!Finish
  <2>. QED BY <1>0, <2>2, <2>3, <2>4, <2>5
<1>. QED BY <1>1, <1>2, <1>3, <1>4

(* Until a call has raised, the body of the request issued once is a prefix   *)
(* of what was written, and finish() returns only for the whole of it: no     *)
(* interleaving of the two threads loses, repeats or reorders a piece.        *)
THEOREM BodyTheorem == Spec => BodyIsWhatWasWritten
<1>1. Init => Pipe!Init
  BY DEF Init, Pipe!Init, Outcome
<1>2. IInv /\ [Next]_vars => [Pipe!Next]_<<written, body, Outcome>>
  <2> SUFFICES ASSUME IInv, [Next]_vars
               PROVE  Pipe!Next \/ UNCHANGED <<written, body, Outcome>>
    OBVIOUS
  <2>1. CASE UNCHANGED vars
    BY <2>1 DEF vars, caller, request, Outcome
  <2>. QED BY <2>1, PipeStep
<1>. QED BY <1>1, <1>2, Invariant, PTL DEF Spec, BodyIsWhatWasWritten, Pipe!Spec

-----------------------------------------------------------------------------
(* Progress.  Of ENABLED, which the provers do not compute, the proofs are  *)
(* given GuardsSuffice: that the caller and the thread can step where the   *)
(* guards of their actions hold.                                            *)

\* The slot of a thread that has ended is free for the call that had passed
\* the assertion; and what finish() put, None, is there to be taken until the
\* generator has ended.
HandedBack ==
  /\ wpc = "dead" /\ pc = "acquire" => semPut > 0
  /\ exhausted => wpc \in {"connect", "answer", "clear", "end", "dead"}
  /\ pc = "release" /\ op = "finish" => lastData = None
  /\ pc \in {"join", "joining"} =>
       /\ lastData = None
       /\ \/ semGet > 0 \/ wpc = "take" \/ exhausted \/ asyncErr
          \/ wpc = "release" /\ got = None

LEMMA HandedBackStep ==
  ASSUME IInv, HandedBack, [Next]_vars
  PROVE  HandedBack'
<1>. USE DEF IInv, TypeOK, CallShape, ThreadShape, HandedBack
<1>0. semPut \in Nat /\ semGet \in Nat
  OBVIOUS
<1>1. CASE Write \/ Flush \/ Finish
  BY <1>1 DEF Write, Flush, Finish, StartPut, Return, slot, request
<1>2. CASE CheckError \/ AssertAlive \/ RecheckError \/ FinishReturns
  BY <1>2 DEF CheckError, AssertAlive, RecheckError, FinishReturns, Raise, Return, caller, slot,
     request
<1>3. CASE AcquirePut \/ TimeOut
  BY <1>3 DEF AcquirePut, TimeOut, caller, slot, request
<1>4. CASE StoreData
  BY <1>4 DEF StoreData, Stored, caller, request
<1>5. CASE ReleaseGet
  <2>1. /\ semGet' > 0 /\ UNCHANGED <<lastData, wpc, exhausted, semPut, op>>
        /\ pc = "release" /\ pc' \in {"idle", "join", "reraise"}
        /\ pc' = "join" => op = "finish"
    BY <1>0, <1>5 DEF ReleaseGet, Raise, caller, request
  <2>. QED BY <2>1
<1>6. CASE Reraise \/ ReadWaitObj \/ Join
  BY <1>6 DEF Reraise, ReadWaitObj, Join, JoinThread, StartPut, Raise, Return, caller, slot, request
<1>7. CASE Connected \/ Send \/ Reissue
  BY <1>7 DEF Connected, Send, Reissue, caller, slot
<1>8. CASE AcquireGet \/ TakeData \/ ReleasePut
  BY <1>0, <1>8 DEF AcquireGet, TakeData, ReleasePut, caller, slot
<1>9. CASE RequestReturns \/ RequestRaises \/ ClearWaitObj
  BY <1>9 DEF RequestReturns, RequestRaises, ClearWaitObj, caller, slot
<1>10. CASE EndThread
  BY <1>0, <1>10 DEF EndThread, ReleasedAtEnd, caller, slot
<1>11. CASE UNCHANGED vars
  BY <1>11 DEF vars, caller, slot, request
<1>. QED
  BY <1>1, <1>2, <1>3, <1>4, <1>5, <1>6, <1>7, <1>8, <1>9, <1>10, <1>11
  DEF Next, CallerCalls, CallerContinues, RequestGoesOn

LEMMA SlotHandedBack == Spec => []HandedBack
<1>1. Init => HandedBack
  BY DEF Init, HandedBack
<1>. QED BY <1>1, HandedBackStep, Invariant, PTL DEF Spec

LEMMA ThreadGoesOn ==
  ASSUME IInv, HandedBack, AwaitsThread
  PROVE  RequestGuard
<1>0. /\ semPut \in Nat /\ semGet \in Nat /\ timeouts \in Nat
      /\ wpc \in {"connect", "get", "take", "release", "send", "answer", "clear", "end", "dead"}
  BY TypeFacts DEF IInv, TypeOK
<1>1. CASE pc = "acquire" /\ semPut = 0
  <2>1. wpc # "dead" /\ error = "none"
    BY <1>1 DEF IInv, TypeOK, CallShape, HandedBack
  <2>2. wpc = "get" => semGet > 0
    BY <1>0, <1>1, <2>1 DEF IInv, PermitsOwned, CallerHolds, ThreadHolds, Handed, InTimeout,
       SlotPermits
  <2>. QED BY <1>0, <2>1, <2>2 DEF RequestGuard
<1>2. CASE pc = "joining" /\ wpc # "dead"
  <2>1. wpc = "get" => ~exhausted /\ ~asyncErr
    BY DEF IInv, ThreadShape, HandedBack
  <2>. QED BY <1>0, <1>2, <2>1 DEF HandedBack, RequestGuard
<1>. QED BY <1>1, <1>2 DEF AwaitsThread

(* Whoever a call waits for can step: the thread always hands the slot back *)
(* and always finds what finish() put into it.                              *)
THEOREM NobodyIsStuck == Spec /\ []GuardsSuffice => []CallNotStuck
<1>1. IInv /\ HandedBack /\ GuardsSuffice => CallNotStuck
  BY ThreadGoesOn DEF CallNotStuck
<1>. QED BY <1>1, Invariant, SlotHandedBack, PTL

\* How many steps the thread is from its end, or from the permit of the slot.
\* A request that is issued again is counted in.
ThreadSteps ==
  CASE wpc = "dead" -> 0
    [] wpc = "end" -> 1
    [] wpc = "clear" -> 2
    [] wpc = "answer" -> IF reloads < MaxReloads THEN 5 ELSE 3
    [] wpc = "connect" -> IF ~exhausted THEN 9 ELSE IF reloads < MaxReloads THEN 6 ELSE 4
    [] wpc = "release" -> IF got = None \/ pc = "acquire" THEN 6 ELSE 10
    [] wpc = "take" -> 7
    [] wpc = "get" -> 8
    [] wpc = "send" -> 9

\* How many steps the caller is from its return.
CallSteps ==
  CASE pc = "idle" -> 0
    [] pc = "joined" -> 1
    [] pc = "joining" -> 2
    [] pc = "join" -> 3
    [] pc = "release" -> IF op = "finish" THEN 4 ELSE 11
    [] pc = "store" -> IF op = "finish" THEN 5 ELSE 12
    [] pc = "recheck" -> IF op = "finish" THEN 6 ELSE 13
    [] pc = "acquire" -> IF op = "finish" THEN 7 ELSE 14
    [] pc = "assert" -> IF op = "finish" THEN 8 ELSE 15
    [] pc = "check" -> IF op = "finish" THEN 9 ELSE 16
    [] pc = "reraise" -> 10

LEMMA StepsAreNat ==
  ASSUME TypeOK
  PROVE  ThreadSteps \in 0..10 /\ CallSteps \in 0..16
<1>1. ThreadSteps \in 0..10
  BY DEF TypeOK, ThreadSteps
<1>2. CallSteps \in 0..16
  BY DEF TypeOK, CallSteps
<1>. QED BY <1>1, <1>2

\* A step while a call awaits the thread is the thread's, or ends the waiting.
LEMMA ThreadComesNearer ==
  ASSUME IInv, HandedBack, AwaitsThread, Next, AwaitsThread'
  PROVE  ThreadSteps' < ThreadSteps
<1>. USE DEF ThreadSteps
<1>0. /\ reloads \in 0..MaxReloads /\ MaxReloads \in {0, 1} /\ semPut \in Nat
      /\ wpc \in {"connect", "get", "take", "release", "send", "answer", "clear", "end", "dead"}
  BY SizesAssumption DEF IInv, TypeOK
<1>1. ~CallerCalls /\ ~CallerContinues /\ ~TimeOut
  BY DEF AwaitsThread, CallerCalls, CallerContinues, Write, Flush, Finish, CheckError, AssertAlive,
     AcquirePut, TimeOut, RecheckError, StoreData, ReleaseGet, Reraise, ReadWaitObj, Join,
     FinishReturns
<1>2. CASE Connected
  BY <1>0, <1>2 DEF Connected, caller
<1>3. CASE AcquireGet
  BY <1>3 DEF AcquireGet, caller
<1>4. CASE TakeData
  <2>1. pc' = pc /\ got' = lastData /\ wpc = "take" /\ wpc' = "release"
    BY <1>4 DEF TakeData, caller
  <2>2. pc' = "acquire" \/ lastData = None
    BY <2>1 DEF AwaitsThread, HandedBack
  <2>. QED BY <2>1, <2>2
<1>5. CASE ReleasePut
  <2>1. pc' = pc /\ semPut' > 0 /\ wpc = "release" /\ reloads' = reloads /\ got' = got
        /\ wpc' = IF got = None THEN "answer" ELSE "send"
    BY <1>0, <1>5 DEF ReleasePut, caller
  <2>2. pc = "joining"
    BY <2>1 DEF AwaitsThread
  <2>. QED BY <1>0, <2>1, <2>2
<1>6. CASE Send
  BY <1>6 DEF Send, caller
<1>7. CASE Reissue
  <2>1. exhausted /\ wpc = "answer"
    BY <1>7 DEF Reissue, IInv, ThreadShape
  <2>2. /\ reloads < MaxReloads /\ reloads' = reloads + 1 /\ wpc' = "connect"
        /\ exhausted' = exhausted
    BY <1>7 DEF Reissue
  <2>. QED BY <1>0, <2>1, <2>2
<1>8. CASE RequestReturns
  BY <1>8 DEF RequestReturns
<1>9. CASE RequestRaises
  BY <1>9 DEF RequestRaises
<1>10. CASE ClearWaitObj
  BY <1>10 DEF ClearWaitObj
<1>11. CASE EndThread
  BY <1>11 DEF EndThread
<1>. QED
  BY <1>1, <1>2, <1>3, <1>4, <1>5, <1>6, <1>7, <1>8, <1>9, <1>10, <1>11 DEF Next, RequestGoesOn

\* A step during a call is the caller's and brings its return nearer, or leaves
\* the call where it is and, if it awaits nobody, lets it go on.
LEMMA CallComesNearer ==
  ASSUME IInv, pc # "idle", Next
  PROVE  \/ CallSteps' < CallSteps
         \/ /\ CallSteps' = CallSteps /\ pc' = pc /\ ~CallerContinues
            /\ ~AwaitsThread => ~AwaitsThread'
<1>. USE DEF CallSteps
<1>0. semPut \in Nat /\ CallShape /\ TypeOK
  BY DEF IInv, TypeOK
<1>1. ~CallerCalls
  BY DEF CallerCalls, Write, Flush, Finish
<1>2. CASE CheckError \/ AssertAlive \/ AcquirePut \/ TimeOut \/ RecheckError \/ StoreData
  BY <1>2 DEF CheckError, AssertAlive, AcquirePut, TimeOut, RecheckError, StoreData, Raise, caller
<1>3. CASE ReleaseGet
  <2>1. /\ pc = "release" /\ op' = op
        /\ pc' \in {"idle", IF op = "finish" THEN "join" ELSE "reraise"}
    BY <1>3 DEF ReleaseGet, Raise, caller
  <2>. QED BY <2>1
<1>4. CASE Reraise
  <2>1. /\ pc = "reraise"
        /\ pc' = "idle" \/ (pc' = "check" /\ op' = "finish")
    BY <1>4 DEF Reraise, StartPut, Raise, Return
  <2>. QED BY <2>1
<1>5. CASE ReadWaitObj \/ Join \/ FinishReturns
  BY <1>5 DEF ReadWaitObj, Join, JoinThread, FinishReturns, Raise, Return
<1>6. CASE RequestGoesOn \/ Reissue
  <2>1. UNCHANGED <<pc, op>> /\ semPut' >= semPut /\ (wpc = "dead" => wpc' = "dead")
    BY <1>0, <1>6 DEF RequestGoesOn, Connected, AcquireGet, TakeData, ReleasePut, Send, Reissue,
       RequestReturns, RequestRaises, ClearWaitObj, EndThread, ReleasedAtEnd, caller, slot
  <2>2. CallerContinues => pc' # pc
    BY DEF CallerContinues, CheckError, AssertAlive, AcquirePut, RecheckError, StoreData,
       ReleaseGet, Reraise, ReadWaitObj, Join, JoinThread, FinishReturns, StartPut, Raise, Return
  <2>. QED BY <1>0, <2>1, <2>2 DEF AwaitsThread, TypeOK
<1>. QED
  BY <1>1, <1>2, <1>3, <1>4, <1>5, <1>6 DEF Next, CallerContinues

(* Whatever a call waits for, the slot or the end of the thread, it gets.   *)
LEMMA WaitingEnds == Spec /\ []GuardsSuffice => (AwaitsThread ~> ~AwaitsThread)
<1>. DEFINE Near(k) == AwaitsThread /\ ThreadSteps < k
            Falls(k, j) ==
              /\ Near(k) /\ [Next]_vars => Near(k)' \/ (~AwaitsThread)'
              /\ Near(k) /\ <<RequestGoesOn>>_vars => Near(j)' \/ (~AwaitsThread)'
<1>1. ASSUME IInv, HandedBack, NEW k \in Nat
      PROVE  Falls(k + 1, k)
  <2>1. ThreadSteps \in 0..10 /\ (TypeOK' => ThreadSteps' \in 0..10)
    BY <1>1, StepsAreNat DEF IInv, TypeOK, ThreadSteps
  <2>2. RequestGoesOn => Next
    BY DEF Next
  <2>3. Next => TypeOK'
    BY <1>1, TypeStep DEF IInv
  <2>4. AwaitsThread /\ Next /\ AwaitsThread' => ThreadSteps' < ThreadSteps
    BY <1>1, ThreadComesNearer
  <2>5. UNCHANGED vars => (AwaitsThread' <=> AwaitsThread) /\ ThreadSteps' = ThreadSteps
    BY DEF vars, caller, slot, request, AwaitsThread, ThreadSteps
  <2>. QED BY <2>1, <2>2, <2>3, <2>4, <2>5
<1>2. ASSUME IInv, HandedBack
      PROVE  /\ AwaitsThread => Near(11) /\ RequestGuard
             /\ ~Near(0)
             /\ Falls(11, 10) /\ Falls(10, 9) /\ Falls(9, 8) /\ Falls(8, 7)
             /\ Falls(7, 6) /\ Falls(6, 5) /\ Falls(5, 4) /\ Falls(4, 3)
             /\ Falls(3, 2) /\ Falls(2, 1) /\ Falls(1, 0)
  <2>1. \A k \in Nat : Falls(k + 1, k)
    BY <1>1, <1>2
  <2>2. ThreadSteps \in 0..10
    BY <1>2, StepsAreNat DEF IInv
  <2>3. AwaitsThread => RequestGuard
    BY <1>2, ThreadGoesOn
  <2>. HIDE DEF Falls
  <2>4. \A k \in 0..10 : Falls(k + 1, k)
    BY <2>1
  <2>. QED BY <2>2, <2>3, <2>4
<1>3. GuardsSuffice => (RequestGuard => ENABLED <<RequestGoesOn>>_vars)
  BY DEF GuardsSuffice
<1>. QED BY <1>2, <1>3, Invariant, SlotHandedBack, PTL DEF Spec, Fairness

(* Every call returns.                                                      *)
THEOREM CallsDoReturn == Spec /\ []GuardsSuffice => CallsReturn
<1>. DEFINE Busy == pc # "idle"
            Idle == pc = "idle"
            Near(k) == Busy /\ CallSteps < k
            Free(k) == Near(k) /\ ~AwaitsThread
            Falls(k, j) ==
              /\ Near(k) /\ [Next]_vars => Near(k)' \/ Idle'
              /\ Free(k) /\ [Next]_vars => Free(k)' \/ Near(j)' \/ Idle'
              /\ Free(k) /\ <<CallerContinues>>_vars => Near(j)' \/ Idle'
<1>1. ASSUME IInv, NEW k \in Nat
      PROVE  Falls(k + 1, k)
  <2>1. CallSteps \in 0..16 /\ (TypeOK' => CallSteps' \in 0..16)
    BY <1>1, StepsAreNat DEF IInv, TypeOK, CallSteps
  <2>2. CallerContinues => Next
    BY DEF Next
  <2>3. Next => TypeOK'
    BY <1>1, TypeStep DEF IInv
  <2>4. Busy /\ Next =>
          \/ CallSteps' < CallSteps
          \/ /\ CallSteps' = CallSteps /\ Busy' /\ ~CallerContinues
             /\ ~AwaitsThread => ~AwaitsThread'
    BY <1>1, CallComesNearer
  <2>5. UNCHANGED vars => /\ AwaitsThread' <=> AwaitsThread
                          /\ CallSteps' = CallSteps /\ pc' = pc
    BY DEF vars, caller, slot, request, AwaitsThread, CallSteps
  <2>. QED BY <2>1, <2>2, <2>3, <2>4, <2>5
<1>2. ASSUME IInv
      PROVE  /\ Busy => Near(17)
             /\ ~Near(0)
             /\ Falls(17, 16) /\ Falls(16, 15) /\ Falls(15, 14) /\ Falls(14, 13)
             /\ Falls(13, 12) /\ Falls(12, 11) /\ Falls(11, 10) /\ Falls(10, 9)
             /\ Falls(9, 8) /\ Falls(8, 7) /\ Falls(7, 6) /\ Falls(6, 5)
             /\ Falls(5, 4) /\ Falls(4, 3) /\ Falls(3, 2) /\ Falls(2, 1) /\ Falls(1, 0)
  <2>1. \A k \in Nat : Falls(k + 1, k)
    BY <1>1, <1>2
  <2>2. CallSteps \in 0..16
    BY <1>2, StepsAreNat DEF IInv
  <2>. HIDE DEF Falls
  <2>3. \A k \in 0..16 : Falls(k + 1, k)
    BY <2>1
  <2>. QED BY <2>2, <2>3
<1>3. /\ GuardsSuffice => (Busy /\ ~AwaitsThread => ENABLED <<CallerContinues>>_vars)
      /\ Busy <=> ~Idle
  BY DEF GuardsSuffice, CallerGuard
<1>4. CallsReturn <=> (Busy ~> Idle)
  BY DEF CallsReturn
<1>. HIDE DEF Busy, Idle
<1>5. Spec /\ []GuardsSuffice => (Busy ~> Idle)
  BY <1>2, <1>3, WaitingEnds, Invariant, PTL DEF Spec, Fairness
<1>. QED BY <1>4, <1>5, PTL

=============================================================================
