-------------------------- MODULE ConnectionProofs -------------------------
(***************************************************************************)
(* Connection, for bodies of any length: what the handler does with the    *)
(* bytes and when the controller answers, and that it implements Exchange. *)
(***************************************************************************)
EXTENDS Connection, TLAPS

\* Nothing has happened to a request before the first call.
FreshInv ==
    /\ stage \in {"idle", "headers"} =>
          /\ ~object /\ state = "INITIAL" /\ response = 0 /\ queued = 0
          /\ ~pp /\ dataSize = 0 /\ fed = 0 /\ ends = 0
    /\ stage = "headers" => unread = request.length
    /\ stage = "idle" => unread = 0

\* Where the bytes are.  After an error some have been dropped.
BytesInv == stage # "idle" => fed + dataSize + unread <= request.length

\* What each state of the request says of its bytes and of its answer.
StateInv ==
    /\ stage \in {"headers", "body"} => queued = 0
    /\ state = "INITIAL_COMPLETE" => fed = 0 /\ ends = 0
    /\ state = "DATA_RECEIVING" => ends = 0 /\ request.length > 0
    /\ state = "DATA_RECEIVED" =>
          ends = 1 /\ request.length > 0 /\ fed = request.length
    /\ state = "RS_ERROR" => ends = 0 /\ response \in {400, 405}

IInv == /\ TypeOK
        /\ FreshInv
        /\ BytesInv
        /\ StateInv
        /\ AssertionsHold
        /\ EveryByteOnce
        /\ ControllerAnswersLast

-----------------------------------------------------------------------------

LEMMA RequestType ==
    ASSUME request \in Requests
    PROVE  request.length \in 0..MaxBody /\ request.check \in {200, 400, 505}
BY DEF Requests

\* What a processor's answer does to the number of bytes on offer.
LEMMA TakenType ==
    ASSUME NEW n \in 0..MaxBody, NEW size \in Answers(n)
    PROVE  /\ Taken(size, n) \in 0..n
           /\ Minus(n, Taken(size, n)) = n - Taken(size, n)
BY ConnectionAssumption DEF Answers, Taken, Minus, ParseFailed

LEMMA InitInv == Init => IInv
<1> SUFFICES ASSUME Init PROVE IInv
  OBVIOUS
<1> USE DEF Init
<1>1. request \in Requests
  BY ConnectionAssumption DEF Requests
<1>2. TypeOK
  <2>1. 0 \in 0..MaxBody
    BY ConnectionAssumption
  <2>2. /\ unread \in 0..MaxBody /\ dataSize \in 0..MaxBody
        /\ fed \in 0..MaxBody /\ ends \in 0..2
    BY <2>1
  <2>3. object \in BOOLEAN /\ ctrl \in BOOLEAN /\ pp \in BOOLEAN
    BY Zenon
  <2>4. /\ stage \in {"idle", "headers", "body", "queued", "closing"}
        /\ state \in States /\ queued \in Statuses /\ response \in Statuses
    BY DEF States, Statuses
  <2> QED
    BY <1>1, <2>2, <2>3, <2>4 DEF TypeOK
<1>3. FreshInv /\ BytesInv /\ StateInv
  BY DEF FreshInv, BytesInv, StateInv
<1>4. AssertionsHold /\ EveryByteOnce /\ ControllerAnswersLast
  BY DEF AssertionsHold, EveryByteOnce, ControllerAnswersLast
<1> QED
  BY <1>2, <1>3, <1>4 DEF IInv

\* The steps of libmicrohttpd.
LEMMA NetworkStep ==
    ASSUME IInv, RequestArrives \/ DataArrives \/ Abort \/ Finish
    PROVE  IInv'
<1> USE RequestType, ConnectionAssumption
    DEF IInv, TypeOK, FreshInv, BytesInv, StateInv, AssertionsHold,
        EveryByteOnce, ControllerAnswersLast, States, Statuses, network,
        handler, processor
<1>1. CASE RequestArrives
  <2> PICK r \in Requests : request' = r /\ unread' = r.length
    BY <1>1 DEF RequestArrives
  <2>1. request'.length \in 0..MaxBody
    BY DEF Requests
  <2> QED
    BY <1>1, <2>1 DEF RequestArrives
<1>2. CASE DataArrives
  BY <1>2 DEF DataArrives
<1>3. CASE Abort
  BY <1>3 DEF Abort
<1>4. CASE Finish
  <2> USE <1>4 DEF Finish
  <2>1. TypeOK'
    <3>1. 0 \in 0..MaxBody
      OBVIOUS
    <3>2. /\ unread' \in 0..MaxBody /\ dataSize' \in 0..MaxBody
          /\ fed' \in 0..MaxBody /\ ends' \in 0..2
      BY <3>1
    <3>3. object' \in BOOLEAN /\ ctrl' \in BOOLEAN /\ pp' \in BOOLEAN
      BY Zenon
    <3>4. /\ stage' \in {"idle", "headers", "body", "queued", "closing"}
          /\ state' \in States /\ queued' \in Statuses
          /\ response' \in Statuses
      OBVIOUS
    <3> QED
      BY <3>2, <3>3, <3>4
  <2>2. FreshInv' /\ BytesInv' /\ StateInv'
    OBVIOUS
  <2>3. AssertionsHold' /\ EveryByteOnce' /\ ControllerAnswersLast'
    OBVIOUS
  <2> QED
    BY <2>1, <2>2, <2>3
<1> QED
  BY <1>1, <1>2, <1>3, <1>4

\* The first call.
LEMMA FirstCallStep ==
    ASSUME IInv, BadMethod \/ Refuse \/ Connect
    PROVE  IInv'
<1> USE RequestType, ConnectionAssumption
    DEF IInv, TypeOK, FreshInv, BytesInv, StateInv, AssertionsHold,
        EveryByteOnce, ControllerAnswersLast, States, Statuses, network,
        handler, processor, FirstCall, Queue
<1>1. CASE BadMethod
  BY <1>1 DEF BadMethod
<1>2. CASE Refuse
  BY <1>2 DEF Refuse
<1>3. CASE Connect
  BY <1>3 DEF Connect
<1> QED
  BY <1>1, <1>2, <1>3

\* The later calls.
LEMMA LaterCallStep ==
    ASSUME IInv,
           \/ DropData \/ SendError \/ DataInGet \/ NoProcessor
           \/ ProcessData \/ TellEnd \/ HandleRequest
    PROVE  IInv'
<1> USE RequestType, ConnectionAssumption
    DEF IInv, TypeOK, FreshInv, BytesInv, StateInv, AssertionsHold,
        EveryByteOnce, ControllerAnswersLast, States, Statuses, network,
        handler, processor, CallWithData, LastCall, Queue, Rejects
<1>1. CASE DropData
  BY <1>1 DEF DropData
<1>2. CASE SendError
  BY <1>2 DEF SendError
<1>3. CASE DataInGet
  BY <1>3 DEF DataInGet
<1>4. CASE NoProcessor
  BY <1>4 DEF NoProcessor
<1>5. CASE ProcessData
  <2> PICK size \in Answers(dataSize) :
          /\ dataSize' = Minus(dataSize, Taken(size, dataSize))
          /\ \/ /\ size = ParseFailed
                /\ response' = 400 /\ state' = "RS_ERROR"
                /\ UNCHANGED fed
             \/ /\ size # ParseFailed
                /\ state' = IF state = "INITIAL_COMPLETE"
                              THEN "DATA_RECEIVING" ELSE state
                /\ fed' = fed + Taken(size, dataSize)
                /\ UNCHANGED response
    BY <1>5 DEF ProcessData
  <2>1. /\ Taken(size, dataSize) \in 0..dataSize
        /\ dataSize' = dataSize - Taken(size, dataSize)
    BY TakenType
  <2>2. /\ stage = "body" /\ dataSize > 0 /\ state # "RS_ERROR" /\ pp
        /\ UNCHANGED <<network, queued, object, ctrl, pp, ends>>
    BY <1>5 DEF ProcessData
  <2>3. /\ fed \in Nat /\ dataSize \in Nat /\ unread \in Nat
        /\ request.length \in 0..MaxBody
        /\ fed + dataSize + unread = request.length
    BY <2>2
  <2>4. CASE size = ParseFailed
    BY <2>1, <2>2, <2>3, <2>4
  <2>5. CASE size # ParseFailed
    <3>1. fed' + dataSize' + unread' = request.length
      BY <2>1, <2>2, <2>3, <2>5
    <3>2. fed' \in 0..MaxBody /\ dataSize' \in 0..MaxBody
      BY <2>1, <2>2, <2>3, <2>5
    <3>3. state \in {"INITIAL_COMPLETE", "DATA_RECEIVING"}
      BY <2>2, <2>3
    <3> QED
      BY <2>2, <2>3, <2>5, <3>1, <3>2, <3>3
  <2> QED
    BY <2>4, <2>5
<1>6. CASE TellEnd
  BY <1>6 DEF TellEnd
<1>7. CASE HandleRequest
  BY <1>7 DEF HandleRequest
<1> QED
  BY <1>1, <1>2, <1>3, <1>4, <1>5, <1>6, <1>7

LEMMA NextInv == IInv /\ [Next]_vars => IInv'
<1> SUFFICES ASSUME IInv, [Next]_vars PROVE IInv'
  OBVIOUS
<1>1. CASE Next
  BY <1>1, NetworkStep, FirstCallStep, LaterCallStep DEF Next, Call
<1>2. CASE UNCHANGED vars
  BY <1>2 DEF vars, network, handler, processor, IInv, TypeOK, FreshInv,
     BytesInv, StateInv, AssertionsHold, EveryByteOnce, ControllerAnswersLast
<1> QED
  BY <1>1, <1>2

LEMMA Inductive == Spec => []IInv
BY InitInv, NextInv, PTL DEF Spec

-----------------------------------------------------------------------------

\* Every variable keeps its type: *dataSize does not wrap below 0.
THEOREM TypeCorrect == Spec => []TypeOK
<1>1. IInv => TypeOK
  BY DEF IInv
<1> QED
  BY <1>1, Inductive, PTL

\* The handler's two assertions on a later call hold (http.cc:271, 279).
THEOREM AssertionsAreSafe == Spec => []AssertionsHold
<1>1. IInv => AssertionsHold
  BY DEF IInv
<1> QED
  BY <1>1, Inductive, PTL

\* No byte of a body is lost or taken twice before an error.
THEOREM BytesAreKept == Spec => []EveryByteOnce
<1>1. IInv => EveryByteOnce
  BY DEF IInv
<1> QED
  BY <1>1, Inductive, PTL

\* A controller that let the body in answers after all of it.
THEOREM AnswerComesLast == Spec => []ControllerAnswersLast
<1>1. IInv => ControllerAnswersLast
  BY DEF IInv
<1> QED
  BY <1>1, Inductive, PTL

-----------------------------------------------------------------------------

LEMMA InitRefined == Init => E!Init
BY DEF Init, E!Init, Phase, Left, Body

LEMMA NextRefined ==
    ASSUME IInv, IInv', [Next]_vars
    PROVE  [E!Next]_(E!vars)
<1> USE RequestType, ConnectionAssumption
    DEF IInv, TypeOK, FreshInv, BytesInv, StateInv, AssertionsHold,
        EveryByteOnce, States, Statuses, network, handler, processor,
        Phase, Left, Body, E!vars
<1>1. CASE RequestArrives
  <2>1. PICK r \in Requests : request' = r /\ unread' = r.length
    BY <1>1 DEF RequestArrives
  <2>2. Left' \in 0..MaxBody
    BY <1>1, <2>1 DEF RequestArrives, Requests
  <2>3. E!Arrive
    BY <1>1, <2>2 DEF RequestArrives, E!Arrive
  <2> QED
    BY <2>3 DEF E!Next
<1>2. CASE DataArrives
  BY <1>2 DEF DataArrives
<1>3. CASE Abort
  <2>1. E!Lose
    BY <1>3 DEF Abort, E!Lose
  <2> QED
    BY <2>1 DEF E!Next
<1>4. CASE Finish
  <2>1. E!Reset
    BY <1>4 DEF Finish, E!Reset
  <2> QED
    BY <2>1 DEF E!Next
<1>5. CASE BadMethod \/ Refuse \/ Connect
  <2>1. E!AnswerAtOnce \/ E!Lose \/ E!Accept
    BY <1>5 DEF BadMethod, Refuse, Connect, FirstCall, Queue,
       E!AnswerAtOnce, E!Lose, E!Accept
  <2> QED
    BY <2>1 DEF E!Next
<1>6. CASE DropData
  BY <1>6 DEF DropData, CallWithData
<1>7. CASE SendError
  <2>1. E!AnswerFailure \/ E!Lose
    BY <1>7 DEF SendError, LastCall, Queue, E!AnswerFailure, E!Lose
  <2> QED
    BY <2>1 DEF E!Next
<1>8. CASE DataInGet \/ NoProcessor
  <2>1. E!Fail
    BY <1>8 DEF DataInGet, NoProcessor, CallWithData, Rejects, E!Fail
  <2> QED
    BY <2>1 DEF E!Next
<1>9. CASE ProcessData
  <2>1. PICK size \in Answers(dataSize) :
          \/ /\ size = ParseFailed
             /\ response' = 400 /\ state' = "RS_ERROR"
             /\ UNCHANGED fed
          \/ /\ size # ParseFailed
             /\ state' = IF state = "INITIAL_COMPLETE"
                           THEN "DATA_RECEIVING" ELSE state
             /\ fed' = fed + Taken(size, dataSize)
    BY <1>9 DEF ProcessData
  <2>2. /\ stage = "body" /\ dataSize > 0 /\ state # "RS_ERROR"
        /\ UNCHANGED network
    BY <1>9 DEF ProcessData, CallWithData
  <2>3. Taken(size, dataSize) \in 0..dataSize
    BY TakenType
  <2>4. E!Fail \/ E!Take
    BY <2>1, <2>2, <2>3 DEF E!Fail, E!Take
  <2> QED
    BY <2>4 DEF E!Next
<1>10. CASE TellEnd
  <2>1. E!TellEnd
    BY <1>10 DEF TellEnd, LastCall, E!TellEnd
  <2> QED
    BY <2>1 DEF E!Next
<1>11. CASE HandleRequest
  <2>1. E!Answer \/ E!Lose \/ UNCHANGED E!vars
    BY <1>11 DEF HandleRequest, LastCall, Queue, E!Answer, E!Lose
  <2> QED
    BY <2>1 DEF E!Next
<1>12. CASE UNCHANGED vars
  BY <1>12 DEF vars
<1> QED
  BY <1>1, <1>2, <1>3, <1>4, <1>5, <1>6, <1>7, <1>8, <1>9, <1>10, <1>11,
     <1>12 DEF Next, Call

\* The access handler implements the exchange of Exchange.tla, for bodies of
\* any length and processors that take any part of what they are given.
THEOREM HandlerImplementsExchange == Spec => ExchangeRefined
BY InitRefined, NextRefined, Inductive, PTL DEF Spec, ExchangeRefined, E!Spec

\* A response is queued on the first call or when the body has been read,
\* never between (http.cc:261-268).
THEOREM QueuedInTime == Spec => QueuedWhenAllowed
<1>1. [Next]_vars =>
        [queued = 0 /\ queued' # 0 =>
            stage = "headers" \/ (unread = 0 /\ dataSize = 0)]_vars
  <2> SUFFICES ASSUME [Next]_vars, queued = 0, queued' # 0
               PROVE  stage = "headers" \/ (unread = 0 /\ dataSize = 0)
    OBVIOUS
  <2>1. CASE BadMethod \/ Refuse \/ Connect
    BY <2>1 DEF BadMethod, Refuse, Connect, FirstCall
  <2>2. CASE SendError \/ HandleRequest
    BY <2>2 DEF SendError, HandleRequest, LastCall
  <2>3. CASE \/ RequestArrives \/ DataArrives \/ Abort \/ Finish \/ DropData
             \/ DataInGet \/ NoProcessor \/ ProcessData \/ TellEnd
             \/ UNCHANGED vars
    BY <2>3 DEF RequestArrives, DataArrives, Abort, Finish, DropData, DataInGet,
       NoProcessor, Rejects, ProcessData, TellEnd, vars, network
  <2> QED
    BY <2>1, <2>2, <2>3 DEF Next, Call
<1> QED
  BY <1>1, PTL DEF Spec, QueuedWhenAllowed
=============================================================================
