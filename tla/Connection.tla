---------------------------- MODULE Connection -----------------------------
(***************************************************************************)
(* The access handler MHDconnectionCB of lib/src/http.cc, from the first   *)
(* call for a request to the completion callback, on one connection.       *)
(*                                                                         *)
(* libmicrohttpd decides when the handler is called: once with the         *)
(* headers, then with a part of the body as long as there is one, then     *)
(* with no data until a response is queued.  Bytes that the handler does   *)
(* not take are offered again.  The controller and the processor are the   *)
(* user's: they may answer or not, and take any part of what they get.     *)
(*                                                                         *)
(* Each branch of the handler is one action: calls on one connection do    *)
(* not overlap.                                                            *)
(***************************************************************************)
EXTENDS Naturals

CONSTANTS MaxBody,   \* longest body, in bytes
          WordMax    \* largest size_t

ASSUME ConnectionAssumption ==
    /\ MaxBody \in Nat
    /\ WordMax \in Nat /\ MaxBody + 1 < WordMax

VARIABLES
    stage,      \* libmicrohttpd: where it is in the request
    request,    \* what the handler and the router make of the headers
    unread,     \* bytes of the body that have not arrived
    dataSize,   \* bytes offered to the handler (*dataSize)
    queued,     \* status of the response queued, 0 for none
    object,     \* does *con_cls point to a ConnectionObject
    state,      \* RequestState of the request
    response,   \* status of co->response, 0 for none
    ctrl,       \* co->ctrl is set
    pp,         \* the request has a processor
    fed,        \* bytes the processor has taken
    ends        \* how often the processor was told the end of the data

network == <<stage, request, unread>>
handler == <<object, state, response, ctrl, pp>>
processor == <<fed, ends>>
vars == <<network, dataSize, queued, handler, processor>>

\* Only the distinctions that the handler makes: the method (bad: not one of
\* parseHttpMethod's), checkRequest's verdict and the router's.
Requests == [method : {"GET", "POST", "bad"},
             check  : {200, 400, 505},
             route  : {"found", "tsr", "none"},
             length : 0..MaxBody]

States == {"INITIAL", "INITIAL_COMPLETE", "DATA_RECEIVING", "DATA_RECEIVED",
           "RS_ERROR"}

\* 200 stands for whatever the controller answers.
Statuses == {0, 200, 301, 400, 404, 405, 505}

TypeOK ==
    /\ stage \in {"idle", "headers", "body", "queued", "closing"}
    /\ request \in Requests
    /\ unread \in 0..MaxBody
    /\ dataSize \in 0..MaxBody
    /\ queued \in Statuses
    /\ object \in BOOLEAN
    /\ state \in States
    /\ response \in Statuses
    /\ ctrl \in BOOLEAN
    /\ pp \in BOOLEAN
    /\ fed \in 0..MaxBody
    /\ ends \in 0..2

(***************************************************************************)
(* libmicrohttpd.                                                          *)
(***************************************************************************)
RequestArrives ==
    /\ stage = "idle"
    /\ stage' = "headers"
    /\ \E r \in Requests : request' = r /\ unread' = r.length
    /\ fed' = 0 /\ ends' = 0
    /\ UNCHANGED <<dataSize, queued, handler>>

DataArrives ==
    /\ stage = "body"
    /\ \E n \in 1..unread : unread' = unread - n /\ dataSize' = dataSize + n
    /\ UNCHANGED <<stage, request, queued, handler, processor>>

\* The client goes away, a timeout, the daemon is stopped.
Abort ==
    /\ stage \in {"headers", "body", "queued"}
    /\ stage' = "closing"
    /\ UNCHANGED <<request, unread, dataSize, queued, handler, processor>>

\* connectionFinishCB, after the response or because the connection closes.
Finish ==
    /\ stage \in {"queued", "closing"}
    /\ stage' = "idle"
    /\ object' = FALSE /\ state' = "INITIAL" /\ response' = 0
    /\ ctrl' = FALSE /\ pp' = FALSE
    /\ unread' = 0 /\ dataSize' = 0 /\ queued' = 0
    /\ fed' = 0 /\ ends' = 0
    /\ UNCHANGED request

\* MHD_queue_response may refuse: the handler returns MHD_NO, which closes
\* the connection.
Queue(status) ==
    \/ stage' = "queued" /\ queued' = status
    \/ stage' = "closing" /\ UNCHANGED queued

(***************************************************************************)
(* First call: there is no ConnectionObject.                               *)
(***************************************************************************)
FirstCall == stage = "headers" /\ ~object

BadMethod ==
    /\ FirstCall /\ request.method = "bad"
    /\ Queue(405)
    /\ UNCHANGED <<request, unread, dataSize, handler, processor>>

\* The ConnectionObject is made, and no controller is asked.
Refuse ==
    /\ FirstCall /\ request.method # "bad"
    /\ \/ request.check # 200 /\ response' = request.check
       \/ request.check = 200 /\ request.route = "tsr" /\ response' = 301
       \/ request.check = 200 /\ request.route = "none" /\ response' = 404
    /\ object' = TRUE /\ state' = "INITIAL"
    /\ Queue(response')
    /\ UNCHANGED <<request, unread, dataSize, ctrl, pp, processor>>

\* Mutant: the state stays INITIAL after onConnection.
ConnectUnmarked ==
    /\ FirstCall /\ request.method # "bad"
    /\ request.check = 200 /\ request.route = "found"
    /\ object' = TRUE /\ ctrl' = TRUE /\ state' = "INITIAL"
    /\ pp' \in BOOLEAN
    /\ \/ response' = 200 /\ Queue(200)
       \/ response' = 0 /\ stage' = "body" /\ UNCHANGED queued
    /\ UNCHANGED <<request, unread, dataSize, processor>>

\* onConnection may set a processor, and may answer.
Connect ==
    /\ FirstCall /\ request.method # "bad"
    /\ request.check = 200 /\ request.route = "found"
    /\ object' = TRUE /\ ctrl' = TRUE
    /\ pp' \in BOOLEAN
    /\ \/ /\ response' = 200 /\ state' = "INITIAL"
          /\ Queue(200)
       \/ /\ response' = 0 /\ state' = "INITIAL_COMPLETE"
          /\ stage' = "body" /\ UNCHANGED queued
    /\ UNCHANGED <<request, unread, dataSize, processor>>

(***************************************************************************)
(* Later calls: with data, or without when the body is complete.           *)
(***************************************************************************)
CallWithData == stage = "body" /\ dataSize > 0
LastCall == stage = "body" /\ dataSize = 0 /\ unread = 0

\* Mutant: *dataSize = 0 is missing.
DropNothing == CallWithData /\ state = "RS_ERROR" /\ UNCHANGED vars

\* After an error the rest of the body is dropped, then the error is sent.
DropData ==
    /\ CallWithData /\ state = "RS_ERROR"
    /\ dataSize' = 0
    /\ UNCHANGED <<network, queued, handler, processor>>

\* Mutant: the error is sent while there is a body to read.
SendErrorAtOnce ==
    /\ stage = "body" /\ state = "RS_ERROR"
    /\ Queue(response)
    /\ UNCHANGED <<request, unread, dataSize, handler, processor>>

SendError ==
    /\ LastCall /\ state = "RS_ERROR"
    /\ Queue(response)
    /\ UNCHANGED <<request, unread, dataSize, handler, processor>>

\* Mutant: the state is not set to RS_ERROR.
RejectsOnce(status) ==
    /\ response' = status
    /\ dataSize' = 0
    /\ UNCHANGED <<network, queued, object, state, ctrl, pp, processor>>

Rejects(status) ==
    /\ response' = status /\ state' = "RS_ERROR"
    /\ dataSize' = 0
    /\ UNCHANGED <<network, queued, object, ctrl, pp, processor>>

DataInGet ==
    /\ CallWithData /\ state # "RS_ERROR"
    /\ request.method = "GET"
    /\ Rejects(400)

NoProcessor ==
    /\ CallWithData /\ state # "RS_ERROR"
    /\ request.method # "GET" /\ ~pp
    /\ Rejects(405)

\* A processor says how much of n bytes it has taken, up to one more than
\* there are, or fails; what it says beyond n is cut to n.
ParseFailed == WordMax
Answers(n) == 0..(n + 1) \cup {ParseFailed}

\* Mutant: what a processor says is not cut.
TakenUncut(size, n) == IF size = ParseFailed THEN n ELSE size
Taken(size, n) == IF size > n THEN n ELSE size

\* Mutant: *dataSize stays as it is.
MinusNothing(n, size) == n

\* *dataSize -= size in the arithmetic of size_t.
Minus(n, size) == IF size <= n THEN n - size ELSE WordMax + 1 + n - size

ProcessData ==
    /\ CallWithData /\ state # "RS_ERROR"
    /\ request.method # "GET" /\ pp
    /\ \E size \in Answers(dataSize) :
          /\ dataSize' = Minus(dataSize, Taken(size, dataSize))
          /\ \/ /\ size = ParseFailed
                /\ response' = 400 /\ state' = "RS_ERROR"
                /\ UNCHANGED fed
             \/ /\ size # ParseFailed
                /\ state' = IF state = "INITIAL_COMPLETE"
                              THEN "DATA_RECEIVING" ELSE state
                /\ fed' = fed + Taken(size, dataSize)
                /\ UNCHANGED response
    /\ UNCHANGED <<network, queued, object, ctrl, pp, ends>>

\* The processor is told the end of the data; what it says is not looked at.
TellEnd ==
    /\ LastCall /\ state = "DATA_RECEIVING"
    /\ ends' = ends + 1
    /\ state' = "DATA_RECEIVED"
    /\ UNCHANGED <<network, dataSize, queued, object, response, ctrl, pp, fed>>

\* Mutant: onRequest before the processor has been told the end.
HandleRequestEarly ==
    /\ LastCall /\ state # "RS_ERROR"
    /\ \/ response' = 200 /\ Queue(200)
       \/ response = 0 /\ UNCHANGED <<response, stage, queued>>
    /\ UNCHANGED <<request, unread, dataSize, object, state, ctrl, pp,
                   processor>>

\* onRequest answers, or does not and is called again.
HandleRequest ==
    /\ LastCall /\ state \notin {"RS_ERROR", "DATA_RECEIVING"}
    /\ \/ response' = 200 /\ Queue(200)
       \/ response = 0 /\ UNCHANGED <<response, stage, queued>>
    /\ UNCHANGED <<request, unread, dataSize, object, state, ctrl, pp,
                   processor>>

(***************************************************************************)
(* The specification.                                                      *)
(***************************************************************************)
Init ==
    /\ stage = "idle"
    /\ request = [method |-> "GET", check |-> 200, route |-> "found",
                  length |-> 0]
    /\ unread = 0 /\ dataSize = 0 /\ queued = 0
    /\ object = FALSE /\ state = "INITIAL" /\ response = 0
    /\ ctrl = FALSE /\ pp = FALSE
    /\ fed = 0 /\ ends = 0

Call ==
    \/ BadMethod \/ Refuse \/ Connect \/ DropData \/ SendError \/ DataInGet
    \/ NoProcessor \/ ProcessData \/ TellEnd \/ HandleRequest

Next == RequestArrives \/ DataArrives \/ Abort \/ Finish \/ Call

Spec == Init /\ [][Next]_vars

\* A call that changes where the exchange is.
Advance == Call /\ <<stage, state, dataSize>>' # <<stage, state, dataSize>>

(***************************************************************************)
(* The daemon's thread calls the handler as long as there is something to  *)
(* do and the body arrives; a processor does not refuse for ever to take   *)
(* bytes, nor a controller to answer.                                      *)
(***************************************************************************)
FairSpec == Spec /\ WF_vars(DataArrives) /\ WF_vars(Advance)

(***************************************************************************)
(* Properties                                                              *)
(***************************************************************************)

\* The assertions of the handler (http.cc:271-272 and 279): on a later call
\* the state is not INITIAL, and there is a processor to tell the end to.
AssertionsHold ==
    /\ stage = "body" => object /\ state # "INITIAL"
    /\ state = "DATA_RECEIVING" => pp

\* Until an error, every byte of the body has been taken by the processor,
\* is being offered or has yet to arrive: none is lost or offered again
\* after it was taken, whatever the processor returns (http.cc:323-344).
EveryByteOnce ==
    stage = "body" /\ state # "RS_ERROR" =>
        fed + dataSize + unread = request.length

\* A controller that lets the body in answers when the processor has all of
\* it and has been told the end, once; an empty body has no end
\* (http.cc:277-292).
ControllerAnswersLast ==
    queued = 200 /\ state # "INITIAL" =>
        /\ fed = request.length
        /\ ends = (IF request.length = 0 THEN 0 ELSE 1)

\* libmicrohttpd accepts a response on the first call and when the body has
\* been read: the handler never queues one between (http.cc:261-268).
QueuedWhenAllowed ==
    [][queued = 0 /\ queued' # 0 =>
          stage = "headers" \/ (unread = 0 /\ dataSize = 0)]_vars

\* Where the exchange of Exchange.tla is.
Phase == CASE stage = "idle"    -> "idle"
           [] stage = "headers" -> "fresh"
           [] stage = "body"    -> IF state = "RS_ERROR" THEN "failed"
                                                         ELSE "reading"
           [] stage = "queued"  -> "answered"
           [] stage = "closing" -> "lost"
Left == IF stage = "idle" THEN 0 ELSE request.length - fed
Body == CASE state \in {"INITIAL", "INITIAL_COMPLETE"} -> "untouched"
          [] state \in {"DATA_RECEIVING", "RS_ERROR"}  -> "begun"
          [] state = "DATA_RECEIVED"                   -> "ended"

E == INSTANCE Exchange WITH phase <- Phase, left <- Left, body <- Body

\* The handler, byte by byte and call by call, is the exchange that a user of
\* the library counts on (http.cc:186-348 against Exchange.tla).
ExchangeRefined == E!Spec

\* Every request ends in a response or in a closed connection.
EveryRequestEnds == (stage = "headers") ~> (stage \in {"queued", "closing"})
=============================================================================
