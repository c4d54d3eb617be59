-------------------------------- MODULE Form --------------------------------
(***************************************************************************)
(* Forms: FormProcessor and FormDataProcessorController of                 *)
(* lib/src/controller.cc, one controller with the requests it serves.      *)
(*                                                                         *)
(* A FormProcessor is named by the request it was made for.  It lives as   *)
(* long as a request holds it (dp_) or the controller does: pp, a member   *)
(* that every onConnection of every daemon overwrites.  The parser is      *)
(* libmicrohttpd's: it calls formIter for each piece of a field, and may   *)
(* keep back a last piece until it is destroyed.                           *)
(***************************************************************************)
EXTENDS Naturals

CONSTANTS Requests,   \* the requests that the controller is asked for
          Threads,    \* the daemons' threads
          ThreadOf,   \* the thread that serves a request
          Keys,       \* names of fields
          Files,      \* names of files
          NoOne       \* no request, no name

ASSUME FormAssumption ==
    /\ ThreadOf \in [Requests -> Threads]
    /\ NoOne \notin Requests \cup Keys \cup Files

VARIABLES
    slot,    \* FormDataProcessorController::pp
    proc,    \* the processor of each request
    step,    \* where each request is
    names,   \* kN_ and fN_ of each processor
    given,   \* the names of files in the body of each request so far
    told     \* the last call of the controller's onData

formVars == <<slot, proc, step, names, given, told>>

NoNames == [key |-> NoOne, file |-> NoOne]
Names == [key : Keys \cup {NoOne}, file : Files \cup {NoOne}]

\* whose: the request whose bytes these are; req: the request handed over.
Telling == [kind : {"none", "piece", "late", "end"},
            whose : Requests \cup {NoOne}, req : Requests \cup {NoOne},
            names : Names]

FormTypeOK ==
    /\ slot \in Requests \cup {NoOne}
    /\ proc \in [Requests -> Requests \cup {NoOne}]
    /\ step \in [Requests -> {"new", "made", "open", "failed", "ended",
                              "over"}]
    /\ names \in [Requests -> Names]
    /\ given \in [Requests -> SUBSET Files]
    /\ told \in Telling

\* A thread is in one handler at a time.
Serves(r) == \A q \in Requests : ThreadOf[q] = ThreadOf[r] => step[q] # "made"

\* The requests that keep processor p.
Holders(p) == {r \in Requests : proc[r] = p}

\* Mutant: the processor is asked of the controller.
ProcessorOfController(r) == slot

\* Whom data of r is given to.
ProcessorOf(r) == proc[r]

\* Mutant: the names of the processor before.
NamesOfLast(r) == IF slot = NoOne THEN NoNames ELSE names[slot]

FirstNames(r) == NoNames

\* The last reference to a processor goes.  Its parser may come out with a
\* piece it had kept back; if the request is gone, formIter locks a weak_ptr
\* that has expired.
Released(p, gone) ==
    \/ UNCHANGED told
    \/ /\ names[p] # NoNames
       /\ told' = [kind |-> "late", whose |-> p,
                   req |-> IF gone THEN NoOne ELSE p, names |-> names[p]]

\* onConnection of a request with the content type of a form: a new
\* FormProcessor takes the place of the one that pp held.
BuildProcessor(r) ==
    /\ step[r] = "new" /\ Serves(r)
    /\ slot' = r
    /\ step' = [step EXCEPT ![r] = "made"]
    /\ names' = [names EXCEPT ![r] = FirstNames(r)]
    /\ IF slot # NoOne /\ Holders(slot) = {}
         THEN Released(slot, step[slot] = "over")
         ELSE UNCHANGED told
    /\ UNCHANGED <<proc, given>>

\* Another content type, or libmicrohttpd makes no parser for this one
\* (isPrefixOfArray lets through what is a prefix of a form's type).
NoForm(r) ==
    /\ step[r] = "new" /\ Serves(r)
    /\ step' = [step EXCEPT ![r] = "open"]
    /\ UNCHANGED <<slot, proc, names, given, told>>

\* req->setProcessor(pp) reads pp again; then postConnection.
SetProcessor(r) ==
    /\ step[r] = "made"
    /\ proc' = [proc EXCEPT ![r] = slot]
    /\ step' = [step EXCEPT ![r] = "open"]
    /\ UNCHANGED <<slot, names, given, told>>

\* What FormProcessor::onData makes of the pointers it gets: a null one
\* leaves the name of the field before.
Renamed(p, key, file) ==
    [key |-> key, file |-> IF file = NoOne THEN names[p].file ELSE file]

\* Data of r: the parser comes out with a piece of a field, with the name of
\* a file or without.  The program may refuse it, which ends in ParseFailed.
Piece(r) ==
    /\ step[r] = "open" /\ ProcessorOf(r) # NoOne /\ Serves(r)
    /\ \E key \in Keys, file \in Files \cup {NoOne} :
          LET p == ProcessorOf(r) IN
          /\ names' = [names EXCEPT ![p] = Renamed(p, key, file)]
          /\ given' = [given EXCEPT ![r] = @ \cup ({file} \ {NoOne})]
          /\ told' = [kind |-> "piece", whose |-> r,
                      req |-> IF step[p] = "over" THEN NoOne ELSE p,
                      names |-> Renamed(p, key, file)]
    /\ \E then \in {"open", "failed"} : step' = [step EXCEPT ![r] = then]
    /\ UNCHANGED <<slot, proc>>

\* onData with no bytes: the end, with the names of the last field.
End(r) ==
    /\ step[r] = "open" /\ ProcessorOf(r) # NoOne /\ Serves(r)
    /\ told' = [kind |-> "end", whose |-> r, req |-> r,
                names |-> names[ProcessorOf(r)]]
    /\ step' = [step EXCEPT ![r] = "ended"]
    /\ UNCHANGED <<slot, proc, names, given>>

\* connectionFinishCB, after the response or because the client went away.
Finish(r) ==
    /\ step[r] \in {"open", "failed", "ended"} /\ Serves(r)
    /\ step' = [step EXCEPT ![r] = "over"]
    /\ proc' = [proc EXCEPT ![r] = NoOne]
    /\ LET p == proc[r] IN
       IF p # NoOne /\ Holders(p) = {r} /\ slot # p
         THEN Released(p, step'[p] = "over")
         ELSE UNCHANGED told
    /\ UNCHANGED <<slot, names, given>>

FormInit ==
    /\ slot = NoOne
    /\ proc = [r \in Requests |-> NoOne]
    /\ step = [r \in Requests |-> "new"]
    /\ names = [r \in Requests |-> NoNames]
    /\ given = [r \in Requests |-> {}]
    /\ told = [kind |-> "none", whose |-> NoOne, req |-> NoOne, names |-> NoNames]

FormNext ==
    \E r \in Requests :
        \/ BuildProcessor(r) \/ NoForm(r) \/ SetProcessor(r)
        \/ Piece(r) \/ End(r) \/ Finish(r)

FormSpec == FormInit /\ [][FormNext]_formVars

(***************************************************************************)
(* Properties                                                              *)
(***************************************************************************)

\* The program is handed the pieces of a body together with the request they
\* came in, while connections on one thread come and go: pp is read again
\* before anybody else can write it (controller.cc:128-129).
OwnPiece == told.kind = "piece" => told.req = told.whose

\* A name of a file that a piece comes with has been read in the body of the
\* same request: names are stale within a body, never from one to the next
\* (controller.cc:88-101).
NamesOfOwnBody ==
    told.kind \in {"piece", "end"} =>
        told.names.file \in given[told.whose] \cup {NoOne}

\* A piece that the parser comes out with when it is destroyed finds no
\* request: pp, or the request, has kept the processor until the request was
\* over (controller.cc:111-112 and 128).
LateMeansGone == told.kind = "late" => told.req = NoOne

\* A piece comes with its own request, or with none once that is over.
PieceOfItsRequest == OwnPiece /\ LateMeansGone

\* The request that a piece comes with has been through postConnection
\* (http_app_form_data.cc:39: EXPECT_EQ(req->userdata(), ptr), ptr being what
\* postConnection put there).
RequestPrepared ==
    told.kind = "piece" => told.req # NoOne /\ step[told.req] # "made"
=============================================================================
