------------------------------ MODULE PartsProofs -----------------------------
(***************************************************************************)
(* Proofs about the parts that share no state: Form, for any number of     *)
(* requests, when one thread serves them all (threadCount 1), so that      *)
(* nobody comes between the two accesses to pp in onConnection and a       *)
(* request's processor is its own; who owns the blocks of the heap in      *)
(* Response and RegexOwner, for any number of responses, requests,         *)
(* expressions, blocks and names of fields; Resolver, for any number of    *)
(* threads and look-ups, where c-ares is ready once inited is true and     *)
(* until the process exits; RouterTable, for any number of routes, methods *)
(* and controllers, any prefixes and any number of starts.                 *)
(***************************************************************************)
EXTENDS Form, Response, RegexOwner, Resolver, RouterTable, SequenceTheorems, TLAPS

(***************************************************************************)
(* Form.                                                                   *)
(***************************************************************************)

OneThread == \A r \in Requests, q \in Requests : ThreadOf[r] = ThreadOf[q]

\* A request has its own processor or none; pp is the one just made, or that
\* of a request which keeps it, or of one that is over.
OwnProcessor ==
    /\ \A r \in Requests : proc[r] \in {NoOne, r}
    /\ \A r \in Requests : step[r] = "made" => slot = r
    /\ \A r \in Requests : step[r] \in {"new", "made"} => names[r] = NoNames
    /\ \A r \in Requests : step[r] = "new" => slot # r
    /\ \A r \in Requests : step[r] \in {"new", "made", "over"} => proc[r] = NoOne
    /\ \A r \in Requests :
          slot = r /\ step[r] \in {"open", "failed", "ended"} => proc[r] = r

NamesRead == \A r \in Requests : names[r].file \in given[r] \cup {NoOne}

Told == OwnPiece /\ NamesOfOwnBody /\ LateMeansGone

Tidy == FormTypeOK /\ OwnProcessor /\ NamesRead /\ Told

LEMMA TidyInit == FormInit => Tidy
  BY FormAssumption DEF FormInit, Tidy, FormTypeOK, OwnProcessor, NamesRead,
     Told, OwnPiece, NamesOfOwnBody, LateMeansGone, NoNames, Names,
     Telling

\* A late piece of a request that is over finds no request.
LEMMA ReleasedTells ==
  ASSUME Tidy, NEW p \in Requests, Released(p, TRUE), given' = given
  PROVE  told' \in Telling /\ Told'
<1>1. CASE UNCHANGED told
  BY <1>1 DEF Tidy, FormTypeOK, Told, OwnPiece, NamesOfOwnBody,
     LateMeansGone
<1>2. CASE told' = [kind |-> "late", whose |-> p, req |-> NoOne,
                    names |-> names[p]]
  BY <1>2 DEF Tidy, FormTypeOK, Telling, Told, OwnPiece,
     NamesOfOwnBody, LateMeansGone
<1>3. QED
  BY <1>1, <1>2 DEF Released

LEMMA TidyNext ==
  ASSUME OneThread, Tidy, [FormNext]_formVars
  PROVE  Tidy'
<1> USE FormAssumption
<1>0. NoNames \in Names
  BY DEF NoNames, Names
<1>1. ASSUME NEW r \in Requests, BuildProcessor(r) PROVE Tidy'
  <2>1. /\ step[r] = "new" /\ slot' = r
        /\ step' = [step EXCEPT ![r] = "made"]
        /\ names' = [names EXCEPT ![r] = NoNames]
        /\ UNCHANGED <<proc, given>>
    BY <1>1 DEF BuildProcessor, FirstNames
  <2>2. \A q \in Requests : step[q] # "made"
    BY <1>1 DEF BuildProcessor, Serves, OneThread
  <2>3. told' \in Telling /\ Told'
    <3>1. CASE slot # NoOne /\ Holders(slot) = {}
      <4>1. slot \in Requests
        BY <3>1 DEF Tidy, FormTypeOK
      <4>2. proc[slot] # slot
        BY <3>1, <4>1 DEF Holders
      <4>3. step[slot] = "over"
        BY <2>2, <4>1, <4>2 DEF Tidy, FormTypeOK, OwnProcessor
      <4>4. Released(slot, TRUE)
        BY <1>1, <3>1, <4>3 DEF BuildProcessor
      <4>5. QED
        BY <2>1, <4>1, <4>4, ReleasedTells
    <3>2. CASE ~(slot # NoOne /\ Holders(slot) = {})
      <4>1. told' = told
        BY <1>1, <3>2 DEF BuildProcessor
      <4>2. QED
        BY <2>1, <4>1 DEF Tidy, FormTypeOK, Told, OwnPiece,
           NamesOfOwnBody, LateMeansGone
    <3>3. QED
      BY <3>1, <3>2
  <2>4. FormTypeOK'
    BY <1>0, <2>1, <2>3 DEF Tidy, FormTypeOK
  <2>5. OwnProcessor'
    BY <2>1, <2>2 DEF Tidy, FormTypeOK, OwnProcessor
  <2>6. NamesRead'
    BY <2>1 DEF Tidy, FormTypeOK, NamesRead, NoNames
  <2>7. QED
    BY <2>3, <2>4, <2>5, <2>6 DEF Tidy
<1>2. ASSUME NEW r \in Requests, NoForm(r) PROVE Tidy'
  BY <1>2 DEF NoForm, Tidy, FormTypeOK, OwnProcessor, NamesRead, Told,
     OwnPiece, NamesOfOwnBody, LateMeansGone
<1>3. ASSUME NEW r \in Requests, SetProcessor(r) PROVE Tidy'
  BY <1>3 DEF SetProcessor, Tidy, FormTypeOK, OwnProcessor, NamesRead, Told,
     OwnPiece, NamesOfOwnBody, LateMeansGone
<1>4. ASSUME NEW r \in Requests, Piece(r) PROVE Tidy'
  <2>1. proc[r] = r /\ step[r] = "open"
    BY <1>4 DEF Piece, ProcessorOf, Tidy, OwnProcessor
  <2>2. PICK key \in Keys, file \in Files \cup {NoOne} :
          /\ names' = [names EXCEPT ![r] = Renamed(r, key, file)]
          /\ given' = [given EXCEPT ![r] = @ \cup ({file} \ {NoOne})]
          /\ told' = [kind |-> "piece", whose |-> r, req |-> r,
                      names |-> Renamed(r, key, file)]
    BY <1>4, <2>1 DEF Piece, ProcessorOf
  <2>3. /\ UNCHANGED <<slot, proc>>
        /\ \E then \in {"open", "failed"} : step' = [step EXCEPT ![r] = then]
    BY <1>4 DEF Piece
  <2>4. /\ Renamed(r, key, file) \in Names
        /\ Renamed(r, key, file).file
              = IF file = NoOne THEN names[r].file ELSE file
    BY DEF Renamed, Names, Tidy, FormTypeOK
  <2> DEFINE n == Renamed(r, key, file)
  <2> HIDE DEF n
  <2>5. /\ n \in Names /\ n.file = IF file = NoOne THEN names[r].file ELSE file
        /\ names' = [names EXCEPT ![r] = n]
        /\ told' = [kind |-> "piece", whose |-> r, req |-> r, names |-> n]
    BY <2>2, <2>4 DEF n
  <2>6. FormTypeOK'
    BY <2>2, <2>3, <2>5 DEF Tidy, FormTypeOK, Telling
  <2>7. OwnProcessor'
    BY <2>1, <2>3, <2>5 DEF Tidy, FormTypeOK, OwnProcessor
  <2>8. n.file \in given'[r] \cup {NoOne}
    BY <2>2, <2>5 DEF Tidy, FormTypeOK, NamesRead
  <2>9. NamesRead'
    BY <2>2, <2>5, <2>8 DEF Tidy, FormTypeOK, NamesRead
  <2>10. Told'
    BY <2>5, <2>8 DEF Told, OwnPiece, NamesOfOwnBody, LateMeansGone
  <2>11. QED
    BY <2>6, <2>7, <2>9, <2>10 DEF Tidy
<1>5. ASSUME NEW r \in Requests, End(r) PROVE Tidy'
  <2>1. /\ proc[r] = r /\ step[r] = "open"
        /\ told' = [kind |-> "end", whose |-> r, req |-> r, names |-> names[r]]
        /\ step' = [step EXCEPT ![r] = "ended"]
        /\ UNCHANGED <<slot, proc, names, given>>
    BY <1>5 DEF End, ProcessorOf, Tidy, OwnProcessor
  <2>2. FormTypeOK'
    BY <2>1 DEF Tidy, FormTypeOK, Telling
  <2>3. OwnProcessor' /\ NamesRead'
    BY <2>1 DEF Tidy, FormTypeOK, OwnProcessor, NamesRead
  <2>4. Told'
    BY <2>1 DEF Tidy, NamesRead, Told, OwnPiece, NamesOfOwnBody,
       LateMeansGone
  <2>5. QED
    BY <2>2, <2>3, <2>4 DEF Tidy
<1>6. ASSUME NEW r \in Requests, Finish(r) PROVE Tidy'
  <2>1. /\ step[r] \in {"open", "failed", "ended"}
        /\ step' = [step EXCEPT ![r] = "over"]
        /\ proc' = [proc EXCEPT ![r] = NoOne]
        /\ UNCHANGED <<slot, names, given>>
    BY <1>6 DEF Finish
  <2>2. step'[r] = "over" /\ proc[r] \in {NoOne, r}
    BY <2>1 DEF Tidy, FormTypeOK, OwnProcessor
  <2>3. told' \in Telling /\ Told'
    <3>1. CASE told' = told
      BY <2>1, <3>1 DEF Tidy, FormTypeOK, Told, OwnPiece,
         NamesOfOwnBody, LateMeansGone
    <3>2. CASE proc[r] = r /\ Released(r, TRUE)
      BY <2>1, <3>2, ReleasedTells
    <3>3. QED
      BY <1>6, <2>2, <3>1, <3>2 DEF Finish
  <2>4. FormTypeOK'
    BY <2>1, <2>3 DEF Tidy, FormTypeOK
  <2>5. OwnProcessor' /\ NamesRead'
    BY <2>1 DEF Tidy, FormTypeOK, OwnProcessor, NamesRead
  <2>6. QED
    BY <2>3, <2>4, <2>5 DEF Tidy
<1>7. CASE UNCHANGED formVars
  BY <1>7 DEF formVars, Tidy, FormTypeOK, OwnProcessor, NamesRead, Told,
     OwnPiece, NamesOfOwnBody, LateMeansGone
<1>8. QED
  BY <1>1, <1>2, <1>3, <1>4, <1>5, <1>6, <1>7 DEF FormNext

\* On one daemon the program gets every piece of a body with the request it
\* came in, and one that the parser kept back until its end with none
\* (controller.cc:52-57 and 106-136).
THEOREM PiecesMeetTheirRequest ==
  ASSUME OneThread
  PROVE  FormSpec => []PieceOfItsRequest
<1>1. Tidy => PieceOfItsRequest
  BY DEF Tidy, Told, PieceOfItsRequest
<1>2. Tidy /\ [FormNext]_formVars => Tidy'
  BY TidyNext
<1>3. QED
  BY <1>1, <1>2, TidyInit, PTL DEF FormSpec

\* On one daemon no name of a file goes from one body to another
\* (controller.cc:86-103).
THEOREM NamesStayInTheirBody ==
  ASSUME OneThread
  PROVE  FormSpec => []NamesOfOwnBody
<1>1. Tidy => NamesOfOwnBody
  BY DEF Tidy, Told
<1>2. Tidy /\ [FormNext]_formVars => Tidy'
  BY TidyNext
<1>3. QED
  BY <1>1, <1>2, TidyInit, PTL DEF FormSpec

(***************************************************************************)
(* Response.                                                               *)
(***************************************************************************)

Values == Contents \cup {Nothing}

\* What is sent is no block of the heap, and is what was wanted.
SentApart ==
    \A q \in Sends :
        sent[q].data \notin Blocks /\ sent[q].data = sent[q].want

\* A response that exists has the body that it was given.
BodyIsWanted ==
    \A p \in alive :
        IF body[p].owned THEN mem[body[p].data] = wanted[p]
                         ELSE body[p].data \notin Blocks /\ body[p].data = wanted[p]

\* A request keeps the response that answers it alive.
AnswersLive == \A q \in Sends : answer[q] # Nothing => answer[q] \in alive

Sound == /\ ResponseTypeOK /\ SentApart /\ BodyIsWanted /\ AnswersLive
         /\ BlocksOwned

LEMMA SoundInit == ResponseInit => Sound
  BY ResponseAssumption DEF ResponseInit, Sound, ResponseTypeOK, SentApart,
     BodyIsWanted, AnswersLive, BlocksOwned, NoBody, NotSent

\* The heap loses the block of p, if p owns one, and no other.
LEMMA ClearedHeap ==
  ASSUME Sound, NEW p \in Responses
  PROVE  /\ ClearBody(p) \in [Blocks -> Values]
         /\ \A b \in Blocks : ClearBody(p)[b] =
               IF body[p].owned /\ b = body[p].data THEN Nothing ELSE mem[b]
  BY DEF ClearBody, Sound, ResponseTypeOK, Values

\* When p goes with its block, or stays with it, the rest of the heap is as it
\* was.
LEMMA ReleaseKeeps ==
  ASSUME Sound, NEW p \in alive, NEW h, NEW a, Release(p, h, a),
         UNCHANGED <<body, wanted>>
  PROVE  /\ BodyIsWanted' /\ BlocksOwned'
         /\ alive' \subseteq Responses /\ mem' \in [Blocks -> Values]
         /\ alive' = IF Unheld(p, h, a) THEN alive \ {p} ELSE alive
<1>1. p \in Responses
  BY DEF Sound, ResponseTypeOK
<1>2. CASE Unheld(p, h, a)
  <2>1. alive' = alive \ {p} /\ mem' = ClearBody(p)
    BY <1>2 DEF Release
  <2>2. /\ mem' \in [Blocks -> Values]
        /\ \A b \in Blocks : mem'[b] =
              IF body[p].owned /\ b = body[p].data THEN Nothing ELSE mem[b]
    BY <1>1, <2>1, ClearedHeap
  <2>3. BodyIsWanted'
    BY <2>1, <2>2 DEF Sound, BodyIsWanted, BlocksOwned
  <2>4. BlocksOwned'
    BY <2>1, <2>2 DEF Sound, BlocksOwned
  <2>5. QED
    BY <1>2, <2>1, <2>2, <2>3, <2>4 DEF Sound, ResponseTypeOK
<1>3. CASE ~Unheld(p, h, a)
  BY <1>3 DEF Release, Sound, BodyIsWanted, BlocksOwned, ResponseTypeOK, Values
<1>4. QED
  BY <1>2, <1>3

LEMMA SoundNext == Sound /\ [ResponseNext]_responseVars => Sound'
<1> SUFFICES ASSUME Sound, [ResponseNext]_responseVars PROVE Sound'
  OBVIOUS
<1> USE ResponseAssumption
<1>1. ASSUME NEW p \in Responses, Make(p) PROVE Sound'
  <2>1. /\ alive' = alive \cup {p} /\ kept' = kept \cup {p}
        /\ body' = [body EXCEPT ![p] = NoBody]
        /\ wanted' = [wanted EXCEPT ![p] = Nothing]
        /\ fields' = [fields EXCEPT ![p] = [n \in FieldNames |-> Nothing]]
        /\ mem' = mem /\ answer' = answer /\ sent' = sent /\ p \notin alive
    BY <1>1 DEF Make
  <2>2. ResponseTypeOK'
    BY <2>1 DEF Sound, ResponseTypeOK, NoBody
  <2>3. BodyIsWanted'
    BY <2>1 DEF Sound, ResponseTypeOK, NoBody, BodyIsWanted
  <2>4. BlocksOwned'
    BY <2>1 DEF Sound, ResponseTypeOK, NoBody, BlocksOwned
  <2>5. SentApart' /\ AnswersLive'
    BY <2>1 DEF Sound, SentApart, AnswersLive
  <2>6. QED
    BY <2>2, <2>3, <2>4, <2>5 DEF Sound
<1>2. ASSUME NEW p \in Responses, SetBody(p) PROVE Sound'
  <2>1. PICK data \in Contents \cup ({body[p].data} \ {Nothing}),
             b \in {b \in Blocks : mem[b] = Nothing} :
          /\ mem' = [ClearBody(p) EXCEPT ![b] = Copied(p, data)]
          /\ wanted' = [wanted EXCEPT ![p] = At(mem, data)]
          /\ body' = [body EXCEPT ![p] = [data |-> b, owned |-> TRUE]]
    BY <1>2 DEF SetBody
  <2>2. /\ p \in alive /\ p \in kept
        /\ UNCHANGED <<alive, kept, fields, answer, sent>>
    BY <1>2 DEF SetBody, Sound, ResponseTypeOK
  <2>3. At(mem, data) \in Contents
    <3>1. CASE data \in Contents
      BY <3>1 DEF At
    <3>2. CASE data \in Blocks
      BY <2>1, <2>2, <3>2 DEF At, Sound, ResponseTypeOK, BlocksOwned,
         BodyIsWanted
    <3>3. QED
      BY <2>1, <2>2, <3>1, <3>2 DEF Sound, ResponseTypeOK
  <2>4. /\ mem' \in [Blocks -> Values]
        /\ \A c \in Blocks : mem'[c] =
              IF c = b THEN At(mem, data)
              ELSE IF body[p].owned /\ c = body[p].data THEN Nothing ELSE mem[c]
    BY <2>1, <2>3, ClearedHeap DEF Copied, Values
  <2>5. \A q \in alive : q # p => body'[q] = body[q] /\ wanted'[q] = wanted[q]
    BY <2>1, <2>2 DEF Sound, ResponseTypeOK
  <2>6. body'[p] = [data |-> b, owned |-> TRUE] /\ wanted'[p] = At(mem, data)
    BY <2>1 DEF Sound, ResponseTypeOK
  <2>7. \A q \in alive : body[q].owned => body[q].data # b
    BY <2>1 DEF Sound, BlocksOwned
  <2>8. ResponseTypeOK'
    BY <2>1, <2>2, <2>3, <2>4 DEF Sound, ResponseTypeOK, Values
  <2>9. BodyIsWanted'
    BY <2>2, <2>4, <2>5, <2>6, <2>7 DEF Sound, BodyIsWanted, BlocksOwned
  <2>10. BlocksOwned'
    <3>1. \A q \in alive : body'[q].owned =>
             body'[q].data \in Blocks /\ mem'[body'[q].data] # Nothing
      BY <2>1, <2>2, <2>3, <2>4, <2>5, <2>6, <2>7 DEF Sound, BlocksOwned
    <3>2. \A q \in alive, o \in alive :
             q # o /\ body'[q].owned /\ body'[o].owned
                => body'[q].data # body'[o].data
      BY <2>5, <2>6, <2>7 DEF Sound, BlocksOwned
    <3>3. \A c \in Blocks : mem'[c] # Nothing =>
             \E q \in alive : body'[q].owned /\ body'[q].data = c
      BY <2>2, <2>4, <2>5, <2>6 DEF Sound, BlocksOwned
    <3>4. QED
      BY <2>2, <3>1, <3>2, <3>3 DEF BlocksOwned
  <2>11. SentApart' /\ AnswersLive'
    BY <2>2 DEF Sound, SentApart, AnswersLive
  <2>12. QED
    BY <2>8, <2>9, <2>10, <2>11 DEF Sound
<1>3. ASSUME NEW p \in Responses, SetPersistentBody(p) PROVE Sound'
  <2>1. PICK c \in Contents :
          /\ wanted' = [wanted EXCEPT ![p] = c]
          /\ body' = [body EXCEPT ![p] = [data |-> c, owned |-> FALSE]]
    BY <1>3 DEF SetPersistentBody
  <2>2. /\ p \in alive /\ mem' = ClearBody(p)
        /\ UNCHANGED <<alive, kept, fields, answer, sent>>
    BY <1>3 DEF SetPersistentBody, Sound, ResponseTypeOK
  <2>3. /\ mem' \in [Blocks -> Values]
        /\ \A b \in Blocks : mem'[b] =
              IF body[p].owned /\ b = body[p].data THEN Nothing ELSE mem[b]
    BY <2>2, ClearedHeap
  <2>4. \A q \in alive : q # p => body'[q] = body[q] /\ wanted'[q] = wanted[q]
    BY <2>1, <2>2 DEF Sound, ResponseTypeOK
  <2>5. body'[p] = [data |-> c, owned |-> FALSE] /\ wanted'[p] = c
    BY <2>1 DEF Sound, ResponseTypeOK
  <2>6. ResponseTypeOK'
    BY <2>1, <2>2, <2>3 DEF Sound, ResponseTypeOK, Values
  <2>7. BodyIsWanted'
    BY <2>2, <2>3, <2>4, <2>5 DEF Sound, BodyIsWanted, BlocksOwned
  <2>8. BlocksOwned'
    BY <2>2, <2>3, <2>4, <2>5 DEF Sound, BlocksOwned
  <2>9. SentApart' /\ AnswersLive'
    BY <2>2 DEF Sound, SentApart, AnswersLive
  <2>10. QED
    BY <2>6, <2>7, <2>8, <2>9 DEF Sound
<1>4. ASSUME NEW p \in Responses, SetHeader(p) PROVE Sound'
  <2>1. UNCHANGED <<alive, kept, body, wanted, mem, answer, sent>>
    BY <1>4 DEF SetHeader
  <2>2. PICK n \in FieldNames : \E k \in StoredAs(fields[p], n), v \in {"set", "empty"} :
          fields' = [fields EXCEPT ![p][k] = v]
    BY <1>4 DEF SetHeader
  <2>3. fields' \in [Responses -> [FieldNames -> {"set", "empty", Nothing}]]
    BY <2>2 DEF StoredAs, Sound, ResponseTypeOK
  <2>4. QED
    BY <2>1, <2>3 DEF Sound, ResponseTypeOK, SentApart, BodyIsWanted,
       AnswersLive, BlocksOwned
<1>5. ASSUME NEW p \in Responses, Forget(p) PROVE Sound'
  <2>1. /\ kept' = kept \ {p} /\ Release(p, kept', answer)
        /\ UNCHANGED <<body, wanted, fields, answer, sent>> /\ p \in alive
    BY <1>5 DEF Forget, Sound, ResponseTypeOK
  <2>2. /\ BodyIsWanted' /\ BlocksOwned'
        /\ alive' \subseteq Responses /\ mem' \in [Blocks -> Values]
        /\ alive' = IF Unheld(p, kept', answer) THEN alive \ {p} ELSE alive
    BY <2>1, ReleaseKeeps
  <2>3. AnswersLive'
    BY <2>1, <2>2 DEF Sound, AnswersLive, Unheld
  <2>4. ResponseTypeOK' /\ SentApart'
    BY <2>1, <2>2 DEF Sound, ResponseTypeOK, SentApart, Values
  <2>5. QED
    BY <2>2, <2>3, <2>4 DEF Sound
<1>6. ASSUME NEW p \in Responses, NEW q \in Sends, NEW c \in {p, Nothing},
             Send(q, p, c)
      PROVE Sound'
  <2>1. /\ answer' = [answer EXCEPT ![q] = c] /\ p \in alive
        /\ UNCHANGED <<alive, kept, body, wanted, mem>>
        /\ fields' \in [Responses -> [FieldNames -> {"set", "empty", Nothing}]]
    BY <1>6 DEF Send, Completed, Sound, ResponseTypeOK
  <2>2. CASE UNCHANGED sent
    BY <2>1, <2>2 DEF Sound, ResponseTypeOK, SentApart, BodyIsWanted,
       AnswersLive, BlocksOwned
  <2>3. CASE sent' = [sent EXCEPT ![q] =
              [how  |-> Memory(p), want |-> wanted[p],
               data |-> IF Memory(p) = "copy" THEN At(mem, body[p].data)
                                              ELSE body[p].data]]
    <3>1. DEFINE d == IF Memory(p) = "copy" THEN At(mem, body[p].data)
                                            ELSE body[p].data
    <3>2. d = wanted[p] /\ d \notin Blocks
      BY <2>1 DEF Memory, At, Sound, ResponseTypeOK, BodyIsWanted, BlocksOwned
    <3>3. Memory(p) \in {"copy", "buffer"} /\ d \in Values /\ wanted[p] \in Values
      BY <3>2 DEF Memory, Sound, ResponseTypeOK, Values
    <3>4. sent' = [sent EXCEPT ![q] =
                      [how |-> Memory(p), want |-> wanted[p], data |-> d]]
      BY <2>3
    <3> HIDE DEF d
    <3>5. SentApart'
      BY <3>2, <3>4 DEF Sound, ResponseTypeOK, SentApart
    <3>6. ResponseTypeOK'
      BY <2>1, <3>3, <3>4 DEF Sound, ResponseTypeOK, Values
    <3>7. BodyIsWanted' /\ BlocksOwned' /\ AnswersLive'
      BY <2>1 DEF Sound, ResponseTypeOK, BodyIsWanted, BlocksOwned, AnswersLive
    <3>8. QED
      BY <3>5, <3>6, <3>7 DEF Sound
  <2>4. QED
    BY <1>6, <2>2, <2>3 DEF Send
<1>7. ASSUME NEW q \in Sends, Complete(q) PROVE Sound'
  <2>1. /\ answer' = [answer EXCEPT ![q] = Nothing]
        /\ sent' = [sent EXCEPT ![q] = NotSent]
        /\ UNCHANGED <<kept, body, wanted, fields>>
    BY <1>7 DEF Complete
  <2>2. SentApart'
    BY <2>1 DEF Sound, ResponseTypeOK, SentApart, NotSent
  <2>3. CASE answer[q] = Nothing
    <3>1. UNCHANGED <<alive, mem>>
      BY <1>7, <2>3 DEF Complete
    <3>2. QED
      BY <2>1, <2>2, <3>1 DEF Sound, ResponseTypeOK, NotSent, BodyIsWanted,
         AnswersLive, BlocksOwned
  <2>4. CASE answer[q] # Nothing
    <3>1. Release(answer[q], kept, answer') /\ answer[q] \in alive
      BY <1>7, <2>4 DEF Complete, Sound, AnswersLive
    <3>2. /\ BodyIsWanted' /\ BlocksOwned'
          /\ alive' \subseteq Responses /\ mem' \in [Blocks -> Values]
          /\ alive' = IF Unheld(answer[q], kept, answer')
                        THEN alive \ {answer[q]} ELSE alive
      BY <2>1, <3>1, ReleaseKeeps
    <3>3. AnswersLive'
      BY <2>1, <3>2 DEF Sound, ResponseTypeOK, AnswersLive, Unheld
    <3>4. ResponseTypeOK'
      BY <2>1, <3>2 DEF Sound, ResponseTypeOK, NotSent, Unheld, Values
    <3>5. QED
      BY <2>2, <3>2, <3>3, <3>4 DEF Sound
  <2>5. QED
    BY <2>3, <2>4
<1>8. CASE UNCHANGED responseVars
  BY <1>8 DEF responseVars, Sound, ResponseTypeOK, SentApart, BodyIsWanted,
     AnswersLive, BlocksOwned
<1>9. QED
  BY <1>1, <1>2, <1>3, <1>4, <1>5, <1>6, <1>7, <1>8 DEF ResponseNext

\* The bytes that a client is sent stay what they were when the program
\* answered (http.cc:140-173, entity.cc:68-80).
THEOREM ClientsGetWhatWasGiven == ResponseSpec => []SentIsWanted
<1>1. Sound => SentIsWanted
  BY DEF Sound, SentApart, SentIsWanted, At
<1>2. QED
  BY <1>1, SoundInit, SoundNext, PTL DEF ResponseSpec

\* Bodies are freed once, and none is lost (entity.cc:37-60 and 74-79).
THEOREM BodiesAreFreedOnce == ResponseSpec => []BlocksOwned
<1>1. Sound => BlocksOwned
  BY DEF Sound
<1>2. QED
  BY <1>1, SoundInit, SoundNext, PTL DEF ResponseSpec

Keyed == /\ fields \in [Responses -> [FieldNames -> {"set", "empty", Nothing}]]
         /\ KeysApart

\* A name is stored where it is, or where nothing is alike.
LEMMA StoredApart ==
  ASSUME Keyed, NEW p \in Responses, NEW n \in FieldNames,
         NEW k \in StoredAs(fields[p], n)
  PROVE  \/ k \in FieldNames /\ fields[p][k] # Nothing
         \/ k = n /\ \A l \in FieldNames : fields[p][l] # Nothing =>
                         <<k, l>> \notin PrefixOf /\ <<l, k>> \notin PrefixOf
  BY DEF StoredAs, Alike

LEMMA KeyedNext == Keyed /\ [ResponseNext]_responseVars => Keyed'
<1> SUFFICES ASSUME Keyed, [ResponseNext]_responseVars PROVE Keyed'
  OBVIOUS
<1> USE ResponseAssumption
<1>1. ASSUME NEW p \in Responses, Make(p) PROVE Keyed'
  BY <1>1 DEF Make, Keyed, KeysApart
<1>2. ASSUME NEW p \in Responses, SetHeader(p) PROVE Keyed'
  <2>1. PICK n \in FieldNames : \E k \in StoredAs(fields[p], n), v \in {"set", "empty"} :
          fields' = [fields EXCEPT ![p][k] = v]
    BY <1>2 DEF SetHeader
  <2>2. PICK k \in StoredAs(fields[p], n), v \in {"set", "empty"} :
          fields' = [fields EXCEPT ![p][k] = v]
    BY <2>1
  <2>3. \/ k \in FieldNames /\ fields[p][k] # Nothing
        \/ k = n /\ \A l \in FieldNames : fields[p][l] # Nothing =>
                        <<k, l>> \notin PrefixOf /\ <<l, k>> \notin PrefixOf
    BY StoredApart
  <2>4. fields' \in [Responses -> [FieldNames -> {"set", "empty", Nothing}]]
    BY <2>2, <2>3 DEF Keyed
  <2>5. \A r \in Responses, m \in FieldNames :
          fields'[r][m] # Nothing => fields[r][m] # Nothing \/ (r = p /\ m = k)
    BY <2>2, <2>3 DEF Keyed
  <2>6. \A m \in FieldNames, l \in FieldNames :
          fields'[p][m] # Nothing /\ fields'[p][l] # Nothing
             => <<m, l>> \notin PrefixOf
    <3> SUFFICES ASSUME NEW m \in FieldNames, NEW l \in FieldNames,
                        fields'[p][m] # Nothing, fields'[p][l] # Nothing
                 PROVE <<m, l>> \notin PrefixOf
      OBVIOUS
    <3>1. /\ fields[p][m] # Nothing \/ m = k
          /\ fields[p][l] # Nothing \/ l = k
      BY <2>5
    <3>2. CASE fields[p][m] # Nothing /\ fields[p][l] # Nothing
      BY <3>2 DEF Keyed, KeysApart
    <3>3. CASE fields[p][k] = Nothing
      BY <2>3, <3>1, <3>3 DEF Keyed, KeysApart
    <3>4. QED
      BY <3>1, <3>2, <3>3
  <2>7. \A r \in Responses : r # p => fields'[r] = fields[r]
    BY <2>2 DEF Keyed
  <2>8. QED
    BY <2>4, <2>6, <2>7 DEF Keyed, KeysApart
<1>3. ASSUME NEW p \in Responses, NEW q \in Sends, NEW c \in {p, Nothing},
             Send(q, p, c)
      PROVE Keyed'
  <2>1. PICK f \in Completed(p) : fields' = [fields EXCEPT ![p] = f]
    BY <1>3 DEF Send
  <2>2. f \in [FieldNames -> {"set", "empty", Nothing}]
    BY DEF Completed
  <2>3. PICK key \in [Defaults(p) -> FieldNames] :
          /\ \A n \in Defaults(p) : key[n] \in StoredAs(fields[p], n)
          /\ \A n \in FieldNames :
                f[n] = IF \E d \in Defaults(p) : key[d] = n
                         THEN "set" ELSE fields[p][n]
    BY DEF Completed
  <2>4. Defaults(p) \subseteq {ServerName, TypeName}
    BY DEF Defaults
  <2>5. \A d \in Defaults(p) :
          \/ fields[p][key[d]] # Nothing
          \/ key[d] = d /\ \A l \in FieldNames : fields[p][l] # Nothing =>
                              <<d, l>> \notin PrefixOf /\ <<l, d>> \notin PrefixOf
    BY <2>3, <2>4, StoredApart
  <2>6. \A d \in Defaults(p), e \in Defaults(p) : <<d, e>> \notin PrefixOf
    BY <2>4
  <2>7. \A n \in FieldNames, m \in FieldNames :
          f[n] # Nothing /\ f[m] # Nothing => <<n, m>> \notin PrefixOf
    <3> SUFFICES ASSUME NEW n \in FieldNames, NEW m \in FieldNames,
                        f[n] # Nothing, f[m] # Nothing
                 PROVE <<n, m>> \notin PrefixOf
      OBVIOUS
    <3>1. \/ fields[p][n] # Nothing
          \/ n \in Defaults(p) /\ \A l \in FieldNames : fields[p][l] # Nothing =>
                 <<n, l>> \notin PrefixOf /\ <<l, n>> \notin PrefixOf
      BY <2>3, <2>5
    <3>2. \/ fields[p][m] # Nothing
          \/ m \in Defaults(p) /\ \A l \in FieldNames : fields[p][l] # Nothing =>
                 <<m, l>> \notin PrefixOf /\ <<l, m>> \notin PrefixOf
      BY <2>3, <2>5
    <3>3. QED
      BY <2>6, <3>1, <3>2 DEF Keyed, KeysApart
  <2>8. QED
    BY <2>1, <2>2, <2>7 DEF Keyed, KeysApart
<1>4. CASE UNCHANGED fields
  BY <1>4 DEF Keyed, KeysApart
<1>5. QED
  BY <1>1, <1>2, <1>3, <1>4 DEF ResponseNext, responseVars, SetBody,
     SetPersistentBody, Forget, Complete

\* The keys of a response are ordered by HttpHeaderCompare, whatever names are
\* looked up and in what order (entity.h:82-94).
THEOREM HeadersStayOrdered == ResponseSpec => []KeysApart
<1>1. ResponseInit => Keyed
  BY DEF ResponseInit, Keyed, KeysApart
<1>2. Keyed => KeysApart
  BY DEF Keyed
<1>3. QED
  BY <1>1, <1>2, KeyedNext, PTL DEF ResponseSpec

(***************************************************************************)
(* RegexOwner.  What is in use is held by an object that has code: a stale *)
(* pattern, which may point at it too, does not count.                     *)
(***************************************************************************)

HasCode(o) == o \in live /\ re[o] # Null

HeldByCode == \A c \in allocated : \E o \in live : HasCode(o) /\ c \in Freed(o)

Owned == RegexTypeOK /\ HeldByCode /\ CodeOwnsBlocks

LEMMA OwnedInit == RegexInit => Owned
  BY DEF RegexInit, Owned, RegexTypeOK, HeldByCode, CodeOwnsBlocks

\* What compileRegex frees before it compiles.
LEMMA FreedFirstIs ==
    ASSUME NEW o \in Objects
    PROVE  /\ re[o] # Null => FreedFirst(o) = Freed(o)
           /\ re[o] = Null => FreedFirst(o) = {}
  BY DEF FreedFirst

\* A compilation, of an object with code or without, stale or not.
LEMMA OwnedCompile ==
    ASSUME Owned, NEW o \in Objects, Compile(o)
    PROVE  Owned'
<1> USE RegexAssumption
<1>1. PICK code \in Cells, copy \in Cells :
        /\ code # copy
        /\ {code, copy} \cap (allocated \ FreedFirst(o)) = {}
        /\ allocated' = (allocated \ FreedFirst(o)) \cup {code, copy}
        /\ re' = [re EXCEPT ![o] = code]
        /\ pattern' = [pattern EXCEPT ![o] = copy]
  BY DEF Compile
<1>2. o \in live /\ live' = live /\ twice' = twice
  BY DEF Compile
<1>3. /\ re'[o] = code /\ pattern'[o] = copy /\ code # Null /\ copy # Null
      /\ Freed(o)' = {code, copy}
      /\ \A p \in live : p # o =>
            re'[p] = re[p] /\ pattern'[p] = pattern[p] /\ Freed(p)' = Freed(p)
  BY <1>1, <1>2 DEF Freed, Owned, RegexTypeOK
<1>4. RegexTypeOK'
  BY <1>1, <1>2 DEF Owned, RegexTypeOK
<1>5. HeldByCode'
  <2>1. ASSUME NEW c \in allocated' PROVE \E p \in live' : HasCode(p)' /\ c \in Freed(p)'
    <3>1. CASE c \in {code, copy}
      BY <1>2, <1>3, <3>1 DEF HasCode
    <3>2. CASE c \in allocated \ FreedFirst(o)
      <4>1. PICK p \in live : HasCode(p) /\ c \in Freed(p)
        BY <3>2 DEF Owned, HeldByCode
      <4>2. p # o
        BY <3>2, <4>1, FreedFirstIs DEF HasCode
      <4>3. QED
        BY <1>2, <1>3, <4>1, <4>2 DEF HasCode
    <3>3. QED
      BY <1>1, <2>1, <3>1, <3>2
  <2>2. QED
    BY <2>1 DEF HeldByCode
<1>6. CodeOwnsBlocks'
  <2> SUFFICES ASSUME ~twice PROVE CodeOwnsBlocks'
    BY <1>2 DEF CodeOwnsBlocks
  <2>1. \A p \in live : p # o /\ re[p] # Null =>
          Freed(p) \subseteq allocated \ FreedFirst(o)
    BY <1>2, FreedFirstIs DEF Owned, CodeOwnsBlocks, RegexTypeOK
  <2>2. \A p \in live : p # o /\ re[p] # Null => Freed(p) \cap {code, copy} = {}
    BY <1>1, <2>1
  <2>3. QED
    BY <1>1, <1>2, <1>3, <2>1, <2>2 DEF Owned, CodeOwnsBlocks
<1>7. QED
  BY <1>4, <1>5, <1>6 DEF Owned

\* One that fails: the object has no code from now on.
LEMMA OwnedCompileFails ==
    ASSUME Owned, NEW o \in Objects, CompileFails(o)
    PROVE  Owned'
<1> USE RegexAssumption
<1>1. /\ o \in live /\ live' = live /\ twice' = twice /\ pattern' = pattern
      /\ allocated' = allocated \ FreedFirst(o)
      /\ re' = [re EXCEPT ![o] = Null]
  BY DEF CompileFails
<1>2. /\ re'[o] = Null
      /\ \A p \in live : p # o => re'[p] = re[p] /\ Freed(p)' = Freed(p)
  BY <1>1 DEF Freed, Owned, RegexTypeOK
<1>3. RegexTypeOK'
  BY <1>1 DEF Owned, RegexTypeOK
<1>4. HeldByCode'
  <2>1. ASSUME NEW c \in allocated' PROVE \E p \in live' : HasCode(p)' /\ c \in Freed(p)'
    <3>1. PICK p \in live : HasCode(p) /\ c \in Freed(p)
      BY <1>1 DEF Owned, HeldByCode
    <3>2. p # o
      BY <1>1, <3>1, FreedFirstIs DEF HasCode
    <3>3. QED
      BY <1>1, <1>2, <3>1, <3>2 DEF HasCode
  <2>2. QED
    BY <2>1 DEF HeldByCode
<1>5. CodeOwnsBlocks'
  <2> SUFFICES ASSUME ~twice PROVE CodeOwnsBlocks'
    BY <1>1 DEF CodeOwnsBlocks
  <2>1. \A p \in live : p # o /\ re[p] # Null =>
          Freed(p) \subseteq allocated \ FreedFirst(o)
    BY <1>1, FreedFirstIs DEF Owned, CodeOwnsBlocks, RegexTypeOK
  <2>2. QED
    BY <1>1, <1>2, <2>1 DEF Owned, CodeOwnsBlocks
<1>6. QED
  BY <1>3, <1>4, <1>5 DEF Owned

\* Destruction: of a stale object, too, after which nothing is claimed but that
\* what is in use has an owner.
LEMMA OwnedDestroy ==
    ASSUME Owned, NEW o \in Objects, Destroy(o)
    PROVE  Owned'
<1> USE RegexAssumption
<1>1. /\ o \in live /\ live' = live \ {o} /\ allocated' = allocated \ Freed(o)
      /\ twice' = (twice \/ Stale(o))
      /\ re' = [re EXCEPT ![o] = Null] /\ pattern' = [pattern EXCEPT ![o] = Null]
  BY DEF Destroy
<1>2. \A p \in live' : /\ p \in live /\ p # o /\ p \in Objects
                       /\ re'[p] = re[p] /\ pattern'[p] = pattern[p]
                       /\ Freed(p)' = Freed(p)
  BY <1>1 DEF Freed, Owned, RegexTypeOK
<1>3. RegexTypeOK'
  BY <1>1 DEF Owned, RegexTypeOK
<1>4. HeldByCode'
  <2>1. ASSUME NEW c \in allocated' PROVE \E p \in live' : HasCode(p)' /\ c \in Freed(p)'
    <3>1. PICK p \in live : HasCode(p) /\ c \in Freed(p)
      BY <1>1 DEF Owned, HeldByCode
    <3>2. p \in live'
      BY <1>1, <3>1
    <3>3. QED
      BY <1>2, <3>1, <3>2 DEF HasCode
  <2>2. QED
    BY <2>1 DEF HeldByCode
<1>5. CodeOwnsBlocks'
  <2> SUFFICES ASSUME ~twice, ~Stale(o) PROVE CodeOwnsBlocks'
    BY <1>1 DEF CodeOwnsBlocks, Owned, RegexTypeOK
  <2>1. re[o] # Null \/ Freed(o) = {}
    BY DEF Stale, Freed
  <2>2. \A p \in live' : re[p] # Null => Freed(p) \cap Freed(o) = {}
    BY <1>1, <1>2, <2>1 DEF Owned, CodeOwnsBlocks
  <2>3. QED
    BY <1>1, <1>2, <2>2 DEF Owned, CodeOwnsBlocks
<1>6. QED
  BY <1>3, <1>4, <1>5 DEF Owned

\* A swap, or a move: what one object has goes to another, a stale pattern, too.
\* m[q] is the object whose code q has afterwards.
LEMMA OwnedExchange ==
    ASSUME Owned, NEW o \in Objects, NEW p \in Objects,
           Swap(o, p) \/ MoveConstruct(o, p)
    PROVE  Owned'
<1> USE RegexAssumption
<1> DEFINE m == [q \in Objects |-> IF q = o THEN p ELSE IF q = p THEN o ELSE q]
<1>1. m[o] = p /\ m[p] = o /\ (\A q \in Objects : q # o /\ q # p => m[q] = q)
  OBVIOUS
<1> HIDE DEF m
<1>2. /\ p \in live /\ live' = live \cup {o}
      /\ allocated' = allocated /\ twice' = twice
      /\ re'[o] = re[p] /\ pattern'[o] = pattern[p] /\ Freed(o)' = Freed(p)
      /\ re'[p] = Null \/ ( /\ o \in live
                            /\ re'[p] = re[o] /\ pattern'[p] = pattern[o]
                            /\ Freed(p)' = Freed(o) )
      /\ o \in live => re'[p] = re[o]
      /\ \A q \in live : q # o /\ q # p =>
            re'[q] = re[q] /\ pattern'[q] = pattern[q] /\ Freed(q)' = Freed(q)
      /\ RegexTypeOK' /\ live \subseteq Objects
  <2>1. CASE Swap(o, p)
    <3>1. /\ live' = live /\ allocated' = allocated /\ twice' = twice
          /\ o \in live /\ p \in live
          /\ re' = [re EXCEPT ![o] = re[p], ![p] = re[o]]
          /\ pattern' = [pattern EXCEPT ![o] = pattern[p], ![p] = pattern[o]]
      BY <2>1 DEF Swap, Exchanged
    <3>2. QED
      BY <3>1 DEF Freed, Owned, RegexTypeOK
  <2>2. CASE MoveConstruct(o, p)
    <3>1. /\ live' = live \cup {o} /\ allocated' = allocated /\ twice' = twice
          /\ o \notin live /\ p \in live
          /\ re' = [re EXCEPT ![o] = re[p], ![p] = Null]
          /\ pattern' = [pattern EXCEPT ![o] = pattern[p], ![p] = Null]
      BY <2>2 DEF MoveConstruct
    <3>2. QED
      BY <3>1 DEF Freed, Owned, RegexTypeOK
  <2>3. QED
    BY <2>1, <2>2
<1>3. ASSUME NEW q \in live', re'[q] # Null
      PROVE  /\ m[q] \in live
             /\ re'[q] = re[m[q]] /\ pattern'[q] = pattern[m[q]]
             /\ Freed(q)' = Freed(m[q])
  <2>1. CASE q = o
    BY <1>1, <1>2, <2>1
  <2>2. CASE q = p
    BY <1>1, <1>2, <1>3, <2>2
  <2>3. CASE q # o /\ q # p
    <3>1. q \in live /\ m[q] = q
      BY <1>1, <1>2, <2>3
    <3>2. QED
      BY <1>2, <2>3, <3>1
  <2>4. QED
    BY <2>1, <2>2, <2>3
<1>4. \A q \in Objects, r \in Objects : q # r => m[q] # m[r]
  BY <1>1
<1>5. \A q \in live : re[q] # Null => \E r \in live' : m[r] = q /\ re'[r] # Null
  BY <1>1, <1>2
<1>6. HeldByCode'
  <2>1. ASSUME NEW c \in allocated' PROVE \E r \in live' : HasCode(r)' /\ c \in Freed(r)'
    <3>1. PICK q \in live : HasCode(q) /\ c \in Freed(q)
      BY <1>2 DEF Owned, HeldByCode
    <3>2. PICK r \in live' : m[r] = q /\ re'[r] # Null
      BY <1>5, <3>1 DEF HasCode
    <3>3. Freed(r)' = Freed(q)
      BY <1>3, <3>2
    <3>4. QED
      BY <3>1, <3>2, <3>3 DEF HasCode
  <2>2. QED
    BY <2>1 DEF HeldByCode
<1>7. CodeOwnsBlocks'
  <2> SUFFICES ASSUME ~twice,
                      NEW q \in live', re'[q] # Null
               PROVE  /\ pattern'[q] # Null /\ re'[q] # pattern'[q]
                      /\ Freed(q)' \subseteq allocated'
                      /\ \A r \in live' : r # q /\ re'[r] # Null
                            => Freed(q)' \cap Freed(r)' = {}
    BY <1>2 DEF CodeOwnsBlocks
  <2>1. m[q] \in live /\ re[m[q]] # Null
    BY <1>3
  <2>2. /\ pattern'[q] # Null /\ re'[q] # pattern'[q]
        /\ Freed(q)' \subseteq allocated'
    BY <1>2, <1>3, <2>1 DEF Owned, CodeOwnsBlocks
  <2>3. ASSUME NEW r \in live', r # q, re'[r] # Null
        PROVE  Freed(q)' \cap Freed(r)' = {}
    <3>1. m[r] \in live /\ re[m[r]] # Null /\ m[r] # m[q]
      BY <1>2, <1>3, <1>4, <2>3
    <3>2. Freed(m[q]) \cap Freed(m[r]) = {}
      BY <2>1, <3>1 DEF Owned, CodeOwnsBlocks
    <3>3. Freed(q)' = Freed(m[q]) /\ Freed(r)' = Freed(m[r])
      BY <1>3, <2>3
    <3>4. QED
      BY <3>2, <3>3
  <2>4. QED
    BY <2>2, <2>3
<1>8. QED
  BY <1>2, <1>6, <1>7 DEF Owned

\* Each operation keeps blocks and their owners one to one.
LEMMA OwnedNext == Owned /\ [RegexNext]_regexVars => Owned'
<1> SUFFICES ASSUME Owned, [RegexNext]_regexVars PROVE Owned'
  OBVIOUS
<1>1. ASSUME NEW o \in Objects, Construct(o) PROVE Owned'
  <2>1. /\ live' = live \cup {o} /\ allocated' = allocated /\ twice' = twice
        /\ o \notin live /\ re'[o] = Null
        /\ \A q \in live : re'[q] = re[q] /\ pattern'[q] = pattern[q]
                           /\ Freed(q)' = Freed(q)
    BY <1>1 DEF Construct, Freed, Owned, RegexTypeOK
  <2>2. RegexTypeOK'
    BY <1>1 DEF Construct, Owned, RegexTypeOK
  <2>3. HeldByCode'
    BY <2>1 DEF Owned, HeldByCode, HasCode
  <2>4. CodeOwnsBlocks'
    BY <2>1 DEF Owned, CodeOwnsBlocks
  <2>5. QED
    BY <2>2, <2>3, <2>4 DEF Owned
<1>2. CASE UNCHANGED regexVars
  BY <1>2 DEF regexVars, Owned, RegexTypeOK, HeldByCode, HasCode,
     CodeOwnsBlocks, Freed
<1>3. QED
  BY <1>1, <1>2, OwnedCompile, OwnedCompileFails, OwnedDestroy, OwnedExchange
  DEF RegexNext

\* Whatever is compiled, compiled again with success or without, moved and
\* destroyed, in what order, each block in use has an owner that will free it
\* (utils.h:84-118, utils.cc:242-272 and 359-368).
THEOREM NothingIsLost == RegexSpec => []NothingLeaks
<1>1. Owned => NothingLeaks
  BY DEF Owned, HeldByCode, NothingLeaks
<1>2. QED
  BY <1>1, OwnedInit, OwnedNext, PTL DEF RegexSpec

\* Until an object whose second compilation has failed is destroyed, code and
\* pattern of each object that has code are its own and in use
\* (utils.h:84-118, utils.cc:242-272 and 359-368).
THEOREM CodeIsOwned == RegexSpec => []CodeOwnsBlocks
<1>1. Owned => CodeOwnsBlocks
  BY DEF Owned
<1>2. QED
  BY <1>1, OwnedInit, OwnedNext, PTL DEF RegexSpec

(***************************************************************************)
(* Resolver.                                                               *)
(***************************************************************************)

Busy == {"channel", "asking"}

ReadyWhenInited ==
    /\ inited /\ ~exiting => library > 0
    /\ \A c \in Callers : at[c] \in Busy => inited
    /\ \A c \in Callers : exiting => at[c] = "outside"

\* atexit has as many calls to make as c-ares has been initialised: a clean-up
\* finds something to clean up.
CleanUpsMatch == cleanups = library

Prepared == ResolverTypeOK /\ CleanUpsMatch /\ ReadyWhenInited

LEMMA PreparedInit == ResolverInit => Prepared
<1> SUFFICES ASSUME ResolverInit PROVE Prepared
  OBVIOUS
<1>1. ResolverTypeOK
  <2>1. 0 \in 0 .. MaxLookups
    BY ResolverAssumption
  <2>2. QED
    BY <2>1 DEF ResolverInit, ResolverTypeOK
<1>2. CleanUpsMatch
  BY DEF ResolverInit, CleanUpsMatch
<1>3. ReadyWhenInited
  BY DEF ResolverInit, ReadyWhenInited, Busy
<1>4. QED
  BY <1>1, <1>2, <1>3 DEF Prepared

LEMMA PreparedNext == Prepared /\ [ResolverNext]_resolverVars => Prepared'
<1> SUFFICES ASSUME Prepared, [ResolverNext]_resolverVars PROVE Prepared'
  OBVIOUS
<1> USE ResolverAssumption DEF Prepared, ResolverTypeOK, CleanUpsMatch,
        ReadyWhenInited, Busy
<1>1. ASSUME NEW c \in Callers, Begin(c) PROVE Prepared'
  BY <1>1 DEF Begin, Goes
<1>2. ASSUME NEW c \in Callers, ReadInited(c) PROVE Prepared'
  BY <1>2 DEF ReadInited, Goes
<1>3. ASSUME NEW c \in Callers, LockMutex(c) PROVE Prepared'
  BY <1>3 DEF LockMutex, Goes
<1>4. ASSUME NEW c \in Callers, InitLibrary(c) PROVE Prepared'
  BY <1>4 DEF InitLibrary, Goes, Registered, Unlocked
<1>5. ASSUME NEW c \in Callers, InitLibraryFails(c) PROVE Prepared'
  BY <1>5 DEF InitLibraryFails, Goes, InitedNot, Unlocked
<1>6. ASSUME NEW c \in Callers, OpenChannel(c) PROVE Prepared'
  BY <1>6 DEF OpenChannel, Goes
<1>7. ASSUME NEW c \in Callers, EndLookup(c) PROVE Prepared'
  BY <1>7 DEF EndLookup, Goes
<1>8. CASE Exit
  BY <1>8 DEF Exit
<1>9. CASE CleanUpCares
  BY <1>9 DEF CleanUpCares
<1>10. CASE UNCHANGED resolverVars
  BY <1>10 DEF resolverVars
<1>11. QED
  BY <1>1, <1>2, <1>3, <1>4, <1>5, <1>6, <1>7, <1>8, <1>9, <1>10
  DEF ResolverNext, Lookup

\* No query is made of a library that is not initialised, although the flag is
\* read without the mutex and initialisations may fail (dns.cc:72-96).
THEOREM NeverAskedTooEarly == ResolverSpec => []AskedWhenReady
<1>1. Prepared => AskedWhenReady
  BY DEF Prepared, ReadyWhenInited, AskedWhenReady, Busy
<1>2. QED
  BY <1>1, PreparedInit, PreparedNext, PTL DEF ResolverSpec

(***************************************************************************)
(* RouterTable.                                                            *)
(***************************************************************************)

AppRoutes == routes["app"]

\* What was asked for is what the App's builder has.
AskedIsKept ==
    /\ \A i \in DOMAIN AppRoutes : AppRoutes[i] \in asked
    /\ \A r \in asked : \E i \in DOMAIN AppRoutes : AppRoutes[i] = r

\* One tree for a method, one handle for a path.
OneTreeEach ==
    \A i \in DOMAIN trees, j \in DOMAIN trees :
        trees[i].method = trees[j].method => i = j
OneHandleEach ==
    \A i \in DOMAIN trees : \A h \in trees[i].handles, g \in trees[i].handles :
        h.path = g.path => h = g

HandlesKept ==
    \A i \in DOMAIN trees : \A h \in trees[i].handles : h.ctrl \in controllers
HandlesPromised ==
    \A i \in DOMAIN trees : \A h \in trees[i].handles :
        [method |-> trees[i].method, path |-> h.path, ctrl |-> h.ctrl]
            \in promised

InTrees(r) ==
    \E i \in DOMAIN trees :
        trees[i].method = r.method /\ [path |-> r.path, ctrl |-> r.ctrl]
                                          \in trees[i].handles

\* While all goes well a route is in the trees or still to come.
PromisesKept ==
    /\ phase = "building" => \A k \in DOMAIN todo : todo[k] \in promised
    /\ phase \in {"building", "serving"} /\ success =>
          \A r \in promised : InTrees(r) \/ \E k \in DOMAIN todo : todo[k] = r
    /\ phase = "serving" => success /\ todo = <<>>

Tables == /\ TableTypeOK /\ AskedIsKept /\ OneTreeEach /\ OneHandleEach
          /\ HandlesKept /\ HandlesPromised /\ PromisesKept /\ AnswersRegistered

LEMMA TablesInit == TableInit => Tables
<1> SUFFICES ASSUME TableInit PROVE Tables
  OBVIOUS
<1>1. TableTypeOK
  BY RouterTableAssumption DEF TableInit, TableTypeOK, NoReply, FullPaths
<1>2. QED
  BY <1>1 DEF TableInit, Tables, AskedIsKept, AppRoutes, OneTreeEach,
     OneHandleEach, HandlesKept, HandlesPromised, PromisesKept,
     AnswersRegistered, NoReply

\* Builders only: the trees and what is promised of them stay.
LEMMA BuildersOnly ==
  ASSUME Tables, phase # "building",
         UNCHANGED <<promised, phase, todo, trees, controllers, success, reply>>
  PROVE  /\ OneTreeEach' /\ OneHandleEach' /\ HandlesKept' /\ HandlesPromised'
         /\ PromisesKept' /\ AnswersRegistered'
  BY DEF Tables, OneTreeEach, OneHandleEach, HandlesKept, HandlesPromised,
     PromisesKept, InTrees, AnswersRegistered

LEMMA TablesNext == Tables /\ [TableNext]_tableVars => Tables'
<1> SUFFICES ASSUME Tables, [TableNext]_tableVars PROVE Tables'
  OBVIOUS
<1> USE RouterTableAssumption
<1>1. ASSUME NEW b \in {"app", "sub"}, NEW m \in Methods, NEW path \in Paths,
             NEW c \in Controllers, Add(b, m, path, c)
      PROVE Tables'
  <2> DEFINE r == [method |-> m, path |-> <<path>>, ctrl |-> c]
  <2>1. /\ used' = used \cup {c}
        /\ routes' = [routes EXCEPT ![b] = Append(@, r)]
        /\ asked' = IF b = "app" THEN asked \cup {r} ELSE asked
        /\ phase # "building"
        /\ UNCHANGED <<promised, phase, todo, trees, controllers, success, reply>>
    BY <1>1 DEF Add
  <2>2. r \in Route
    BY DEF Route, FullPaths
  <2> HIDE DEF r
  <2>3. TableTypeOK'
    <3>1. Append(routes[b], r) \in Seq(Route)
      BY <2>2 DEF Tables, TableTypeOK
    <3>2. QED
      BY <2>1, <2>2, <3>1 DEF Tables, TableTypeOK
  <2>4. CASE b = "app"
    <3>1. AppRoutes' = Append(AppRoutes, r) /\ asked' = asked \cup {r}
      BY <2>1, <2>4 DEF AppRoutes, Tables, TableTypeOK
    <3>2. AppRoutes \in Seq(Route)
      BY DEF AppRoutes, Tables, TableTypeOK
    <3>3. AskedIsKept'
      <4>1. \A i \in DOMAIN AppRoutes' : AppRoutes'[i] \in asked'
        BY <2>2, <3>1, <3>2 DEF Tables, AskedIsKept
      <4>2. AppRoutes'[Len(AppRoutes) + 1] = r
            /\ Len(AppRoutes) + 1 \in DOMAIN AppRoutes'
        BY <2>2, <3>1, <3>2
      <4>3. \A i \in DOMAIN AppRoutes : i \in DOMAIN AppRoutes'
                                        /\ AppRoutes'[i] = AppRoutes[i]
        BY <2>2, <3>1, <3>2
      <4>4. \A s \in asked' : \E i \in DOMAIN AppRoutes' : AppRoutes'[i] = s
        BY <3>1, <4>2, <4>3 DEF Tables, AskedIsKept
      <4>5. QED
        BY <4>1, <4>4 DEF AskedIsKept
    <3>4. QED
      BY <2>1, <2>3, <3>3, BuildersOnly DEF Tables
  <2>5. CASE b = "sub"
    <3>1. AppRoutes' = AppRoutes /\ asked' = asked
      BY <2>1, <2>5 DEF AppRoutes, Tables, TableTypeOK
    <3>2. QED
      BY <2>1, <2>3, <3>1, BuildersOnly DEF Tables, AskedIsKept
  <2>6. QED
    BY <2>4, <2>5
<1>2. ASSUME NEW prefix \in Prefixes, AddSub(prefix) PROVE Tables'
  <2> DEFINE sub == routes["sub"]
             new == [i \in DOMAIN sub |-> Prefixed(prefix, sub[i])]
             what == {[method |-> sub[i].method,
                       path |-> <<prefix>> \o sub[i].path,
                       ctrl |-> sub[i].ctrl] : i \in DOMAIN sub}
  <2>1. /\ routes' = [routes EXCEPT !["app"] = @ \o new]
        /\ asked' = asked \cup what
        /\ phase # "building"
        /\ UNCHANGED <<used, promised, phase, todo, trees, controllers,
                       success, reply>>
    BY <1>2 DEF AddSub
  <2>2. sub \in Seq(Route) /\ AppRoutes \in Seq(Route)
    BY DEF Tables, TableTypeOK, AppRoutes
  <2>3. \A r \in Route :
          /\ Prefixed(prefix, r) = [method |-> r.method,
                path |-> <<prefix>> \o r.path, ctrl |-> r.ctrl]
          /\ Prefixed(prefix, r) \in Route
    <3> TAKE r \in Route
    <3> DEFINE full == <<prefix>> \o r.path
    <3>1. full \in FullPaths
      BY DEF Route, FullPaths
    <3>2. Prefixed(prefix, r) = [r EXCEPT !.path = full]
      BY DEF Prefixed
    <3> HIDE DEF full
    <3>3. [r EXCEPT !.path = full] = [method |-> r.method, path |-> full, ctrl |-> r.ctrl]
      BY DEF Route
    <3>4. [r EXCEPT !.path = full] \in Route
      BY <3>1 DEF Route
    <3>5. QED
      BY <3>2, <3>3, <3>4 DEF full
  <2>4. new \in Seq(Route) /\ Len(new) = Len(sub)
    <3>1. DOMAIN sub = 1 .. Len(sub) /\ Len(sub) \in Nat
      BY <2>2
    <3>2. \A i \in 1 .. Len(sub) : sub[i] \in Route
      BY <2>2
    <3>3. new \in [1 .. Len(sub) -> Route]
      BY <2>3, <3>1, <3>2
    <3>4. new \in Seq(Route)
      BY <3>1, <3>3, SeqDef
    <3>5. QED
      BY <3>1, <3>3, <3>4
  <2>5. what = {new[i] : i \in DOMAIN sub}
    <3>1. \A i \in DOMAIN sub : sub[i] \in Route
      BY <2>2
    <3>2. \A i \in DOMAIN sub :
            new[i] = [method |-> sub[i].method,
                      path |-> <<prefix>> \o sub[i].path, ctrl |-> sub[i].ctrl]
      BY <2>3, <3>1
    <3> HIDE DEF new, sub
    <3>3. QED
      BY <3>2
  <2> HIDE DEF sub, new, what
  <2>6. what \subseteq Route
    <3>1. \A i \in DOMAIN sub : new[i] \in Route
      BY <2>2, <2>4
    <3>2. QED
      BY <2>5, <3>1
  <2>7. AppRoutes' = AppRoutes \o new
    BY <2>1 DEF AppRoutes, Tables, TableTypeOK
  <2>8. TableTypeOK'
    BY <2>1, <2>2, <2>4, <2>6 DEF Tables, TableTypeOK, AppRoutes
  <2>9. AskedIsKept'
    <3>1. \A i \in DOMAIN AppRoutes' :
            \/ i \in DOMAIN AppRoutes /\ AppRoutes'[i] = AppRoutes[i]
            \/ \E j \in DOMAIN sub : AppRoutes'[i] = new[j]
      <4> TAKE i \in DOMAIN AppRoutes'
      <4>1. i \in 1 .. Len(AppRoutes) + Len(new)
        BY <2>2, <2>4, <2>7
      <4>2. CASE i <= Len(AppRoutes)
        BY <2>2, <2>4, <2>7, <4>1, <4>2
      <4>3. CASE i > Len(AppRoutes)
        <5>1. i - Len(AppRoutes) \in 1 .. Len(sub)
              /\ AppRoutes'[i] = new[i - Len(AppRoutes)]
          BY <2>2, <2>4, <2>7, <4>1, <4>3
        <5>2. QED
          BY <2>2, <5>1
      <4>4. QED
        BY <2>2, <4>1, <4>2, <4>3
    <3>2. \A i \in DOMAIN AppRoutes : i \in DOMAIN AppRoutes'
                                      /\ AppRoutes'[i] = AppRoutes[i]
      BY <2>2, <2>4, <2>7
    <3>3. \A j \in DOMAIN sub : \E i \in DOMAIN AppRoutes' : AppRoutes'[i] = new[j]
      <4> TAKE j \in DOMAIN sub
      <4>1. /\ Len(AppRoutes) + j \in DOMAIN AppRoutes'
            /\ AppRoutes'[Len(AppRoutes) + j] = new[j]
        BY <2>2, <2>4, <2>7
      <4>2. QED
        BY <4>1
    <3>4. QED
      BY <2>1, <2>5, <3>1, <3>2, <3>3 DEF Tables, AskedIsKept
  <2>10. QED
    BY <2>1, <2>8, <2>9, BuildersOnly DEF Tables
<1>3. CASE StartBuild
  <2>1. /\ phase' = "building" /\ todo' = AppRoutes /\ promised' = asked
        /\ trees' = <<>> /\ controllers' = {} /\ success' = TRUE
        /\ reply' = NoReply /\ UNCHANGED <<routes, used, asked>>
    BY <1>3 DEF StartBuild, AppRoutes
  <2>2. TableTypeOK'
    BY <2>1 DEF Tables, TableTypeOK, NoReply, FullPaths, AppRoutes
  <2>3. AskedIsKept' /\ AnswersRegistered'
    BY <2>1 DEF Tables, AskedIsKept, AppRoutes, AnswersRegistered, NoReply
  <2>4. OneTreeEach' /\ OneHandleEach' /\ HandlesKept' /\ HandlesPromised'
    BY <2>1 DEF OneTreeEach, OneHandleEach, HandlesKept, HandlesPromised
  <2>5. PromisesKept'
    BY <2>1 DEF Tables, AskedIsKept, PromisesKept
  <2>6. QED
    BY <2>2, <2>3, <2>4, <2>5 DEF Tables
<1>4. CASE MakeTree
  <2> DEFINE t == [method |-> Head(todo).method, handles |-> {}]
  <2>1. /\ trees' = Append(trees, t) /\ phase = "building" /\ todo # <<>>
        /\ FindTree(Head(todo).method) = {}
        /\ UNCHANGED <<routes, used, asked, promised, phase, todo, controllers,
                       success, reply>>
    BY <1>4 DEF MakeTree
  <2>2. trees \in Seq(Tree) /\ Head(todo) \in Route
    BY <2>1 DEF Tables, TableTypeOK
  <2>3. t \in Tree /\ t.handles = {} /\ \A i \in DOMAIN trees : trees[i].method # t.method
    BY <2>1, <2>2 DEF Tree, Route, FindTree
  <2> HIDE DEF t
  <2>4. /\ DOMAIN trees' = 1 .. Len(trees) + 1 /\ DOMAIN trees = 1 .. Len(trees)
        /\ Len(trees) \in Nat
        /\ trees'[Len(trees) + 1] = t
        /\ \A i \in DOMAIN trees : trees'[i] = trees[i]
    BY <2>1, <2>2, <2>3
  <2>5. TableTypeOK'
    BY <2>1, <2>2, <2>3 DEF Tables, TableTypeOK
  <2>6. AskedIsKept' /\ AnswersRegistered'
    BY <2>1 DEF Tables, AskedIsKept, AppRoutes, AnswersRegistered
  <2>7. OneTreeEach'
    BY <2>3, <2>4 DEF Tables, OneTreeEach
  <2>8. OneHandleEach' /\ HandlesKept' /\ HandlesPromised'
    BY <2>1, <2>3, <2>4 DEF Tables, OneHandleEach, HandlesKept, HandlesPromised
  <2>9. PromisesKept'
    <3>1. \A r \in promised : InTrees(r) => InTrees(r)'
      BY <2>4 DEF InTrees
    <3>2. QED
      BY <2>1, <3>1 DEF Tables, PromisesKept
  <2>10. QED
    BY <2>5, <2>6, <2>7, <2>8, <2>9 DEF Tables
<1>5. CASE InsertRoute
  <2>1. /\ phase = "building" /\ todo # <<>> /\ todo' = Tail(todo)
        /\ UNCHANGED <<routes, used, asked, promised, phase, reply>>
    BY <1>5 DEF InsertRoute
  <2>10. /\ trees \in Seq(Tree) /\ todo \in Seq(Route)
         /\ Head(todo) \in promised
    BY <2>1 DEF Tables, TableTypeOK, PromisesKept
  <2>11. PICK r \in promised : r = Head(todo)
    BY <2>10
  <2>2. /\ trees \in Seq(Tree) /\ todo \in Seq(Route) /\ r \in Route
        /\ r \in promised
    BY <2>10 DEF Tables, TableTypeOK
  <2>3. /\ \A k \in DOMAIN todo' : todo'[k] \in promised
        /\ \A k \in DOMAIN todo : todo[k] = r \/ \E l \in DOMAIN todo' : todo'[l] = todo[k]
    <3>1. \A k \in DOMAIN todo' : k + 1 \in DOMAIN todo /\ todo'[k] = todo[k + 1]
      BY <2>1, <2>2
    <3>2. \A k \in DOMAIN todo : k = 1 \/ (k - 1 \in DOMAIN todo' /\ todo'[k - 1] = todo[k])
      BY <2>1, <2>2
    <3>3. r = todo[1]
      BY <2>1, <2>2, <2>11
    <3>4. \A k \in DOMAIN todo : todo[k] \in promised
      BY <2>1 DEF Tables, PromisesKept
    <3>5. QED
      BY <3>1, <3>2, <3>3, <3>4
  <2>4. AskedIsKept' /\ AnswersRegistered'
    BY <2>1 DEF Tables, AskedIsKept, AppRoutes, AnswersRegistered
  <2>5. PICK i \in FindTree(r.method) :
          \/ success' = FALSE /\ UNCHANGED <<trees, controllers>>
          \/ /\ TRUE \in Inserts(i, r)
             /\ trees' = [trees EXCEPT ![i].handles =
                             @ \cup {[path |-> r.path, ctrl |-> r.ctrl]}]
             /\ controllers' = Keeps(r.ctrl)
             /\ UNCHANGED success
    BY <1>5, <2>11 DEF InsertRoute
  <2>6. i \in DOMAIN trees /\ trees[i].method = r.method
    BY DEF FindTree
  <2>7. CASE success' = FALSE /\ UNCHANGED <<trees, controllers>>
    <3>1. TableTypeOK'
      <4>1. Tail(todo) \in Seq(Route)
        BY <2>1, <2>2
      <4>2. QED
        BY <2>1, <2>7, <4>1 DEF Tables, TableTypeOK
    <3>2. OneTreeEach' /\ OneHandleEach' /\ HandlesKept' /\ HandlesPromised'
      BY <2>1, <2>7 DEF Tables, OneTreeEach, OneHandleEach, HandlesKept,
         HandlesPromised
    <3>3. PromisesKept'
      BY <2>1, <2>3, <2>7 DEF PromisesKept
    <3>4. QED
      BY <2>4, <3>1, <3>2, <3>3 DEF Tables
  <2>8. CASE /\ TRUE \in Inserts(i, r)
             /\ trees' = [trees EXCEPT ![i].handles =
                             @ \cup {[path |-> r.path, ctrl |-> r.ctrl]}]
             /\ controllers' = Keeps(r.ctrl)
             /\ UNCHANGED success
    <3> DEFINE g == [path |-> r.path, ctrl |-> r.ctrl]
    <3>1. \A h \in trees[i].handles : h.path # r.path
      BY <2>8 DEF Inserts
    <3>2. /\ DOMAIN trees' = DOMAIN trees
          /\ \A j \in DOMAIN trees : trees'[j].method = trees[j].method
          /\ \A j \in DOMAIN trees : j # i => trees'[j] = trees[j]
          /\ trees'[i].handles = trees[i].handles \cup {g}
      <4>1. trees' = [trees EXCEPT ![i] = [trees[i] EXCEPT !.handles = @ \cup {g}]]
        BY <2>8
      <4>2. trees[i] \in Tree
        BY <2>2, <2>6
      <4> HIDE DEF g
      <4>3. /\ [trees[i] EXCEPT !.handles = @ \cup {g}].method = trees[i].method
            /\ [trees[i] EXCEPT !.handles = @ \cup {g}].handles
                    = trees[i].handles \cup {g}
        BY <4>2 DEF Tree
      <4> DEFINE t == [trees[i] EXCEPT !.handles = @ \cup {g}]
      <4> HIDE DEF t
      <4>4. trees' = [trees EXCEPT ![i] = t]
        BY <4>1 DEF t
      <4>5. t.method = trees[i].method /\ t.handles = trees[i].handles \cup {g}
        BY <4>3 DEF t
      <4>6. QED
        BY <2>2, <2>6, <4>4, <4>5
    <3>3. controllers' = controllers \cup {r.ctrl}
      BY <2>8 DEF Keeps
    <3>4. TableTypeOK'
      <4>1. g \in Handle /\ r.ctrl \in Controllers
        BY <2>2 DEF Handle, Route
      <4>2. trees[i] \in Tree
        BY <2>2, <2>6
      <4>3. [trees[i] EXCEPT !.handles = @ \cup {g}] \in Tree
        BY <4>1, <4>2 DEF Tree
      <4>4. trees' = [trees EXCEPT ![i] = [trees[i] EXCEPT !.handles = @ \cup {g}]]
        BY <2>6, <2>8
      <4> HIDE DEF g
      <4>5. trees' \in Seq(Tree)
        BY <2>2, <2>6, <4>3, <4>4
      <4>6. QED
        BY <2>1, <2>2, <2>8, <3>3, <4>1, <4>5 DEF Tables, TableTypeOK
    <3>5. g.path = r.path /\ g.ctrl = r.ctrl
      OBVIOUS
    <3>6. OneTreeEach'
      BY <3>2 DEF Tables, OneTreeEach
    <3>7. OneHandleEach'
      BY <3>1, <3>2, <3>5 DEF Tables, OneHandleEach
    <3>8. HandlesKept'
      BY <3>2, <3>3, <3>5 DEF Tables, HandlesKept
    <3>9. HandlesPromised'
      <4>1. [method |-> trees[i].method, path |-> g.path, ctrl |-> g.ctrl] = r
        BY <2>2, <2>6 DEF Route
      <4>2. QED
        BY <2>1, <2>2, <3>2, <4>1 DEF Tables, HandlesPromised
    <3>10. PromisesKept'
      <4>1. InTrees(r)'
        <5>1. i \in DOMAIN trees' /\ trees'[i].method = r.method
              /\ [path |-> r.path, ctrl |-> r.ctrl] \in trees'[i].handles
          BY <2>6, <3>2
        <5>2. QED
          BY <5>1 DEF InTrees
      <4>2. \A s \in promised : InTrees(s) => InTrees(s)'
        <5>1. \A j \in DOMAIN trees' : /\ trees'[j].method = trees[j].method
                                       /\ trees[j].handles \subseteq trees'[j].handles
          BY <2>6, <3>2
        <5>2. QED
          BY <3>2, <5>1 DEF InTrees
      <4>3. QED
        BY <2>1, <2>3, <2>8, <4>1, <4>2 DEF Tables, PromisesKept
    <3>11. QED
      BY <2>4, <3>4, <3>6, <3>7, <3>8, <3>9, <3>10 DEF Tables
  <2>9. QED
    BY <2>5, <2>7, <2>8
<1>6. CASE Built
  <2>1. /\ phase = "building" /\ todo = <<>> /\ trees' \in Sorted
        /\ routes' = [routes EXCEPT !["app"] = <<>>] /\ asked' = {}
        /\ phase' = IF success THEN "serving" ELSE "refused"
        /\ UNCHANGED <<used, promised, todo, controllers, success, reply>>
    BY <1>6 DEF Built
  <2>2. PICK p \in Orders : trees' = [i \in DOMAIN trees |-> trees[p[i]]]
    BY <2>1 DEF Sorted
  <2>3. /\ p \in [DOMAIN trees -> DOMAIN trees]
        /\ \A i \in DOMAIN trees : \E j \in DOMAIN trees : p[j] = i
        /\ \A i \in DOMAIN trees, j \in DOMAIN trees : i < j => p[i] # p[j]
    BY DEF Orders
  <2>4. /\ DOMAIN trees' = DOMAIN trees
        /\ \A i \in DOMAIN trees : p[i] \in DOMAIN trees /\ trees'[i] = trees[p[i]]
    BY <2>2, <2>3
  <2>5. trees \in Seq(Tree) /\ DOMAIN trees = 1 .. Len(trees) /\ Len(trees) \in Nat
    BY DEF Tables, TableTypeOK
  <2>6. trees' \in Seq(Tree)
    BY <2>2, <2>3, <2>5
  <2>7. TableTypeOK'
    BY <2>1, <2>6 DEF Tables, TableTypeOK
  <2>8. AskedIsKept' /\ AnswersRegistered'
    <3>1. AppRoutes' = <<>>
      BY <2>1 DEF AppRoutes, Tables, TableTypeOK
    <3>2. QED
      BY <2>1, <3>1 DEF Tables, AskedIsKept, AnswersRegistered
  <2>9. OneTreeEach'
    <3>1. \A i \in DOMAIN trees, j \in DOMAIN trees : p[i] = p[j] => i = j
      BY <2>3, <2>5
    <3>2. QED
      BY <2>4, <3>1 DEF Tables, OneTreeEach
  <2>10. OneHandleEach' /\ HandlesKept' /\ HandlesPromised'
    BY <2>1, <2>4 DEF Tables, OneHandleEach, HandlesKept, HandlesPromised
  <2>11. PromisesKept'
    <3>1. \A r \in promised : InTrees(r) => InTrees(r)'
      BY <2>3, <2>4 DEF InTrees
    <3>2. QED
      BY <2>1, <3>1 DEF Tables, PromisesKept
  <2>12. QED
    BY <2>7, <2>8, <2>9, <2>10, <2>11 DEF Tables
<1>7. CASE Return
  BY <1>7 DEF Return, Tables, TableTypeOK, AskedIsKept, AppRoutes, OneTreeEach,
     OneHandleEach, HandlesKept, HandlesPromised, PromisesKept,
     AnswersRegistered
<1>8. ASSUME NEW word \in Words, NEW r \in promised, Forward(word, r.path)
      PROVE Tables'
  <2>1. PICK i \in FindTree(Begins[word]) : \E h \in trees[i].handles :
          /\ h.path = r.path
          /\ reply' = [word |-> word, path |-> r.path,
                       method |-> Begins[word], ctrl |-> h.ctrl]
    BY <1>8 DEF Forward
  <2>2. PICK h \in trees[i].handles :
          /\ h.path = r.path
          /\ reply' = [word |-> word, path |-> r.path,
                       method |-> Begins[word], ctrl |-> h.ctrl]
    BY <2>1
  <2>3. i \in DOMAIN trees /\ trees[i].method = Begins[word]
    BY DEF FindTree
  <2>4. UNCHANGED <<routes, used, asked, promised, phase, todo, trees,
                    controllers, success>>
    BY <1>8 DEF Forward
  <2>5. h \in Handle /\ r \in Route
    <3>1. trees[i] \in Tree
      BY <2>3 DEF Tables, TableTypeOK
    <3>2. QED
      BY <3>1 DEF Tree, Tables, TableTypeOK
  <2>6. TableTypeOK'
    BY <2>2, <2>4, <2>5 DEF Tables, TableTypeOK, Handle, Route
  <2>7. AnswersRegistered'
    BY <2>2, <2>3, <2>4 DEF Tables, HandlesPromised, AnswersRegistered
  <2>8. /\ AskedIsKept' /\ OneTreeEach' /\ OneHandleEach' /\ HandlesKept'
        /\ HandlesPromised' /\ PromisesKept'
    BY <2>4 DEF Tables, AskedIsKept, AppRoutes, OneTreeEach, OneHandleEach,
       HandlesKept, HandlesPromised, PromisesKept, InTrees
  <2>9. QED
    BY <2>6, <2>7, <2>8 DEF Tables
<1>9. CASE UNCHANGED tableVars
  BY <1>9 DEF tableVars, Tables, TableTypeOK, AskedIsKept, AppRoutes,
     OneTreeEach, OneHandleEach, HandlesKept, HandlesPromised, PromisesKept,
     InTrees, AnswersRegistered
<1>10. QED
  BY <1>1, <1>2, <1>3, <1>4, <1>5, <1>6, <1>7, <1>8, <1>9 DEF TableNext

\* Every handle of a serving Router points at a controller that the Router
\* keeps (router.h:42-47, router.cc:877-885).
THEOREM ControllersStayAlive == TableSpec => []ControllersAlive
<1>1. Tables => ControllersAlive
  BY DEF Tables, HandlesKept, ControllersAlive
<1>2. QED
  BY <1>1, TablesInit, TablesNext, PTL DEF TableSpec

\* A serving Router has every route that was asked for, with its controller
\* (router.cc:862-894).
THEOREM EveryRouteIsServed == TableSpec => []RoutesServed
<1>1. Tables => RoutesServed
  <2> SUFFICES ASSUME Tables, phase = "serving", NEW r \in promised
               PROVE \E i \in FindTree(r.method) :
                        /\ \A j \in FindTree(r.method) : i <= j
                        /\ \A h \in trees[i].handles : h.path = r.path => h.ctrl = r.ctrl
                        /\ \E h \in trees[i].handles : h.path = r.path
    BY DEF RoutesServed
  <2>1. InTrees(r)
    BY DEF Tables, PromisesKept
  <2>2. PICK i \in DOMAIN trees :
          trees[i].method = r.method /\ [path |-> r.path, ctrl |-> r.ctrl]
                                            \in trees[i].handles
    BY <2>1 DEF InTrees
  <2>3. i \in Nat /\ i \in FindTree(r.method)
        /\ \A j \in FindTree(r.method) : i = j
    BY <2>2 DEF Tables, TableTypeOK, FindTree, OneTreeEach
  <2>4. \A h \in trees[i].handles : h.path = r.path => h.ctrl = r.ctrl
    BY <2>2 DEF Tables, OneHandleEach
  <2>5. QED
    BY <2>2, <2>3, <2>4
<1>2. QED
  BY <1>1, TablesInit, TablesNext, PTL DEF TableSpec

\* A controller answers only what it was registered for (router.cc:686-687,
\* http.cc:27-58).
THEOREM AnswersAreRegistered == TableSpec => []AnswersRegistered
<1>1. Tables => AnswersRegistered
  BY DEF Tables
<1>2. QED
  BY <1>1, TablesInit, TablesNext, PTL DEF TableSpec
==============================================================================
