----------------------------- MODULE Exchange ------------------------------
(***************************************************************************)
(* What the library promises of one HTTP exchange: a request is turned     *)
(* down at once, or its body goes to the controller's processor, every     *)
(* byte once, and it is answered by the controller after the last byte or  *)
(* by an error, never by both, unless the connection is lost.              *)
(***************************************************************************)
EXTENDS Naturals

CONSTANT MaxBody    \* longest body, in bytes

VARIABLES phase,    \* of the exchange
          left,     \* bytes of the body the processor has not taken
          body      \* untouched, begun, or ended: the processor was told so

vars == <<phase, left, body>>

Phases == {"idle", "fresh", "reading", "failed", "answered", "lost"}

TypeOK ==
    /\ phase \in Phases
    /\ left \in 0..MaxBody
    /\ body \in {"untouched", "begun", "ended"}

Init == phase = "idle" /\ left = 0 /\ body = "untouched"

Arrive ==
    /\ phase = "idle"
    /\ phase' = "fresh" /\ left' \in 0..MaxBody /\ body' = "untouched"

\* The request is turned down, redirected, or answered without its body.
AnswerAtOnce ==
    /\ phase = "fresh"
    /\ phase' = "answered" /\ UNCHANGED <<left, body>>

Accept ==
    /\ phase = "fresh"
    /\ phase' = "reading" /\ UNCHANGED <<left, body>>

\* The processor takes bytes, or looks at them and takes none.
Take ==
    /\ phase = "reading" /\ body # "ended" /\ left > 0
    /\ left' \in 0..left
    /\ body' = "begun"
    /\ UNCHANGED phase

TellEnd ==
    /\ phase = "reading" /\ body = "begun" /\ left = 0
    /\ body' = "ended" /\ UNCHANGED <<phase, left>>

\* A failure is found while there are bytes left, and is final.
Fail ==
    /\ phase = "reading" /\ body # "ended" /\ left > 0
    /\ phase' = "failed" /\ body' = "begun" /\ UNCHANGED left

AnswerFailure ==
    /\ phase = "failed"
    /\ phase' = "answered" /\ UNCHANGED <<left, body>>

\* The controller answers when the body is complete.
Answer ==
    /\ phase = "reading" /\ left = 0 /\ body # "begun"
    /\ phase' = "answered" /\ UNCHANGED <<left, body>>

Lose ==
    /\ phase \in {"fresh", "reading", "failed", "answered"}
    /\ phase' = "lost" /\ UNCHANGED <<left, body>>

\* The connection, kept alive or a new one, is ready for the next request.
Reset ==
    /\ phase \in {"answered", "lost"}
    /\ phase' = "idle" /\ left' = 0 /\ body' = "untouched"

Next == \/ Arrive \/ AnswerAtOnce \/ Accept \/ Take \/ TellEnd \/ Fail
        \/ AnswerFailure \/ Answer \/ Lose \/ Reset

Spec == Init /\ [][Next]_vars
=============================================================================
