------------------------------ MODULE Response ------------------------------
(***************************************************************************)
(* HttpResponse (lib/include/cppmhd/entity.h, lib/src/entity.cc) and what  *)
(* becomes of it when it is sent (createResponse and sendHttpResponsePtr   *)
(* of lib/src/http.cc): who owns the bytes of the body, and how long.      *)
(*                                                                         *)
(* A response is shared: the program may hold it, give it to several       *)
(* requests and change it meanwhile.  libmicrohttpd reads the body until   *)
(* the request is complete, from a copy of its own or from the buffer.     *)
(***************************************************************************)
CONSTANTS Responses,    \* HttpResponse objects
          Sends,        \* requests that are answered
          Blocks,       \* blocks of the heap
          Contents,     \* what a body may hold; also the program's own
                        \* buffers that never change, by what they hold
          FieldNames,   \* names of header fields
          PrefixOf,     \* <<n, m>>: n is a proper prefix of m
          TypeName,     \* Content-Type
          ServerName,   \* Server
          Nothing       \* no body, no field, no response

ASSUME ResponseAssumption ==
    /\ Nothing \notin Responses \cup Blocks \cup Contents
    /\ Blocks \cap Contents = {}
    /\ {TypeName, ServerName} \subseteq FieldNames
    /\ PrefixOf \subseteq FieldNames \X FieldNames
    /\ \A n \in FieldNames : <<n, n>> \notin PrefixOf
    /\ <<TypeName, ServerName>> \notin PrefixOf
    /\ <<ServerName, TypeName>> \notin PrefixOf

VARIABLES
    alive,     \* the responses that exist
    kept,      \* those the program holds
    body,      \* body_: where the bytes are, and whether clearBody frees them
    wanted,    \* what the program last gave as the body
    mem,       \* what each block holds, Nothing when it is free
    fields,    \* headers_: "set", "empty" or Nothing
    answer,    \* ConnectionObject::response of each request
    sent       \* what libmicrohttpd sends

responseVars == <<alive, kept, body, wanted, mem, fields, answer, sent>>

NoBody == [data |-> Nothing, owned |-> FALSE]
NotSent == [how |-> "not", data |-> Nothing, want |-> Nothing]

ResponseTypeOK ==
    /\ alive \subseteq Responses /\ kept \subseteq alive
    /\ body \in [Responses -> [data  : Blocks \cup Contents \cup {Nothing},
                               owned : BOOLEAN]]
    /\ wanted \in [Responses -> Contents \cup {Nothing}]
    /\ mem \in [Blocks -> Contents \cup {Nothing}]
    /\ fields \in [Responses -> [FieldNames -> {"set", "empty", Nothing}]]
    /\ answer \in [Sends -> Responses \cup {Nothing}]
    /\ sent \in [Sends -> [how  : {"not", "copy", "buffer"},
                           data : Blocks \cup Contents \cup {Nothing},
                           want : Contents \cup {Nothing}]]

\* What a pointer points at, in memory m.
At(m, data) == IF data \in Blocks THEN m[data] ELSE data

\* Mutant: the old body is not freed.
ClearNothing(p) == mem

\* The heap after clearBody.
ClearBody(p) ==
    IF body[p].owned THEN [mem EXCEPT ![body[p].data] = Nothing] ELSE mem

\* Mutant: the old body is freed before the new one is copied.
CopiedAfter(p, data) == At(ClearBody(p), data)

\* What dumpMemory copies: before clearBody, for data may point into the body.
Copied(p, data) == At(mem, data)

(***************************************************************************)
(* The program.                                                            *)
(***************************************************************************)
Make(p) ==
    /\ p \notin alive
    /\ alive' = alive \cup {p} /\ kept' = kept \cup {p}
    /\ body' = [body EXCEPT ![p] = NoBody]
    /\ wanted' = [wanted EXCEPT ![p] = Nothing]
    /\ fields' = [fields EXCEPT ![p] = [n \in FieldNames |-> Nothing]]
    /\ UNCHANGED <<mem, answer, sent>>

\* body(size, data, false), data being the program's or the body's own.  With
\* no bytes or a null pointer it does nothing.
SetBody(p) ==
    /\ p \in kept
    /\ \E data \in Contents \cup ({body[p].data} \ {Nothing}),
          b \in {b \in Blocks : mem[b] = Nothing} :
          /\ mem' = [ClearBody(p) EXCEPT ![b] = Copied(p, data)]
          /\ wanted' = [wanted EXCEPT ![p] = At(mem, data)]
          /\ body' = [body EXCEPT ![p] = [data |-> b, owned |-> TRUE]]
    /\ UNCHANGED <<alive, kept, fields, answer, sent>>

\* body(size, data, true): the program promises that data stays.
SetPersistentBody(p) ==
    /\ p \in kept
    /\ mem' = ClearBody(p)
    /\ \E c \in Contents :
          /\ wanted' = [wanted EXCEPT ![p] = c]
          /\ body' = [body EXCEPT ![p] = [data |-> c, owned |-> FALSE]]
    /\ UNCHANGED <<alive, kept, fields, answer, sent>>

\* Mutant: names are compared over the length of the one looked for.
AlikeOneWay(n, m) == n = m \/ <<n, m>> \in PrefixOf

\* Two names that HttpHeaderCompare puts neither before nor after each other:
\* it compares as many letters as the shorter one has.
Alike(n, m) == n = m \/ <<n, m>> \in PrefixOf \/ <<m, n>> \in PrefixOf

\* The keys at which headers_[n] may come out in the map f, n if there is none.
StoredAs(f, n) ==
    LET found == {k \in FieldNames : f[k] # Nothing /\ Alike(n, k)}
    IN  IF found = {} THEN {n} ELSE found

SetHeader(p) ==
    /\ p \in kept
    /\ \E n \in FieldNames : \E k \in StoredAs(fields[p], n), v \in {"set", "empty"} :
          fields' = [fields EXCEPT ![p][k] = v]
    /\ UNCHANGED <<alive, kept, body, wanted, mem, answer, sent>>

(***************************************************************************)
(* The last reference to p goes: ~HttpResponse clears the body.            *)
(***************************************************************************)
Unheld(p, h, a) == p \notin h /\ \A q \in Sends : a[q] # p

Release(p, h, a) ==
    IF Unheld(p, h, a)
      THEN alive' = alive \ {p} /\ mem' = ClearBody(p)
      ELSE UNCHANGED <<alive, mem>>

Forget(p) ==
    /\ p \in kept
    /\ kept' = kept \ {p}
    /\ Release(p, kept', answer)
    /\ UNCHANGED <<body, wanted, fields, answer, sent>>

(***************************************************************************)
(* createResponse and sendHttpResponsePtr.                                 *)
(***************************************************************************)
\* Mutant: MHD_RESPMEM_PERSISTENT for every body.
NeverCopied(p) == "buffer"

\* MHD_RESPMEM_MUST_COPY or MHD_RESPMEM_PERSISTENT.
Memory(p) == IF body[p].owned THEN "copy" ELSE "buffer"

\* The fields that have a default: the type only where there is a body.
Defaults(p) ==
    {ServerName} \cup IF body[p].data = Nothing THEN {} ELSE {TypeName}

\* headers_ when each default has been looked up, and set where it was empty.
Completed(p) ==
    {f \in [FieldNames -> {"set", "empty", Nothing}] :
        \E key \in [Defaults(p) -> FieldNames] :
            /\ \A n \in Defaults(p) : key[n] \in StoredAs(fields[p], n)
            /\ \A n \in FieldNames :
                  f[n] = IF \E d \in Defaults(p) : key[d] = n
                           THEN "set" ELSE fields[p][n]}

\* co->response is p, or p is a local of the handler (c = Nothing), as for a
\* method that is not known.  libmicrohttpd may refuse the response.
Send(q, p, c) ==
    /\ p \in kept /\ answer[q] = Nothing /\ sent[q] = NotSent
    /\ answer' = [answer EXCEPT ![q] = c]
    /\ \E f \in Completed(p) : fields' = [fields EXCEPT ![p] = f]
    /\ \/ UNCHANGED sent
       \/ sent' = [sent EXCEPT ![q] =
              [how  |-> Memory(p), want |-> wanted[p],
               data |-> IF Memory(p) = "copy" THEN At(mem, body[p].data)
                                              ELSE body[p].data]]
    /\ UNCHANGED <<alive, kept, body, wanted, mem>>

\* connectionFinishCB.
Complete(q) ==
    /\ answer[q] # Nothing \/ sent[q] # NotSent
    /\ answer' = [answer EXCEPT ![q] = Nothing]
    /\ sent' = [sent EXCEPT ![q] = NotSent]
    /\ IF answer[q] = Nothing THEN UNCHANGED <<alive, mem>>
                              ELSE Release(answer[q], kept, answer')
    /\ UNCHANGED <<kept, body, wanted, fields>>

ResponseInit ==
    /\ alive = {} /\ kept = {}
    /\ body = [p \in Responses |-> NoBody]
    /\ wanted = [p \in Responses |-> Nothing]
    /\ mem = [b \in Blocks |-> Nothing]
    /\ fields = [p \in Responses |-> [n \in FieldNames |-> Nothing]]
    /\ answer = [q \in Sends |-> Nothing]
    /\ sent = [q \in Sends |-> NotSent]

ResponseNext ==
    \/ \E p \in Responses :
          \/ Make(p) \/ SetBody(p) \/ SetPersistentBody(p) \/ SetHeader(p)
          \/ Forget(p)
          \/ \E q \in Sends, c \in {p, Nothing} : Send(q, p, c)
    \/ \E q \in Sends : Complete(q)

ResponseSpec == ResponseInit /\ [][ResponseNext]_responseVars

(***************************************************************************)
(* Properties                                                              *)
(***************************************************************************)

\* Until a request is complete its client is sent what the program had given
\* when it answered, whatever becomes of the response meanwhile: changed,
\* given to another request, or destroyed as a local of the handler
\* (http.cc:150-151, entity.cc:68-80).
SentIsWanted == \A q \in Sends : At(mem, sent[q].data) = sent[q].want

\* A block belongs to the body of one response that exists, and is freed with
\* it or when the body is replaced: nothing leaks, nothing is freed twice
\* (entity.cc:37-60 and 74-79).
BlocksOwned ==
    /\ \A p \in alive : body[p].owned =>
          body[p].data \in Blocks /\ mem[body[p].data] # Nothing
    /\ \A p \in alive, q \in alive :
          p # q /\ body[p].owned /\ body[q].owned => body[p].data # body[q].data
    /\ \A b \in Blocks : mem[b] # Nothing =>
          \E p \in alive : body[p].owned /\ body[p].data = b

\* HttpHeaderCompare is no strict weak order on all names (Content is like
\* Content-Type and like Content-Length), but it is one on the keys that are
\* in a map: no two of them are alike (entity.h:82-91).
KeysApart ==
    \A p \in Responses, n, m \in FieldNames :
        fields[p][n] # Nothing /\ fields[p][m] # Nothing
            => <<n, m>> \notin PrefixOf
=============================================================================
