------------------------------ MODULE MCParts -------------------------------
(***************************************************************************)
(* Small instances of the parts that share no state: a barrier, forms,     *)
(* responses, tables of routes, regular expressions, look-ups of names.  A *)
(* behaviour is one of one part, the others being at rest in their initial *)
(* states: one run checks them all, in as many states as they have         *)
(* together.  Init, Next and vars are those of Barrier.                    *)
(***************************************************************************)
EXTENDS Barrier, Form, Response, RouterTable, RegexOwner, Resolver, TLC

CONSTANTS r1, r2, r3, t1, type, server, serve

\* Requests of one thread.
OneThread == [r \in Requests |-> t1]

\* Names of fields, one of them a prefix of another.
PrefixPairs == {<<serve, server>>}

\* RawBuilder::sort, for GET, POST, and those that come last in any order.
Ranks == [m \in Methods |->
             CASE m = "GET" -> 0 [] m = "POST" -> 1 [] OTHER -> 5]

\* parseHttpMethod: HEADX begins with HEAD, BREW with no method.
Began == "HEAD" :> "HEAD" @@ "HEADX" :> "HEAD" @@ "PATCH" :> "PATCH" @@
         "BREW" :> Absent

BarrierRests == Init /\ UNCHANGED vars
FormRests == FormInit /\ UNCHANGED formVars
ResponseRests == ResponseInit /\ UNCHANGED responseVars
TableRests == TableInit /\ UNCHANGED tableVars
RegexRests == RegexInit /\ UNCHANGED regexVars
ResolverRests == ResolverInit /\ UNCHANGED resolverVars

PartsInit ==
    /\ Init /\ FormInit /\ ResponseInit
    /\ TableInit /\ RegexInit /\ ResolverInit

PartsNext ==
    \/ /\ Next
       /\ FormRests /\ ResponseRests /\ TableRests
       /\ RegexRests /\ ResolverRests
    \/ /\ FormNext
       /\ BarrierRests /\ ResponseRests /\ TableRests
       /\ RegexRests /\ ResolverRests
    \/ /\ ResponseNext
       /\ BarrierRests /\ FormRests /\ TableRests
       /\ RegexRests /\ ResolverRests
    \/ /\ TableNext
       /\ BarrierRests /\ FormRests /\ ResponseRests
       /\ RegexRests /\ ResolverRests
    \/ /\ RegexNext
       /\ BarrierRests /\ FormRests /\ ResponseRests
       /\ TableRests /\ ResolverRests
    \/ /\ ResolverNext
       /\ BarrierRests /\ FormRests /\ ResponseRests
       /\ TableRests /\ RegexRests

partsVars == <<vars, formVars, responseVars, tableVars, regexVars, resolverVars>>

PartsSpec ==
    PartsInit /\ [][PartsNext]_partsVars /\ BarrierFairness /\ ResolverFairness
=============================================================================
