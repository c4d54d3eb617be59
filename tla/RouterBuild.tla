---------------------------- MODULE RouterBuild ----------------------------
(***************************************************************************)
(* Building one route tree (RawTree in lib/src/router.cc): every route is  *)
(* cut into segments and inserted into a radix tree whose edges are        *)
(* strings and whose wildcards are nodes of their own.  A Router has one   *)
(* such tree per HTTP method, and they share nothing.                      *)
(*                                                                         *)
(* A step is one turn of a loop of RawTree::insert or ::insertChild.  A    *)
(* string is a sequence of characters, since edges are split anywhere; a   *)
(* regular expression is one of a few that differ in what they accept.     *)
(***************************************************************************)
EXTENDS Naturals, Sequences, FiniteSets, SequencesExt

CONSTANTS Letters,    \* what a text is made of (NORMAL_URL_CHAR)
          Names,      \* the names of wildcards
          Routes,     \* what the program may register
          MaxRoutes,  \* how many of them it registers at most
          Asserts     \* are assertions compiled in (no NDEBUG)

VARIABLES
    registered, \* the routes, in the order of RouterBuilder::routes
    nodes,      \* the RawNodes, the root first; a pointer is an index
    phase,      \* which loop runs
    at,         \* its node
    path,       \* what is left of the route (building) or the URL (serving)
    queue,      \* PathParser::params
    valid       \* every insertion so far has succeeded

buildVars == <<registered, nodes, phase, at, path, queue, valid>>

(***************************************************************************)
(* Routes.  A segment is a text, a text and a parameter with a pattern, a  *)
(* text and a catch-all, or one that parsePathSegment refuses.             *)
(***************************************************************************)
Static(text) == [kind |-> "STATIC", text |-> text, re |-> "none", name |-> ""]
Param(text, re, name) ==
    [kind |-> "PARAM", text |-> text, re |-> re, name |-> name]
CatchAll(text, name) ==
    [kind |-> "CATCH_ALL", text |-> text, re |-> "none", name |-> name]
Bad == [kind |-> "BAD", text |-> <<>>, re |-> "none", name |-> ""]

Segments ==
    [kind : {"STATIC", "PARAM", "CATCH_ALL", "BAD"}, text : Seq(Letters),
     re : {"none", "any", "b"}, name : Names \cup {""}]

\* What the expressions of the parser let through (router.h:10-19): a path is
\* a slash or has segments, and no text holds a slash or a colon.
ASSUME RoutesAssumption ==
    /\ Letters \cap {"/", ":"} = {}
    /\ \A r \in Routes : /\ r \in [segments : Seq(Segments), slash : BOOLEAN]
                         /\ r.segments # <<>> \/ r.slash

\* What a segment adds to PathParser::calced, where a wildcard is a colon,
\* and to PathParser::params.
WithSegment(p, s) ==
    [calced |-> (p.calced \o <<"/">> \o s.text)
                    \o (IF s.kind = "STATIC" THEN <<>> ELSE <<":">>),
     params |-> IF s.kind = "STATIC" THEN p.params ELSE Append(p.params, s)]

\* PathParser after each of the segments.
Parsed(segments) ==
    LET parse[i \in 0..Len(segments)] ==
            IF i = 0 THEN [calced |-> <<>>, params |-> <<>>]
                     ELSE WithSegment(parse[i - 1], segments[i])
    IN  parse

Calced(route) == Parsed(route.segments)[Len(route.segments)].calced
                     \o (IF route.slash THEN <<"/">> ELSE <<>>)

Wildcards(route) == Parsed(route.segments)[Len(route.segments)].params

\* Regex::match: patterns are not anchored.  "any" is the default pattern.
Accepts(re, s) == re = "any" \/ (re = "b" /\ "b" \in ToSet(s))

(***************************************************************************)
(* Nodes.                                                                  *)
(***************************************************************************)
Node(type) == [path |-> <<>>, indices |-> <<>>, children |-> <<>>,
               handle |-> 0, type |-> type, re |-> "none", name |-> "",
               wild |-> FALSE]

From(s, i) == SubSeq(s, i, Len(s))

\* The child whose edge begins with c, 0 if there is none.
Indice(n, c) ==
    LET i == SelectInSeq(n.indices, LAMBDA d : d = c)
    IN  IF i = 0 THEN 0 ELSE n.children[i]

\* The controller of the route that is being inserted.
Ctrl == Len(registered)

\* Mutant: the lower half is pointed to before it is there.
SplitPastEnd(t, n, i) ==
    LET old == t[n]
    IN  Append([t EXCEPT ![n] =
                  [old EXCEPT !.path = SubSeq(@, 1, i), !.type = "STATIC",
                              !.indices = <<old.path[i + 1]>>,
                              !.children = <<Len(t) + 2>>,
                              !.handle = 0, !.re = "none", !.wild = FALSE]],
               [old EXCEPT !.path = From(@, i + 1)])

\* Mutant: the handle stays with the upper half.
SplitKeepingHandle(t, n, i) ==
    LET old == t[n]
    IN  Append([t EXCEPT ![n] =
                  [old EXCEPT !.path = SubSeq(@, 1, i), !.type = "STATIC",
                              !.indices = <<old.path[i + 1]>>,
                              !.children = <<Len(t) + 1>>,
                              !.re = "none", !.wild = FALSE]],
               [old EXCEPT !.path = From(@, i + 1)])

\* Node n is cut after its first i characters: the rest, and all that hangs
\* on it, becomes its only child.
Split(t, n, i) ==
    LET old == t[n]
    IN  Append([t EXCEPT ![n] =
                  [old EXCEPT !.path = SubSeq(@, 1, i), !.type = "STATIC",
                              !.indices = <<old.path[i + 1]>>,
                              !.children = <<Len(t) + 1>>,
                              !.handle = 0, !.re = "none", !.wild = FALSE]],
               [old EXCEPT !.path = From(@, i + 1)])

(***************************************************************************)
(* Router::buildTree and RawTree::addRoute.                                *)
(***************************************************************************)
AddRoute(route) ==
    /\ phase = "building" /\ Len(registered) < MaxRoutes
    /\ registered' = Append(registered, route)
    /\ IF \E s \in ToSet(route.segments) : s.kind = "BAD"
         THEN valid' = FALSE /\ UNCHANGED <<phase, at, path, queue>>
         ELSE /\ phase' = "inserting" /\ at' = 1
              /\ path' = Calced(route) /\ queue' = Wildcards(route)
              /\ UNCHANGED valid
    /\ UNCHANGED nodes

\* The insertion returns.  addRoute asserts that a successful one has used
\* all the wildcards of the route.
Returns(success, left) ==
    /\ phase' = IF success /\ left # <<>> /\ Asserts THEN "aborted"
                                                     ELSE "building"
    /\ valid' = (valid /\ success)
    /\ queue' = left
    /\ at' = 1 /\ path' = <<>>
    /\ UNCHANGED registered

GoesOn(nextPhase, n, p) ==
    /\ phase' = nextPhase /\ at' = n /\ path' = p
    /\ UNCHANGED <<registered, valid>>

(***************************************************************************)
(* RawTree::insert.                                                        *)
(***************************************************************************)

\* The first route of the tree: insertChild cannot fail on an empty root, and
\* what it returns is not looked at.
InsertFirst ==
    /\ phase = "inserting"
    /\ at = 1 /\ nodes[1].path = <<>> /\ nodes[1].indices = <<>>
    /\ GoesOn("placing", at, path)
    /\ UNCHANGED <<nodes, queue>>

Shared == Len(LongestCommonPrefix({path, nodes[at].path}))

\* The tree after the node has been cut where the route leaves it.
Cut == IF Shared < Len(nodes[at].path) THEN Split(nodes, at, Shared) ELSE nodes

Rest == From(path, Shared + 1)

\* The node keeps its edge, or is cut, in a tree that is not empty.
Inserting == phase = "inserting" /\ nodes[1].path # <<>> /\ nodes' = Cut

\* Does the rest of the route go on through wildcard node c?
Through(c) ==
    /\ IsPrefix(c.path, Rest)
    /\ c.type # "CATCH_ALL"
    /\ Len(c.path) >= Len(Rest) \/ Rest[Len(c.path) + 1] = "/"

InsertThroughWildcard ==
    /\ Inserting /\ Rest # <<>> /\ Cut[at].wild
    /\ LET c == Cut[at].children[1]
       IN  IF Through(Cut[c])
             THEN GoesOn("inserting", c, Rest) /\ UNCHANGED queue
             ELSE Returns(FALSE, queue)

\* The slash after a parameter: its only child is not in its indices.
AfterParam(n) == n.type = "PARAM" /\ Rest[1] = "/" /\ Len(n.children) = 1

InsertIntoChild ==
    /\ Inserting /\ Rest # <<>> /\ ~Cut[at].wild
    /\ \E c \in ToSet(Cut[at].children) :
          /\ IF AfterParam(Cut[at]) THEN c = Cut[at].children[1]
                                    ELSE c = Indice(Cut[at], Rest[1])
          /\ GoesOn("inserting", c, Rest)
    /\ UNCHANGED queue

\* There is no child to go to: insertChild, on a new one unless the rest
\* begins with a wildcard.
InsertNewChild ==
    /\ phase = "inserting" /\ nodes[1].path # <<>>
    /\ Rest # <<>> /\ ~Cut[at].wild
    /\ ~AfterParam(Cut[at]) /\ Indice(Cut[at], Rest[1]) = 0
    /\ IF Rest[1] = ":"
         THEN nodes' = Cut /\ GoesOn("placing", at, Rest)
         ELSE /\ nodes' = Append([Cut EXCEPT
                              ![at].indices = Append(@, Rest[1]),
                              ![at].children = Append(@, Len(Cut) + 1)],
                            Node("STATIC"))
              /\ GoesOn("placing", Len(Cut) + 1, Rest)
    /\ UNCHANGED queue

\* The route ends at this node, which may have a handle already.
InsertHere ==
    /\ phase = "inserting" /\ nodes[1].path # <<>> /\ Rest = <<>>
    /\ IF Cut[at].handle # 0
         THEN nodes' = Cut /\ Returns(FALSE, queue)
         ELSE /\ nodes' = [Cut EXCEPT ![at].handle = Ctrl]
              /\ Returns(TRUE, queue)

(***************************************************************************)
(* RawTree::insertChild.                                                   *)
(***************************************************************************)
Colon == SelectInSeq(path, LAMBDA c : c = ":")

PlaceStatic ==
    /\ phase = "placing" /\ Colon = 0
    /\ nodes' = [nodes EXCEPT ![at].path = path, ![at].handle = Ctrl,
                              ![at].type = "STATIC", ![at].indices = <<>>]
    /\ Returns(TRUE, queue)

\* A wildcard cannot be a sibling of anything.
PlaceConflict ==
    /\ phase = "placing" /\ Colon # 0 /\ nodes[at].children # <<>>
    /\ Returns(FALSE, Tail(queue))
    /\ UNCHANGED nodes

\* The node takes the text before the wildcard, and c is its only child.
Parent(wild, c) ==
    [nodes[at] EXCEPT !.path = IF Colon > 1 THEN SubSeq(path, 1, Colon - 1) ELSE @,
                      !.type = IF Colon > 1 THEN "STATIC" ELSE wild.kind,
                      !.wild = TRUE, !.children = <<c>>]

PlaceParam ==
    /\ phase = "placing" /\ Colon # 0 /\ nodes[at].children = <<>>
    /\ Head(queue).kind = "PARAM"
    /\ LET wild == Head(queue)
           id == Len(nodes) + 1
           node == [Node("PARAM") EXCEPT !.path = <<":">>, !.re = wild.re,
                                         !.name = wild.name]
           tree == [nodes EXCEPT ![at] = Parent(wild, id)]
       IN  IF Colon = Len(path)
             THEN /\ nodes' = Append(tree, [node EXCEPT !.handle = Ctrl])
                  /\ Returns(TRUE, Tail(queue))
             ELSE /\ nodes' = tree \o
                        <<[node EXCEPT !.children = <<id + 1>>],
                          [Node("UNKNOWN") EXCEPT !.indices = <<path[Colon + 1]>>]>>
                  /\ GoesOn("placing", id + 1, From(path, Colon + 1))
                  /\ queue' = Tail(queue)

\* What follows a catch-all in the route is dropped.
PlaceCatchAll ==
    /\ phase = "placing" /\ Colon # 0 /\ nodes[at].children = <<>>
    /\ Head(queue).kind = "CATCH_ALL"
    /\ LET wild == Head(queue)
       IN  nodes' = Append([nodes EXCEPT ![at] = Parent(wild, Len(nodes) + 1)],
                           [Node("CATCH_ALL") EXCEPT !.handle = Ctrl,
                                                     !.name = wild.name])
    /\ Returns(TRUE, Tail(queue))

BuildInit ==
    /\ registered = <<>>
    /\ nodes = <<Node("ROOT")>>
    /\ phase = "building"
    /\ at = 1 /\ path = <<>> /\ queue = <<>>
    /\ valid = TRUE

Insert == \/ InsertFirst \/ InsertThroughWildcard \/ InsertIntoChild
          \/ InsertNewChild \/ InsertHere
          \/ PlaceStatic \/ PlaceConflict \/ PlaceParam \/ PlaceCatchAll

BuildNext == Insert \/ \E r \in Routes : AddRoute(r)

(***************************************************************************)
(* Properties                                                              *)
(***************************************************************************)

\* The node that insertChild is working on is not complete.
Complete == DOMAIN nodes \ (IF phase = "placing" THEN {at} ELSE {})

\* forward takes the first child of a wildcard's parent for the wildcard, and
\* asserts that a catch-all has a handle (router.cc:717-784, 804-818).
WildcardsAlone ==
    \A n \in Complete : nodes[n].wild =>
        /\ Len(nodes[n].children) = 1
        /\ LET c == nodes[nodes[n].children[1]]
           IN  c.type = "PARAM" \/ (c.type = "CATCH_ALL" /\ c.handle # 0)

\* An edge is found through the indices of its parent (router.cc:169-179,
\* 145-155): they are the first characters of the children, all different.
\* A parameter's child is the one exception, it begins with a slash.
EdgesIndexed ==
    \A n \in Complete : ~nodes[n].wild =>
        LET kids == nodes[n].children
        IN  IF nodes[n].type = "PARAM"
              THEN Len(kids) <= 1 /\ \A k \in ToSet(kids) \cap Complete :
                                        nodes[k].path[1] = "/"
              ELSE /\ Len(nodes[n].indices) = Len(kids)
                   /\ IsInjective(nodes[n].indices)
                   /\ \A i \in DOMAIN kids : kids[i] \in Complete =>
                         nodes[kids[i]].path[1] = nodes[n].indices[i]

\* Every route that was accepted has its controller in the tree, at one node,
\* whatever was cut or added after it (router.cc:482-498).
EveryRouteHasItsNode ==
    phase = "building" /\ valid =>
        \A c \in DOMAIN registered :
            Cardinality({n \in DOMAIN nodes : nodes[n].handle = c}) = 1

\* The assertion of insertChild (router.cc:559): there is a wildcard in the
\* queue for every colon in the path, also after earlier ones were passed.
QueueSuffices ==
    phase = "placing" =>
        Len(queue) >= Cardinality({i \in DOMAIN path : path[i] = ":"})

\* The tree that forward relies on, between any two steps of its building:
\* nothing beside a wildcard, an index for every edge, a node for every route,
\* and a wildcard left for every colon, in whatever order routes were added.
TreeIsSound ==
    WildcardsAlone /\ EdgesIndexed /\ EveryRouteHasItsNode /\ QueueSuffices

\* The assertion of addRoute (router.cc:465): a route that has been inserted
\* has used all its wildcards.
WildcardsUsedUp == phase # "aborted"
=============================================================================
