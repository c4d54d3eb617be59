---------------------------- MODULE RouterTable -----------------------------
(***************************************************************************)
(* From RouterBuilder::add to the controller that answers a request: the   *)
(* builders, Router::buildTree, the trees of a Router by method, and who   *)
(* keeps the controllers alive (lib/include/cppmhd/router.h,               *)
(* lib/src/router.h, RawBuilder and Router in lib/src/router.cc).          *)
(*                                                                         *)
(* What a tree makes of its paths is RouterBuild's and Router's subject.   *)
(* Here a tree is the set of its handles, an insertion may fail for any    *)
(* reason and must fail where there is a handle already, and a request is  *)
(* for the very path of a route.                                           *)
(***************************************************************************)
EXTENDS Naturals, Sequences

CONSTANTS Controllers,  \* HttpController objects
          Methods,      \* values of HttpMethod
          Rank,         \* the order RawBuilder::sort gives to methods
          Words,        \* what a client may write for a method
          Begins,       \* the method whose name a word begins with, or Absent
          Paths,        \* paths of routes
          Prefixes,     \* prefixes of sub-routes
          Good,         \* those that URL_SUBROUTE_PREFIX_PATTERN matches
          Absent,
          MaxRoutes     \* bound on the routes of a builder

ASSUME RouterTableAssumption ==
    /\ Rank \in [Methods -> Nat]
    /\ Begins \in [Words -> Methods \cup {Absent}]
    /\ Good \subseteq Prefixes
    /\ Absent \notin Methods \cup Controllers
    /\ MaxRoutes \in Nat

VARIABLES
    routes,       \* RouterBuilder::routes of the App's builder and of a sub
    used,         \* the controllers made so far
    asked,        \* the routes the App's builder was asked for since a start
    promised,     \* those of the start in progress or done
    phase,        \* where the App is
    todo,         \* what buildTree has still to insert
    trees,        \* the trees, with their methods and handles
    controllers,  \* Router::controllers
    success,      \* buildTree's
    reply         \* what the last request was forwarded to

tableVars == <<routes, used, asked, promised, phase, todo, trees, controllers,
               success, reply>>

\* A path with the prefixes it was given, the outermost first.
FullPaths == Seq(Prefixes \cup Paths)
Route == [method : Methods, path : FullPaths, ctrl : Controllers]
Handle == [path : FullPaths, ctrl : Controllers]
Tree == [method : Methods, handles : SUBSET Handle]
NoReply == [word |-> Absent, path |-> <<>>, method |-> Absent, ctrl |-> Absent]

TableTypeOK ==
    /\ routes \in [{"app", "sub"} -> Seq(Route)]
    /\ used \subseteq Controllers
    /\ asked \subseteq Route /\ promised \subseteq Route
    /\ phase \in {"idle", "building", "serving", "refused"}
    /\ todo \in Seq(Route)
    /\ trees \in Seq(Tree)
    /\ controllers \subseteq Controllers
    /\ success \in BOOLEAN
    /\ reply \in [word : Words \cup {Absent}, path : FullPaths,
                  method : Methods \cup {Absent}, ctrl : Controllers \cup {Absent}]

(***************************************************************************)
(* RouterBuilder.                                                          *)
(***************************************************************************)
\* add makes the controller and keeps it with its method and path.
Add(b, m, path, c) ==
    /\ phase # "building" /\ c \notin used /\ Len(routes[b]) < MaxRoutes
    /\ used' = used \cup {c}
    /\ LET r == [method |-> m, path |-> <<path>>, ctrl |-> c] IN
       /\ routes' = [routes EXCEPT ![b] = Append(@, r)]
       /\ asked' = IF b = "app" THEN asked \cup {r} ELSE asked
    /\ UNCHANGED <<promised, phase, todo, trees, controllers, success, reply>>

\* Mutant: the prefix is forgotten.
PrefixedNot(prefix, r) == r

Prefixed(prefix, r) == [r EXCEPT !.path = <<prefix>> \o @]

\* add of a sub-builder copies the routes that it has now; a bad prefix is
\* logged, and adds nothing.
AddSub(prefix) ==
    /\ phase # "building" /\ prefix \in Good
    /\ LET sub == routes["sub"] IN
       /\ Len(routes["app"]) + Len(sub) <= MaxRoutes
       /\ routes' = [routes EXCEPT !["app"] =
                        @ \o [i \in DOMAIN sub |-> Prefixed(prefix, sub[i])]]
       /\ asked' = asked \cup
             {[method |-> sub[i].method, path |-> <<prefix>> \o sub[i].path,
               ctrl |-> sub[i].ctrl] : i \in DOMAIN sub}
    /\ UNCHANGED <<used, promised, phase, todo, trees, controllers, success,
                   reply>>

(***************************************************************************)
(* Router::buildTree, in App::start.                                       *)
(***************************************************************************)
StartBuild ==
    /\ phase = "idle"
    /\ phase' = "building"
    /\ todo' = routes["app"]
    /\ promised' = asked
    /\ trees' = <<>> /\ controllers' = {} /\ success' = TRUE
    /\ reply' = NoReply
    /\ UNCHANGED <<routes, used, asked>>

\* getMethodTree: where the tree of a method is.
FindTree(m) == {i \in DOMAIN trees : trees[i].method = m}

\* Mutant: a route takes the place of one with the same path.
InsertsAlways(i, r) == BOOLEAN

\* What RawTree::addRoute may return for the tree at i.
Inserts(i, r) ==
    IF \E h \in trees[i].handles : h.path = r.path THEN {FALSE} ELSE BOOLEAN

\* Mutant: the Router does not keep the controller.
KeepsNot(c) == controllers

\* controllers.emplace_back(sc): handles are raw pointers.
Keeps(c) == controllers \cup {c}

MakeTree ==
    /\ phase = "building" /\ todo # <<>>
    /\ FindTree(Head(todo).method) = {}
    /\ trees' = Append(trees, [method |-> Head(todo).method, handles |-> {}])
    /\ UNCHANGED <<routes, used, asked, promised, phase, todo, controllers,
                   success, reply>>

InsertRoute ==
    /\ phase = "building" /\ todo # <<>>
    /\ LET r == Head(todo) IN
       \E i \in FindTree(r.method) :
          \/ /\ FALSE \in Inserts(i, r)
             /\ success' = FALSE
             /\ UNCHANGED <<trees, controllers>>
          \/ /\ TRUE \in Inserts(i, r)
             /\ trees' = [trees EXCEPT ![i].handles =
                             @ \cup {[path |-> r.path, ctrl |-> r.ctrl]}]
             /\ controllers' = Keeps(r.ctrl)
             /\ UNCHANGED success
    /\ todo' = Tail(todo)
    /\ UNCHANGED <<routes, used, asked, promised, phase, reply>>

\* The orders std::sort may leave the trees in.
Orders ==
    {p \in [DOMAIN trees -> DOMAIN trees] :
        /\ \A i \in DOMAIN trees : \E j \in DOMAIN trees : p[j] = i
        /\ \A i \in DOMAIN trees, j \in DOMAIN trees : i < j =>
              p[i] # p[j] /\ Rank[trees[p[i]].method] <= Rank[trees[p[j]].method]}

Sorted == {[i \in DOMAIN trees |-> trees[p[i]]] : p \in Orders}

\* The routes are cleared, in any case; the Router moves into http_, or is
\* destroyed.
Built ==
    /\ phase = "building" /\ todo = <<>>
    /\ trees' \in Sorted
    /\ routes' = [routes EXCEPT !["app"] = <<>>]
    /\ asked' = {}
    /\ phase' = IF success THEN "serving" ELSE "refused"
    /\ UNCHANGED <<used, promised, todo, controllers, success, reply>>

(***************************************************************************)
(* A request: parseHttpMethod, and the first tree of its method.           *)
(***************************************************************************)
Forward(word, path) ==
    /\ phase = "serving" /\ Begins[word] # Absent
    /\ \E i \in FindTree(Begins[word]) :
          /\ \A j \in FindTree(Begins[word]) : i <= j
          /\ \E h \in trees[i].handles :
                /\ h.path = path
                /\ reply' = [word |-> word, path |-> path,
                             method |-> Begins[word], ctrl |-> h.ctrl]
    /\ UNCHANGED <<routes, used, asked, promised, phase, todo, trees,
                   controllers, success>>

\* The App stops or gives up; it may be started again.
Return ==
    /\ phase \in {"serving", "refused"}
    /\ phase' = "idle"
    /\ UNCHANGED <<routes, used, asked, promised, todo, trees, controllers,
                   success, reply>>

TableInit ==
    /\ routes = [b \in {"app", "sub"} |-> <<>>]
    /\ used = {} /\ asked = {} /\ promised = {}
    /\ phase = "idle" /\ todo = <<>>
    /\ trees = <<>> /\ controllers = {} /\ success = TRUE
    /\ reply = NoReply

TableNext ==
    \/ \E b \in {"app", "sub"}, m \in Methods, path \in Paths,
          c \in Controllers : Add(b, m, path, c)
    \/ \E prefix \in Prefixes : AddSub(prefix)
    \/ StartBuild \/ MakeTree \/ InsertRoute \/ Built \/ Return
    \/ \E word \in Words, r \in promised : Forward(word, r.path)

TableSpec == TableInit /\ [][TableNext]_tableVars

(***************************************************************************)
(* Properties                                                              *)
(***************************************************************************)

\* While a Router serves, the controller of every handle in its trees is one
\* that the Router keeps: handles are raw pointers, the builder has dropped
\* its references, and the sub-builder may go at any time (router.h:42-47,
\* router.cc:877-885).
ControllersAlive ==
    phase = "serving" =>
        \A i \in DOMAIN trees : \A h \in trees[i].handles : h.ctrl \in controllers

\* A Router that serves has each route its builder was asked for, with its
\* controller, in the first tree of its method; two routes for one path never
\* get that far (router.cc:871-893).
RoutesServed ==
    phase = "serving" =>
        \A r \in promised : \E i \in FindTree(r.method) :
            /\ \A j \in FindTree(r.method) : i <= j
            /\ \A h \in trees[i].handles : h.path = r.path => h.ctrl = r.ctrl
            /\ \E h \in trees[i].handles : h.path = r.path

\* A controller is asked only for what it was registered for: the method the
\* request begins with, and the path behind all its prefixes
\* (router.cc:686-687, 912-926, http.cc:27-58).
AnswersRegistered ==
    reply.ctrl # Absent =>
        [method |-> reply.method, path |-> reply.path, ctrl |-> reply.ctrl]
            \in promised
=============================================================================
