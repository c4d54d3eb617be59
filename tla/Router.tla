------------------------------- MODULE Router -------------------------------
(***************************************************************************)
(* Router::forward of lib/src/router.cc: from the URL of a request to the  *)
(* controller of a route and the values of its parameters, or to a hint    *)
(* that the URL lacks a slash at its end (tsr), for which the access       *)
(* handler redirects the client to the URL with one more slash.            *)
(*                                                                         *)
(* A step is one turn of the loop.  The tree is the one that RouterBuild   *)
(* has made; RouterNode is a copy of RawNode.                              *)
(***************************************************************************)
EXTENDS RouterBuild

CONSTANT Requests,      \* the URLs that clients ask for
         MaxRedirects   \* how many redirects of one request are followed

ASSUME RouterAssumption ==
    /\ MaxRoutes \in Nat /\ MaxRedirects \in Nat
    /\ \A q \in Requests : q # <<>> /\ q[1] = "/"

VARIABLES
    request,    \* the URL
    params,     \* the parameters that have been bound, as <<name, value>>
    found,      \* the controller returned, 0 for none
    tsr,        \* forward's third result
    redirects   \* redirects followed for this request

vars == <<buildVars, request, params, found, tsr, redirects>>

TypeOK ==
    /\ registered \in Seq(Routes) /\ Len(registered) <= MaxRoutes
    /\ \A n \in DOMAIN nodes :
          /\ nodes[n].type \in {"ROOT", "STATIC", "PARAM", "CATCH_ALL",
                                "UNKNOWN"}
          /\ nodes[n].handle \in 0..MaxRoutes
          /\ ToSet(nodes[n].children) \subseteq DOMAIN nodes
          /\ nodes[n].wild \in BOOLEAN
    /\ phase \in {"building", "inserting", "placing", "aborted", "serving",
                  "walking", "answered"}
    /\ at \in DOMAIN nodes
    /\ valid \in BOOLEAN
    /\ found \in 0..MaxRoutes
    /\ tsr \in BOOLEAN
    /\ redirects \in 0..MaxRedirects

(***************************************************************************)
(* App::start serves only if every route was accepted.                     *)
(***************************************************************************)
built == <<registered, nodes, queue, valid>>

Serve ==
    /\ phase = "building" /\ valid /\ registered # <<>>
    /\ phase' = "serving"
    /\ UNCHANGED <<built, at, path, request, params, found, tsr, redirects>>

Walks(url) ==
    /\ phase' = "walking"
    /\ at' = 1 /\ path' = url /\ request' = url
    /\ params' = {} /\ found' = 0 /\ tsr' = FALSE

Ask(url) ==
    /\ phase = "serving"
    /\ Walks(url)
    /\ UNCHANGED <<built, redirects>>

\* sendTSR: the client is sent to the URL with a slash appended.
Redirect ==
    /\ phase = "answered" /\ tsr /\ redirects < MaxRedirects
    /\ Walks(Append(request, "/"))
    /\ redirects' = redirects + 1
    /\ UNCHANGED built

\* The client has its answer.
Done ==
    /\ phase = "answered" /\ (~tsr \/ redirects = MaxRedirects)
    /\ phase' = "serving"
    /\ at' = 1 /\ path' = <<>> /\ request' = <<>>
    /\ params' = {} /\ found' = 0 /\ tsr' = FALSE /\ redirects' = 0
    /\ UNCHANGED built

(***************************************************************************)
(* One turn of the loop.                                                   *)
(***************************************************************************)
Here == nodes[at]
Child(n) == nodes[n.children[1]]

\* What is left of the URL when the node's edge is taken off.
Under == From(path, Len(Here.path) + 1)

Longer == phase = "walking" /\ Len(path) > Len(Here.path)
                            /\ IsPrefix(Here.path, path)
Equal == phase = "walking" /\ path = Here.path

\* map::emplace keeps the first value of a name.
Bind(name, value) ==
    IF \E p \in params : p[1] = name THEN params ELSE params \cup {<<name, value>>}

Answers(controller, hint, bound) ==
    /\ phase' = "answered"
    /\ found' = controller /\ tsr' = hint /\ params' = bound
    /\ UNCHANGED <<built, at, path, request, redirects>>

Descends(n, url, bound) ==
    /\ at' = n /\ path' = url /\ params' = bound
    /\ UNCHANGED <<built, phase, request, found, tsr, redirects>>

Follow ==
    /\ Longer /\ ~Here.wild /\ Indice(Here, Under[1]) # 0
    /\ Descends(Indice(Here, Under[1]), Under, params)

NoEdge ==
    /\ Longer /\ ~Here.wild /\ Indice(Here, Under[1]) = 0
    /\ Answers(0, Under = <<"/">> /\ Here.handle # 0, params)

\* The value of a parameter ends at the next slash.
Value ==
    LET slash == SelectInSeq(Under, LAMBDA c : c = "/")
    IN  IF slash = 0 THEN Under ELSE SubSeq(Under, 1, slash - 1)

AtParam == Longer /\ Here.wild /\ Child(Here).type = "PARAM"

\* Mutant: the pattern is forgotten.
RefusedNever == FALSE

Refused == Value # <<>> /\ ~Accepts(Child(Here).re, Value)

\* Mutant: all the rest of the URL is bound.
BoundToTheEnd == IF Accepts(Child(Here).re, Value)
                   THEN Bind(Child(Here).name, Under) ELSE params

\* An empty value that the pattern refuses is not bound, and goes on.
Bound == IF Accepts(Child(Here).re, Value) THEN Bind(Child(Here).name, Value)
                                           ELSE params

ParamRefuses == AtParam /\ Refused /\ Answers(0, FALSE, params)

\* There is a node below that could take a slash: the URL lacks one.
SlashBelow(n) ==
    /\ n.children # <<>>
    /\ \/ Child(n).path = <<"/">> /\ Child(n).handle # 0
       \/ Child(n).indices = <<"/">>

ParamEnds ==
    /\ AtParam /\ ~Refused /\ (Value = Under \/ Value = <<>>)
    /\ LET n == Child(Here)
       IN  \/ n.handle # 0 /\ Answers(n.handle, FALSE, Bound)
           \/ /\ n.handle = 0 /\ Value = Under
              /\ Answers(0, SlashBelow(n), Bound)

ParamGoesOn ==
    /\ AtParam /\ ~Refused /\ Value # Under
    /\ LET n == Child(Here)
           url == From(Under, Len(Value) + 1)
       IN  /\ ~(Value = <<>> /\ n.handle # 0)
           /\ IF n.children # <<>> THEN Descends(n.children[1], url, Bound)
                                   ELSE Answers(0, url = <<"/">>, Bound)

TakeAll ==
    /\ Longer /\ Here.wild /\ Child(Here).type = "CATCH_ALL"
    /\ Answers(Child(Here).handle, FALSE, Bind(Child(Here).name, Under))

\* The URL ends at this node: its own handle, or a wildcard with no text.
EndWithHandle == Equal /\ Here.handle # 0 /\ Answers(Here.handle, FALSE, params)

\* Mutant: a parameter has to have a character at the end of the URL.
EmptyFitsCatchAll(n) == n.type = "CATCH_ALL"

EmptyFits(n) == n.type = "CATCH_ALL" \/ (n.type = "PARAM" /\ Accepts(n.re, <<>>))

EndInWildcard ==
    /\ Equal /\ Here.handle = 0 /\ Here.wild /\ EmptyFits(Child(Here))
    /\ Answers(Child(Here).handle, FALSE, Bind(Child(Here).name, <<>>))

\* Mutant: a catch-all under the slash is forgotten.
SlashEndsHere(n) == Len(n.path) = 1 /\ n.handle # 0

\* One more slash would end at node n, or in a wildcard under it.
SlashEnds(n) ==
    \/ Len(n.path) = 1 /\ n.handle # 0
    \/ n.wild /\ LET c == Child(n)
                 IN  c.type = "CATCH_ALL" \/ (c.handle # 0 /\ EmptyFits(c))

EndWithout ==
    /\ Equal /\ Here.handle = 0 /\ ~(Here.wild /\ EmptyFits(Child(Here)))
    /\ Answers(0, \/ path = <<"/">> /\ Here.wild
                  \/ /\ ~(path = <<"/">> /\ Here.wild)
                     /\ Indice(Here, "/") # 0
                     /\ SlashEnds(nodes[Indice(Here, "/")]),
               params)

\* The URL leaves the tree inside an edge.
Elsewhere ==
    /\ phase = "walking" /\ ~Longer /\ ~Equal
    /\ Answers(0, \/ path = <<"/">>
                  \/ /\ Len(Here.path) = Len(path) + 1 /\ Last(Here.path) = "/"
                     /\ Here.handle # 0
                  \/ Here.children # <<>> /\ Child(Here).type = "CATCH_ALL",
               params)

Walk == \/ Follow \/ NoEdge \/ ParamRefuses \/ ParamEnds \/ ParamGoesOn
        \/ TakeAll \/ EndWithHandle \/ EndInWildcard \/ EndWithout \/ Elsewhere

Init ==
    /\ BuildInit
    /\ request = <<>> /\ params = {} /\ found = 0 /\ tsr = FALSE
    /\ redirects = 0

Next ==
    \/ BuildNext /\ UNCHANGED <<request, params, found, tsr, redirects>>
    \/ Serve \/ Redirect \/ Done \/ Walk
    \/ \E url \in Requests : Ask(url)

Spec == Init /\ [][Next]_vars

(***************************************************************************)
(* What a route means: its segments, one by one, are those of the URL.     *)
(***************************************************************************)
SlashesUpTo(url) ==
    LET slashes[i \in 0..Len(url)] ==
            IF i = 0 THEN <<>>
            ELSE IF url[i] = "/" THEN Append(slashes[i - 1], i) ELSE slashes[i - 1]
    IN  slashes

Slashes(url) == SlashesUpTo(url)[Len(url)]

Segment(url, i) ==
    LET s == Slashes(url)
    IN  SubSeq(url, s[i] + 1, IF i = Len(s) THEN Len(url) ELSE s[i + 1] - 1)

\* What segment s of a route leaves of text for its wildcard.
Left(s, text) == From(text, Len(s.text) + 1)

Fits(s, text) ==
    CASE s.kind = "STATIC"    -> text = s.text
      [] s.kind = "PARAM"     -> IsPrefix(s.text, text) /\ Accepts(s.re, Left(s, text))
      [] s.kind = "CATCH_ALL" -> IsPrefix(s.text, text)

EndsInCatchAll(route) ==
    route.segments # <<>> /\ Last(route.segments).kind = "CATCH_ALL"

Matches(route, url) ==
    LET k == Len(route.segments)
        m == Len(Slashes(url))
    IN  /\ \A i \in 1..k : i <= m /\ Fits(route.segments[i], Segment(url, i))
        /\ \/ EndsInCatchAll(route)
           \/ ~route.slash /\ m = k
           \/ route.slash /\ m = k + 1 /\ Segment(url, m) = <<>>

\* A parameter of the route has no character in the URL.
EmptyValue(route, url) ==
    \E i \in DOMAIN route.segments \cap 1..Len(Slashes(url)) :
        /\ route.segments[i].kind = "PARAM"
        /\ Left(route.segments[i], Segment(url, i)) = <<>>

\* What the controller should be given: a catch-all takes all that is left.
Values(route, url) ==
    {<<route.segments[i].name,
       Left(route.segments[i],
            IF route.segments[i].kind = "PARAM" THEN Segment(url, i)
            ELSE From(url, Slashes(url)[i] + 1))>> :
        i \in {j \in DOMAIN route.segments : route.segments[j].kind # "STATIC"}}

(***************************************************************************)
(* Programs of which the answers are right: assertions are compiled in, so *)
(* that no two routes share a parameter (router.cc:465), a catch-all is    *)
(* the last segment, the wildcards of a route have different names, and no *)
(* client sends the character that stands for a wildcard.                  *)
(***************************************************************************)
Ordinary ==
    /\ Asserts
    /\ \A r \in Routes : \A i \in DOMAIN r.segments :
          r.segments[i].kind = "CATCH_ALL" => i = Len(r.segments)
    /\ \A r \in Routes : \A i, j \in DOMAIN r.segments :
          /\ r.segments[i].kind # "STATIC" /\ r.segments[j].kind # "STATIC"
          /\ r.segments[i].name = r.segments[j].name
          => i = j
    /\ \A url \in Requests : url \in Seq(Letters \cup {"/"})

(***************************************************************************)
(* Properties                                                              *)
(***************************************************************************)

\* The controller that forward returns is one of a route that the URL
\* matches, segment by segment, whatever other routes share its nodes.  A
\* parameter that takes nothing is the exception: forward then looks neither
\* at the pattern nor at what follows (router.cc:742-744).
FoundMeansMatch ==
    phase = "answered" /\ found # 0 =>
        \/ Matches(registered[found], request)
        \/ EmptyValue(registered[found], request)

\* A URL that a route matches finds a controller: the walk, which never goes
\* back, has not turned away from the only route (router.cc:694-716).
MatchIsFound ==
    phase = "answered" /\ (\E c \in DOMAIN registered :
                              Matches(registered[c], request)) => found # 0

\* The controller is given its own parameters, under the names of its own
\* route, with the text of the URL that they stand for (router.cc:724-739).
ParamsAreValues ==
    phase = "answered" /\ found # 0 =>
        \/ params = Values(registered[found], request)
        \/ EmptyValue(registered[found], request)

\* What forward returns is right: the controller and its parameters.
AnswersAreRight == FoundMeansMatch /\ ParamsAreValues

\* A client that only forgot the last slash is told so: if a slash would make
\* the URL match a route, tsr is set (router.cc:708-852).
SlashIsHinted ==
    phase = "answered" /\ found = 0 =>
        \A c \in DOMAIN registered :
            LET url == Append(request, "/")
            IN  Matches(registered[c], url) /\ ~EmptyValue(registered[c], url)
                => tsr

\* The controller finds every parameter of its route in the request: a value
\* that the pattern refuses is no match (test/router.cc:133-137).
EveryParamBound ==
    phase = "answered" /\ found # 0 =>
        {s.name : s \in ToSet(Wildcards(registered[found]))}
            \subseteq {p[1] : p \in params}

\* A redirect leads to a controller (test/http/http_app_basic.cc:112-115).
RedirectArrives == phase = "answered" /\ redirects > 0 => found # 0
=============================================================================
