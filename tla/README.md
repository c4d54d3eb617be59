# cppmhd: models and proofs

cppmhd (`src/lib`) is a C++11 wrapper around libmicrohttpd: a program registers
controllers for routes, starts an `App`, and the threads of libmicrohttpd call
the controllers. This directory holds TLA+ models of the parts where its own
logic is, the configurations TLC checks them with, and proofs that TLAPS checks.

Contents: [the system](#the-system) · [modules](#modules) · [runs](#runs) ·
[disagreements](#where-the-code-disagrees) · [proofs](#proofs) ·
[assumptions](#assumptions-of-the-models) · [not modelled](#not-modelled) · [plan](#plan)

## The system

| Component | State | Operations | Interacts with | What is hard | What makes it correct |
|---|---|---|---|---|---|
| Barrier (`utils.h:136-171`) | `number_`, a mutex, a condition variable | the constructor, `wait` | `HttpImplement` has one for 2: `thr_` and one `stop()` | spurious wake-ups, a notification and the predicate at different moments, an unsigned counter that wraps | nobody leaves early, no wake-up is lost |
| `App` and `AppManager` (`app.cc`) | the Apps, the table of signal handlers, `handlersMutex`, `global::mutex`, `http_` of each App | constructor, `start`, `stop`, destructor, `setSignalHandler`, `signalHandlerWrapper` | installs the process's signal handlers, owns an `HttpImplement` | a signal lands on any thread at any moment, inside critical sections too; one App is destroyed while a handler works on another | a handler never meets a dead App; a stop is never lost |
| `HttpImplement` (`http.cc:427-523`, `http.h`) | `daemons`, `running_`, `runningBarrier_`, `thr_` | `startMHDDaemon`, `stop`, `isRunning` | starts one MHD daemon (a thread) per hardware thread and stops them under `global::mutex` | one of several daemons fails to start; a stop before, during and after the start | `start()` returns after a stop, with no daemon left |
| Access handler (`http.cc:186-360`) | per request: `ConnectionObject`, `RequestState`, the response | `MHDconnectionCB`, `connectionFinishCB` | called by the threads of libmicrohttpd; calls checks, router, processor and controller | one function is called many times for one request; bytes that are not taken come again; an error in the middle of a body | every byte once, one answer, at a moment libmicrohttpd accepts it |
| Router: trees (`router.cc:338-860`) | a radix tree per method, with parameters and catch-alls | `RawTree::insert`, `forward` | built by `start()`; read by all daemons | nodes are cut while wildcards hang on them; the order of registration; hints for a missing slash | a URL finds a controller exactly if a route matches it |
| Router: table (`include/cppmhd/router.h`, `router.h`, `router.cc:252-270`, `632-656`, `862-926`) | the routes of the builders, the trees by method, the controllers the Router keeps | `RouterBuilder::add`, `buildTree`, `RawBuilder::sort` | from the program's builders to `http_` of the App | handles are raw pointers; building goes on after an insertion that failed; trees are sorted while routes name them | a Router that serves has every route it was asked for, and keeps its controllers |
| Form processor (`controller.cc`) | the processor of each request, the names of its current field, `pp` of the controller | `onConnection`, `onData`, `formIter` | called by the access handler, calls the user's `onData` through libmicrohttpd's post processor | one controller, and one `pp`, serve all threads; the iterator is called piecewise, once more when the parser is destroyed | every piece with its own request and with names of its own body |
| Responses and headers (`entity.h/.cc`, `http.cc:130-173`, `546-552`) | body and who owns it, header map | `body`, `header`, `createResponse`, the destructor | made by the program, sent by the access handler, read by libmicrohttpd until the request is complete | a response is shared, changed and destroyed while it is sent; the comparison of header names is no order | what is sent is what was given; each body is freed once; no two keys of a map are alike |
| Method parsing (`http.cc:27-58`) | none | `parseHttpMethod` | access handler | prefixes | a request reaches only controllers of the method it names |
| Regex (`utils.h:73-133`, `utils.cc:242-371`) | compiled code, a copy of the pattern | compile, move, swap, destroy | router | ownership when it is moved; a second compilation frees the first, and may fail | nothing is lost; code has a pattern, and both are its own; each block is freed once (disagreement 7) |
| Name resolution (`dns.cc`) | `inited`, the counter inside c-ares | `fromHost`, `cleanUpCares` | called by the program (`App::start` only parses its address, `app.cc:182`) | a flag read without its lock; an initialisation that fails | c-ares is asked only when initialised, and released at the exit |
| Logger (`logger.cc`) | the logger in use, its level | `setLogger`, `LOG_*` | everything | replacement while others log | - |
| Formatting (`format.h`) | none | text of values | logger | - | - |

The threads: the one in `start()` (it stays there until the App stops), the
daemons of libmicrohttpd, `thr_` (its whole work is one `Barrier::wait`), and
whatever the program has. Signals interrupt any of them.

## Modules

**Barrier** (`utils.h`). One action per stretch between two releases of the
mutex: `Arrive` and `FallThrough` are the entry of `wait()` up to the first
evaluation of the predicate, `Recheck` the next evaluations, `SpuriousWakeup`
what a condition variable may always do. `number` is an unsigned word of
`WordMax + 1` values, so the wrap of `number_--` at 0 is in the model.

**Lifecycle** (`app.cc`, `http.cc`, `utils.cc`). Every App goes through `new`,
`idle`, the places of `start()`, `returned` and `gone`. The two mutexes are held
over several actions, so that a signal can land while they are held. Each thread
has a stack of calls: a signal handler runs on top of what its thread was doing,
and what it interrupted does not go on before it returns. Both `setSignalHandler`
calls of `start()` are there in their four steps (`have`, the lock, `sigaction`,
the table), as are the error path of `MHD_start_daemon` (`Launched`), the mask
that is set after the daemons have started, and the stopping of daemons under
`global::mutex`, where a daemon's thread is joined only when no call is on it.
`BarrierRefined` ties the barrier inside each App to **Barrier** by an instance.

**Exchange**. What a user of the library counts on, whatever the handler does
inside: a request is answered at once, or let in, read byte by byte, told its
end and answered; or it fails, is read to its end, and answered then; or its
connection is lost.

**Connection** (`http.cc`). One action per branch of `MHDconnectionCB`, and
libmicrohttpd around it: a first call with the headers, calls with the data that
has arrived and not been taken, calls without data until a response is queued.
The processor may take less than it gets, claim to have taken more, or fail;
the controller may answer or not. `size_t` arithmetic wraps. `ExchangeRefined`
is the refinement of **Exchange** under the mapping at the end of the module.

**RouterBuild** (`router.cc:338-632`). The tree of one method. One action per
turn of the loops of `RawTree::insert` and `insertChild`, so that every early
return is an action or a disjunct of one. Edges are sequences of characters and
are cut anywhere; a pattern is one of a few that differ in what they accept.
Segments are given parsed: a text, a text and a parameter, a text and a
catch-all, or one that `parsePathSegment` refuses. `Parsed` is what the parser
holds after each of them. Texts are made of `Letters`, and `RoutesAssumption` is
what the parser's expressions let through (`router.h:10-19`): no text has a slash
or a colon, and a path has a segment or is a slash.

**Router** (`router.cc:666-860`, `http.cc:175-250`). `forward`, one action per
branch of its loop, on the tree that **RouterBuild** has made, and the redirect
that follows `tsr`. `Matches` says segment by segment what a route means,
without a tree; it is what the walk is compared with.

**RouterTable** (`include/cppmhd/router.h`, `router.cc:252-270`, `632-656`,
`862-926`, `http.cc:27-58`). The App's builder and one of sub-routes, whose
routes are copied with a prefix when it is added; `buildTree` as one action per
turn of its loop, then the sort; a request, whose word is parsed to a method and
sent to the first tree of it. A tree is the set of its handles; an insertion may
fail for whatever reason **RouterBuild** knows of. An App may be started again.

**Form** (`controller.cc`). A form controller with its requests. `BuildProcessor`
and `SetProcessor` are the two accesses of `onConnection` to `pp`: another
daemon may come in between. `Piece`, `End` and `Finish` are the calls of the
access handler. `ThreadOf` says which daemon serves a request; a daemon is in one
handler at a time.

**Response** (`entity.h`, `entity.cc`, `http.cc`). Bodies are blocks of a heap, or
buffers that the program promises to keep. `Send` is `createResponse` with
`sendHttpResponsePtr`; libmicrohttpd reads a copy or the buffer until `Complete`.
The response is a local of the handler or is kept by the request. The map of
headers is what `std::map` makes of a comparison that finds a name and its prefix
alike.

**RegexOwner** (`utils.h`, `utils.cc`). Construction, compilation, assignment
(which swaps), move construction and destruction of `Regex` objects, in any
order. A compilation that fails first frees what a successful one has left, and
leaves the pointer to its pattern: the object is `Stale` until it is compiled
again. Where a stale object is destroyed its pattern is freed twice; `twice`
remembers it, since what the heap does from then on is undefined. A model of
the heap alone would miss it when the block has been given out again.

**Resolver** (`dns.cc`). `fromHost` by several threads: the test of `inited`, the
mutex, the initialisation, the query, its answer, until `exit()` runs
`cleanUpCares` as often as it was registered. What a look-up returns is whether
the program's vector has an address when it ends (`dns.cc:116`), and no state of
this component.

**MCLifecycle**, **MCRouter**, **MCForm** and **MCParts** hold the values of the
constants that a cfg cannot write. MCParts puts **Barrier**, **Form**, **Response**,
**RouterTable**, **RegexOwner** and **Resolver** side by side: they share no state, and
a behaviour is one of one of them, the others resting in their initial states.
The states of the run are therefore as many as those of the six together, and
every property of a part is checked on all behaviours of that part.

**BarrierProofs**, **LifecycleProofs**, **ConnectionProofs**, **PartsProofs** (of
Form, Response, RegexOwner, Resolver and RouterTable) and, of Router,
**RouterProofs**, **RouteTextProofs**, **AnswerProofs** and **FoundProofs** hold
theorems.

Definitions whose comment begins with "Mutant:" are plausible bugs. They are
used by no specification. `PROJECT.json` says which definition each stands in
for, and which property must then fail.

## Runs

| Run | Instance | States | What it shows |
|---|---|---|---|
| LifecycleSafety | 1 App, 2 daemons, 1 more thread, 2 signals, 1 `stop()` | 195,788 | Daemons have an `HttpImplement`, the assertion of the handler holds, the thread in `start()` is masked while the App runs, nobody stops an App unasked, the barrier is a Barrier |
| LifecycleSignal | 2 Apps with a daemon each, and 1 signal or 1 `stop()` | 76,052 | The handler meets no App that is gone; the program's handlers survive two `start()` that race for the table; a `stop()` ends in `start()` returning; SIGINT stops both Apps |
| LifecycleTwoSigints | 1 App, 2 signals | violation | below |
| LifecycleLateSignal | 1 App, 1 signal, 1 `stop()` | violation | below |
| Connection | bodies of up to 4 bytes, all requests | 1,241 | Bytes, answers, their order and moment, the refinement of Exchange, every request ends |
| RouterSafety | 3 of 18 routes in any order, URLs of up to 6 characters | 527,665 | The tree keeps its shape; a controller that is found is one of a route that matches, with its parameters; a URL that a route matches finds one; missing slashes are hinted |
| RouterParam, RouterRedirect, RouterWildcards | 2 of 18 routes, URLs of up to 4 characters | violations | below |
| Parts | the six parts of MCParts, one at a time | 147,064 | below this table |
| RegexRecompile | 1 expression, 3 blocks | violation | below |
| FormCrossing | 2 form requests on 2 daemons | violation | below |

What **Parts** shows. Five calls on a barrier for three, words of 16 values: nobody
leaves before three have come, only surplus calls wrap the counter, and while it
stays at 0 everyone gets out. Three forms on one daemon: every piece of a body comes with
its own request, or with none when that is over, and with names read in the same
body. A response with two blocks of heap, sent to two clients: each is sent what
the program had given when it answered, every block has one owner, and a name
and its prefix are never both in a map. Three routes, two methods, sub-routes,
insertions that fail, any number of starts: a Router that serves has every route,
keeps its controllers, and answers with what was registered; the two methods
have one rank in the sort. Three expressions and four blocks: no block is lost,
and an expression with code has a pattern, both its own, also after a second
compilation has failed, until a stale expression is destroyed. Three callers of
`fromHost` with a look-up each: none asks c-ares before it is initialised, every
look-up returns, and c-ares is released when the process exits, however many
have initialised it.

Why the bounds are enough. Barrier: two calls more than it is built for reach
the wrap and what comes after it, and every word beyond `Total` behaves alike.
Lifecycle: two daemons are the fewest of which one can fail after another has
started; two Apps are what a handler can be between; two signals and a `stop()`
can nest on one thread and meet in one barrier. Connection: four bytes allow a
first, a middle and a last part, each taken partly. Router: a route meets at
most one node that another has cut and one wildcard, so that three routes
show every pair of steps in every order; the eighteen routes begin alike, end
alike, contain each other, and have texts before and after their wildcards; six
characters reach a level below every one of them and a slash too many. Parts:
three forms are the fewest for a processor that outlives its request in `pp`
while two more are made; two blocks hold a body and the one
that replaces it; three routes are two by one
method and one by another; four blocks are two expressions with code, beside a third
that is empty or stale, whose pattern may be in one of them by then; of three callers
two may initialise while one has already gone on. There is one response: two would
take more states than the run has time for, so that "one owner" of a body is shown
against leaks and stale pointers only, and between responses by the theorem
`BodiesAreFreedOnce`.

Words of 8 or 16 values stand for `uint32_t` and `size_t`: all that matters is
that they are larger than what is counted (the assumptions of the modules) and
that they wrap.

Fairness. `Barrier`: a woken call gets the mutex at last. `Lifecycle`: a thread
that can run runs, a free mutex is granted, and the callback of `start()`
returns; nothing forces a program to start, stop or destroy an App, nor a signal
to arrive. It is weak fairness: granting a mutex to *some* waiter is enough for
the properties, since the calls are finitely many. `Connection`: the body
arrives, libmicrohttpd calls the handler while there is something to do, a
processor does not take nothing for ever and a controller answers at last; the
last two are the user's, and without them the handler is called for ever.
`Resolver`: threads run on, c-ares answers or times out, a thread that waits
for a mutex which is released again and again gets it at last (strong fairness),
and `exit()` makes the calls that `atexit` has registered.

Deadlock checking is off where the system really stops: all calls of a barrier
made, all Apps destroyed or left, an App whose routes were refused or whose
assertion failed.

Everything is checked with assertions compiled in (`Asserts = TRUE`), as in the
build type that `CMakeLists.txt:23-24` makes the default.

## Where the code disagrees

1. **A second SIGINT may keep the App from stopping** (`utils.h:165`,
   LifecycleTwoSigints). The first handler's `wait()` brings `number_` to 0,
   notifies `thr_` and returns. Before `thr_` has evaluated its predicate, a
   second handler enters: `0 <= total_` holds, `number_--` wraps, and `thr_`
   finds a number that is not 0. The same happens with SIGINT and `stop()`.
2. **A signal while the daemons stop may block for ever** (`http.cc:516`,
   LifecycleLateSignal). `start()` holds `global::mutex` and joins the daemons'
   threads, which were started before the mask was set; a handler on one of them
   waits for `global::mutex`. The run uses SIGINT: libmicrohttpd may block
   SIGPIPE on its own threads.
3. **A parameter that takes nothing is not held against its pattern**
   (`router.cc:742`, RouterParam). With the route `/a{b:x}`, `/a/` is answered
   by the controller, which is given no `x`.
4. **Redirects that lead nowhere** (`router.cc:708`, RouterRedirect). A slash too
   many sets `tsr`, and the redirect adds one more. A catch-all elsewhere in the
   tree (`router.cc:848`) redirects for ever.
5. **Two routes may not share a wildcard** (`router.cc:503`, RouterWildcards).
   The second leaves its wildcard in the queue and the assertion at line 465
   fails. Without assertions, its wildcards get names and patterns that are off
   by one.
6. **A form may be taken for another's** (`controller.cc:128-129`, FormCrossing).
   `onConnection` stores the new processor in `pp`, a member of the controller
   which all daemons share, and hands `pp` to the request. If another daemon's
   `onConnection` comes in between, both requests get the second's processor: the
   first's bytes are parsed with the second's, and the program's `onData` is
   called with a request that `postConnection` has not prepared.
   `test/http/http_app_form_data.cc:39` expects it prepared.
7. **A second compilation that fails frees the first pattern twice**
   (`utils.cc:249`, RegexRecompile). `compileRegex` calls the destructor of an
   expression that has code, before it compiles; if the new pattern is refused,
   `re_` becomes null (`utils.cc:270`) and `pattern_` keeps the address of the block
   that is gone, which the destructor deletes again. `test/utils.cc:109` compiles an
   expression twice to see whether memory is kept right, but successfully; nothing
   else in `src/` does.

## Proofs

Everything is proved for all values of the constants that satisfy the named
assumption of the module, and of the hypotheses a theorem names (finite sets of calls, disjoint sets of threads, words
larger than what they count).

**BarrierProofs**: `TypeCorrect`, `NobodyPassesEarly`,
`OnlyOversubscriptionWraps`. The inductive invariant relates the counter to the
arrivals: while no more than `Total` calls have arrived, `number` is `Total`
minus the arrivals, and after that it is the largest word, where it stays. "Nobody
has passed early" alone is not inductive: it does not exclude a counter of 0 with
few arrivals.

**LifecycleProofs**: `TypeCorrect`, `HandlersAreSafe`, `DaemonsAreServed`,
`AssertionHolds`, `RunningThreadIsLeftAlone`, `UserHandlersStay`,
`NobodyStopsUnasked`, `AppsUseBarriers`. The invariant `SafeInv` has five parts. `LockInv`: who is
inside a critical section of `handlersMutex`, an App's thread or a handler, is
its owner, so two are never inside at once. `TargetInv`: a handler takes up an
App only when it has both mutexes. `TableInv`: a signal that is installed has an
entry in the table, unless a thread is between `sigaction` and the entry, and
only installed signals are delivered. `ServeInv`: an App has an `http_` from its
construction in `start()` on, and a daemon lives only while its App is between
the loop that starts daemons and the end of the one that stops them.
`HandlerTouchesLiveApps` itself is the fifth: it is preserved because `~App`
must own `handlersMutex` to take an App out of the table, and `LockInv` says
that a handler which has begun owns it. `TakenInv` follows the handlers from
`have()` to the mask: an entry of the table never goes, so both signals are in the
list that `start()` masks, whoever installed them; and a thread that waits to
install SIGINT's default has seen no entry of the program, which makes none later.
`QuietInv` says that `thr_` alone has counted down while no call has come.
`EntryInv` says that a call enters the barrier of an App once, which is what the
refinement of Barrier needs.

**ConnectionProofs**: `TypeCorrect`, `AssertionsAreSafe`, `BytesAreKept`,
`AnswerComesLast`, `QueuedInTime` and `HandlerImplementsExchange`. `FreshInv` says what a request
looks like before the first call, `BytesInv` bounds the bytes (so that `size_t` never
wraps and subtraction can be reasoned about), `StateInv` relates `RequestState`
to processor, object and the end that was told. The refinement is proved step
by step: every branch of the handler is a step of Exchange or a stutter.

**PartsProofs**, of Form: `PiecesMeetTheirRequest`, `NamesStayInTheirBody`, for any number
of requests that **one** daemon serves (`OneThread`); item 6 above shows that the
assumption is needed. `Tidy` says that a request's processor is its own or none,
that `pp` is the processor just made while a request is between the two accesses,
and that a processor's names have been read in its own request's body.

Of Response: `ClientsGetWhatWasGiven`, `BodiesAreFreedOnce`,
`HeadersStayOrdered`. `Sound` relates bodies, blocks and what is being sent: what
the program wants is what the body points at, and a client reads a copy or a
buffer that never changes, never a block. `Keyed` is about the maps alone: a new
key is used only when none in the map is like it.

Of RegexOwner: `NothingIsLost`, `CodeIsOwned`, from `Owned`. `NothingLeaks` alone is not
inductive, since `compileRegex` looks at the code to decide what to free: `HeldByCode`
says that a block in use is code or pattern of an object that has code, so that a
stale pointer holds nothing. After a double free nothing more is claimed of who owns
what, but still that nothing is lost.

Of RouterTable, in **PartsProofs**: `ControllersStayAlive`, `EveryRouteIsServed`,
`AnswersAreRegistered`. `Tables` follows `buildTree`: what is promised is in the
trees already or still to be inserted, unless an insertion failed; each method has
one tree; no tree has two handles with one path. Sorting is a permutation and
keeps all of it.

Of Resolver, in **PartsProofs**: `NeverAskedTooEarly`. The
invariant says that c-ares has been initialised as often as it is to be cleaned up,
that `inited` implies an initialised library until `exit()`, and that a caller beyond
the test has seen it or initialised itself.

**RouterProofs**: `TypeCorrect`, `TreeSound`, and the inductive invariant itself,
`Invariance`, for any letters, routes and URLs and any number of routes. That a
tree is sound between insertions says nothing of the node that `insertChild` is
working on, nor of what is left of the route, and is not inductive. `BuildInv` adds
both:

- `WellShaped`: a tree has one node per edge, and each child's edge begins with the
  character that its parent's `indices` have for it (`Joined`). `insert` and
  `insertChild` write the index down before the edge: the node that is still to get
  its edge (`Fresh`) is measured by the path that is left.
- `Joins`: `insert` is always at a node whose edge begins with the first character
  of the path (or at the empty root), so that the shared prefix is not empty and
  the upper half of a cut keeps an edge.
- `Suffices`: each colon left in the path ends it or has a slash behind it, and has
  its parameter in the queue. This is what makes `queue.front()` defined, and what the assertion of `insertChild` is about.
- `Handled`: each controller but the one on its way is at one node; `Split` moves it
  and `InsertHere` refuses to overwrite it.

The lemmas about `Parsed` and about the places of colons need induction over the
segments of a route. It is done by least counterexample: < on the naturals is
well-founded (`WFMin` of the library, which takes sets and not operators), so a set
of counterexamples has a least member (`LeastNumber`), which the step refutes.

**AnswerProofs**: `AnswersRight`, that what `forward` returns is right, for any
routes, any number of them in any order, and any URLs. The theorem has one
hypothesis, `Ordinary`: assertions are compiled in, a catch-all is the last segment
of its route, the wildcards of a route have different names, and no URL has a colon
in it. The first three are needed: without assertions a second route through a
wildcard gets names and patterns of its neighbours (disagreement 5), what follows a
catch-all is dropped, and of two values with one name the first is kept. The last
spares the proof a case: that `forward` is never at the edge of a parameter. `MCRouter` assumes `Ordinary` of
its routes and URLs, and TLC evaluates it. What `AnswersAreRight` itself leaves out,
a parameter that takes no character, is disagreement 3.

`Matches` is about segments, and the tree has none: its edges are cut wherever two
routes part. Between them stands the text of a route, characters and one symbol for
each wildcard:

- **RouteTextProofs** is about texts alone. `Spells` says what text a route has,
  `Follows` that a URL can be cut into what the symbols of a text stand for, and
  `AnswerIs` that a URL which follows a route's text matches the route, with the
  route's values. `Reads` does the same for a path in the making with the queue of
  its parameters, and `Doomed` is a queue with more parameters than the path has
  colons: `addRoute` will abort.
- `SpellInv` says that there is a text for every node, that of the edges above it
  (`Labels`), such that at a node with a controller the text, its own edge included,
  is what the controller's route spells; and that the text above `insert` with what
  is left of the path is the text of the new route, unless it is `Doomed` (`Going`).
  The queue is what makes this hold: a route that goes through the wildcard of
  another has one parameter too many from then on.
- `WalkInv` says that `forward` has come past the text above its node (`Walked`):
  the URL up to there follows the text, and what has been bound is what that text
  binds, unless a parameter has been skipped with no text.
- `AnswerInv` is their conjunction with the invariant of **RouterProofs**, which
  every step keeps (`AnswerInvStep`).

**FoundProofs**: `MatchFound` and `SlashHinted`, about the answers that are *not*
given, under the same hypothesis `Ordinary`. `forward` takes one edge at every node
and never goes back, so a controller is missed as soon as one step leaves the way to
it. The proof names the node to be found, and shows that every turn of the loop
still leads to it:

- `MatchLeads` is the converse of `AnswerIs`: a URL that matches a route, segment by
  segment, is what the route's text stands for, symbol by symbol (`Leads`), and
  every pattern accepts its part.
- `LinkInv` adds two facts about the tree that `BuildInv` does not need. Every node
  hangs below the root (`Connected`): it is in every set of nodes that has the root
  and the children of its members (`Below`), which states reachability with no
  recursion. And a node that hangs under a parameter and has a catch-all under it
  has the slash, alone, as its indices (`Slashing`), since `forward` tells from
  these that a slash is missing (`router.cc:768-770`). The second holds because such a
  node is made with its slash by `insertChild` and never gets another index: a later
  route would have to come through the parameter, and is `Doomed`, so that
  `addRoute` aborts. `Ordinary` is used here, too.
- `Seeks` is what is kept on the way: the node to be found is the one that `forward`
  is at, or hangs below it, and what is left of the URL is what the rest of that
  node's text stands for. It is stated of a text that is the URL, or the URL and one
  more slash (`Lacks`), so that one argument shows both theorems: where the URL ends
  before the text does, only the slash is left, and `forward` is at the node that
  would take it (`SlashFinds`, `SlashUnder`, `ElsewhereSeeks`).
- `FoundInv` is `AnswerInv` with `LinkInv`, the slash at the beginning of every URL
  (`ServeInv`) and `SearchInv`: for every such text that a route matches, a node is
  sought, or a controller has been found, or the client has been told of the slash.
  A parameter that would take nothing is left out when the slash is missing, as in
  `SlashIsHinted` itself.

Only model-checked: everything about liveness (`AllPass`, `StopReturns`,
`EveryAppStops`, `EveryRequestEnds`, `LookupsReturn`, `LibraryReleased`), because the prover has no
ENABLED and no fairness. Every other property of a passing run is a theorem, or a
part of one.

## Assumptions of the models

- A mutex section of a Barrier is atomic: a signal that lands on a thread inside
  it, and whose handler then locks the same mutex, is not in the model.
- In Lifecycle an App is started at most once; RouterTable has the routes of a
  second `start()`.
- `sigaction` does not fail for SIGINT and SIGPIPE. The program sets its own
  handlers before the first App, and they leave the Apps alone.
- The table of Apps is a set: the order in which a handler stops them is any.
- `threadCount` is at least one daemon. With 0 on a machine of unknown
  concurrency, `start()` blocks with nothing listening (`http.cc:455`).
- `setErrorHandler` is declared in `app.h` and defined nowhere.
- One connection at a time: the `ConnectionObject`s of two share nothing.
- Routes have their catch-all last; what follows one is dropped by the code
  (`router.cc:608`). Characters of a URL are ordinary: none is a colon.
- In RouterBuild and Router, routes and URLs are those of one method; in
  RouterTable paths are compared as a whole.
- Two assignments to `pp` at once are a data race on a `shared_ptr`; Form takes the
  outcomes in which each is whole.
- The last piece that libmicrohttpd's parser hands out when it is destroyed
  is an assumption about libmicrohttpd (it may, or may not).
- `createResponse` with what follows it is one step, and one thread at a time uses
  a response: two daemons that send the same one fill its header map without a
  lock (`http.cc:549`).
- `HttpResponse` has an implicit copy constructor, and copy and original would free
  one body twice (`entity.h:113`). Nothing in `src/` copies one: they are passed as
  `HttpResponsePtr`, and Response has no copies.
- In Resolver nobody but look-ups and clean-ups takes `global::mutex`: App::start()
  and the signal handlers, which take it too, are taken to release it
  (disagreements 1 and 2 are the exceptions).
- `exit()` is called when no look-up runs, and none begins later.

## Not modelled

- Logger and Formatting: text. The replacement of a logger while others use it is
  a data race without a state worth a model.
- `DataProcessorController`: its processor is a local, and what it does with data is
  Connection's processor.
- The bytes of addresses (`InetAddress::parse`), groups of a regular expression,
  content types and encodings of form fields: no property is about them.
- `getRegex` (`router.cc:72`), which makes the parser's expressions on first use
  without a lock: routers are built by one thread in the tests and docs.
- Options handed to libmicrohttpd, the text of errors and responses, and the
  Windows code.

`examples/`, `cmake/` and the tests are used as documentation.

## Plan

Done, in the order of importance: Barrier, Lifecycle (composes Barrier),
Exchange, Connection (implements Exchange), RouterBuild, Router, Form, Response,
RouterTable, RegexOwner, Resolver. Left:

1. **Lifecycle** extended by `setSignalHandler` of the program at any time, and by
   a second `start()` on one App.
2. **Form** and **Connection** composed, so that the processor that fails in one is
   the form parser of the other.
3. **Response** with two daemons that send one response at once.
4. Proofs: those of what 1 to 3 add; of the safety properties that the runs check
   now none is left.
