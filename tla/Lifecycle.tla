----------------------------- MODULE Lifecycle -----------------------------
(***************************************************************************)
(* Start, stop and destruction of Apps, and the signal handlers that run   *)
(* in between (lib/src/app.cc, and start and stop in lib/src/http.cc).     *)
(*                                                                         *)
(* Threads: the thread that constructs, starts and destroys an App (the    *)
(* App's own name stands for it), the threads of the MHD daemons, the      *)
(* other threads of the program, and thr_, whose only work is one call of  *)
(* Barrier::wait.  A delivered signal runs on top of what its thread was   *)
(* doing: each thread has a stack of calls and only the topmost one runs.  *)
(* A call is one delivery of a signal or one call of App::stop; the sets   *)
(* of calls bound how many there are.                                      *)
(*                                                                         *)
(* The two mutexes, handlersMutex and global::mutex, are held over several *)
(* actions, so that signals land inside the critical sections.  The mutex  *)
(* of a Barrier is not: Barrier.tla describes what one release of it to    *)
(* the next does, and BarrierRefined checks that this module agrees.       *)
(***************************************************************************)
EXTENDS Naturals, Sequences, FiniteSets, SequencesExt

CONSTANTS Apps,         \* the App objects, and the threads that start them
          Daemons,      \* the MHD daemons, one thread each
          OwnerOf,      \* the App whose start() creates a daemon
          Users,        \* other threads of the program
          SignalCalls,  \* the deliveries of a signal
          StopCalls,    \* the calls of App::stop by user code
          Thr,          \* thr_ as a caller of Barrier::wait
          None,         \* no owner, no thread
          WordMax       \* largest value of a Barrier's counter

Calls == SignalCalls \cup StopCalls
Threads == Apps \cup Daemons \cup Users
Callers == Calls \cup {Thr}

ASSUME LifecycleAssumption ==
    /\ OwnerOf \in [Daemons -> Apps]
    /\ IsFiniteSet(Callers)
    /\ SignalCalls \cap StopCalls = {}
    /\ Thr \notin Calls
    /\ None \notin Threads \cup Calls
    /\ Apps \cap Daemons = {} /\ Users \cap (Apps \cup Daemons) = {}
    /\ Threads \cap Calls = {}
    /\ WordMax \in Nat /\ WordMax > 2

Signals == {"SIGINT", "SIGPIPE"}

\* What start() installs: SIGINT stops every App, SIGPIPE does nothing.
Default == [s \in Signals |-> IF s = "SIGINT" THEN "stop" ELSE "ignore"]

\* Mutant: Barrier(1).
TotalOfOne == 1

\* Barrier(2) of HttpImplement: thr_ and one call of stop().
Total == 2

VARIABLES
    apps,       \* AppManager::apps
    handlers,   \* AppManager::handlers, "none" where a signal has no entry
    installed,  \* the signals whose disposition is signalHandlerWrapper
    hOwner,     \* who holds handlersMutex
    gOwner,     \* who holds global::mutex
    http,       \* is http_ an object
    running,    \* running_
    number,     \* runningBarrier_.number_
    place,      \* where each caller is in runningBarrier_.wait()
    alive,      \* the daemons that run
    pc,         \* where the thread of each App is
    asked,      \* the signal of the have/setSignalHandler pair in progress
    sigs,       \* start()'s list of signals
    mask,       \* the signals blocked on the thread of each App
    stack,      \* calls on each thread, the running one last
    at,         \* where each call is
    on,         \* the thread of each call
    sig,        \* the signal a call handles
    todo,       \* the Apps a call has still to stop
    cur         \* the App a call is stopping

mains == <<pc, asked, sigs, mask>>
calls == <<stack, at, on, sig, todo, cur>>
barriers == <<number, place>>
locks == <<hOwner, gOwner>>
tables == <<apps, handlers, installed>>
vars == <<tables, locks, http, running, barriers, alive, mains, calls>>

(***************************************************************************)
(* The places of an App's thread.  A place that waits for a mutex has a    *)
(* partner, inside the critical section.                                   *)
(***************************************************************************)
WantsH == [new |-> "registering", ask |-> "asking", install |-> "installing",
           list |-> "listing", destroy |-> "destroying"]
WantsG == [launch |-> "launching", halt |-> "halting"]

InsideH == {"registering", "asking", "installing", "emplacing", "listing",
            "destroying"}
InsideG == {"launching", "failing", "halting"}

Steps == DOMAIN WantsH \cup InsideH \cup DOMAIN WantsG \cup InsideG \cup
         {"idle", "mask", "publish", "callback", "join", "clear",
          "returned", "gone"}

CallSteps == {"unused", "wantH", "wantG", "each", "enter", "waiting", "done"}

TypeOK ==
    /\ apps \subseteq Apps
    /\ handlers \in [Signals -> {"none", "stop", "ignore"}]
    /\ installed \subseteq Signals
    /\ hOwner \in Threads \cup Calls \cup {None}
    /\ gOwner \in Threads \cup Calls \cup {None}
    /\ http \in [Apps -> BOOLEAN]
    /\ running \in [Apps -> BOOLEAN]
    /\ number \in [Apps -> 0..WordMax]
    /\ place \in [Apps -> [Callers ->
                    {"outside", "blocked", "notified", "passed"}]]
    /\ alive \subseteq Daemons
    /\ pc \in [Apps -> Steps]
    /\ asked \in [Apps -> Signals]
    /\ sigs \in [Apps -> SUBSET Signals]
    /\ mask \in [Apps -> SUBSET Signals]
    /\ stack \in [Threads -> Seq(Calls)]
    /\ at \in [Calls -> CallSteps]
    /\ on \in [Calls -> Threads \cup {None}]
    /\ sig \in [Calls -> Signals]
    /\ todo \in [Calls -> SUBSET Apps]
    /\ cur \in [Calls -> Apps \cup {None}]

OwnDaemons(a) == {d \in Daemons : OwnerOf[d] = a}

\* The thread runs its own code, no call is on top of it.
Free(t) == stack[t] = <<>>

Topmost(k) ==
    /\ on[k] # None
    /\ stack[on[k]] # <<>>
    /\ Last(stack[on[k]]) = k

\* A step of an App's thread from one place to another.
Goes(a, from, to) ==
    /\ Free(a) /\ pc[a] = from
    /\ pc' = [pc EXCEPT ![a] = to]
    /\ UNCHANGED <<barriers, calls>>

(***************************************************************************)
(* The constructor, start() and the destructor, on the App's own thread.   *)
(***************************************************************************)
LockHandlers(a) ==
    /\ hOwner = None
    /\ hOwner' = a
    /\ \E p \in DOMAIN WantsH : Goes(a, p, WantsH[p])
    /\ UNCHANGED <<tables, gOwner, http, running, alive, asked, sigs, mask>>

LockGlobal(a) ==
    /\ gOwner = None
    /\ gOwner' = a
    /\ \E p \in DOMAIN WantsG : Goes(a, p, WantsG[p])
    /\ UNCHANGED <<tables, hOwner, http, running, alive, asked, sigs, mask>>

\* App::App.
Register(a) ==
    /\ Goes(a, "registering", "idle")
    /\ apps' = apps \cup {a}
    /\ hOwner' = None
    /\ UNCHANGED <<handlers, installed, gOwner, http, running, alive, asked,
                   sigs, mask>>

\* start() up to the HttpImplement: the address and the routes may be bad.
Start(a) ==
    /\ \/ Goes(a, "idle", "ask") /\ http' = [http EXCEPT ![a] = TRUE]
       \/ Goes(a, "idle", "returned") /\ UNCHANGED http
    /\ asked' = [asked EXCEPT ![a] = "SIGINT"]
    /\ UNCHANGED <<tables, locks, running, alive, sigs, mask>>

\* On to SIGPIPE after SIGINT, then to the list of signals.
NextDefault(a, from) ==
    \/ /\ asked[a] = "SIGINT"
       /\ asked' = [asked EXCEPT ![a] = "SIGPIPE"]
       /\ Goes(a, from, "ask")
    \/ asked[a] = "SIGPIPE" /\ UNCHANGED asked /\ Goes(a, from, "list")

\* Mutant: have() is not asked.
HaveNothing(a) ==
    /\ Goes(a, "asking", "install") /\ UNCHANGED asked
    /\ hOwner' = None
    /\ UNCHANGED <<tables, gOwner, http, running, alive, sigs, mask>>

\* AppManager::have: an entry, the user's own included, is left as it is.
Have(a) ==
    /\ \/ /\ handlers[asked[a]] = "none"
          /\ Goes(a, "asking", "install") /\ UNCHANGED asked
       \/ handlers[asked[a]] # "none" /\ NextDefault(a, "asking")
    /\ hOwner' = None
    /\ UNCHANGED <<tables, gOwner, http, running, alive, sigs, mask>>

\* Mutant: the mutex is released between sigaction and the entry.
RegisterSignalAndUnlock(a) ==
    /\ Goes(a, "installing", "emplacing")
    /\ installed' = installed \cup {asked[a]}
    /\ hOwner' = None
    /\ UNCHANGED <<apps, handlers, gOwner, http, running, alive, asked, sigs,
                   mask>>

\* App::setSignalHandler: sigaction first, then the entry, under one lock.
RegisterSignal(a) ==
    /\ Goes(a, "installing", "emplacing")
    /\ installed' = installed \cup {asked[a]}
    /\ UNCHANGED <<apps, handlers, locks, http, running, alive, asked, sigs,
                   mask>>

EmplaceHandler(a) ==
    /\ NextDefault(a, "emplacing")
    /\ handlers' = [handlers EXCEPT ![asked[a]] = Default[asked[a]]]
    /\ hOwner' = None
    /\ UNCHANGED <<apps, installed, gOwner, http, running, alive, sigs, mask>>

ListSignals(a) ==
    /\ Goes(a, "listing", "launch")
    /\ sigs' = [sigs EXCEPT ![a] = {s \in Signals : handlers[s] # "none"}]
    /\ hOwner' = None
    /\ UNCHANGED <<tables, gOwner, http, running, alive, asked, mask>>

(***************************************************************************)
(* HttpImplement::startMHDDaemon.                                          *)
(***************************************************************************)
StartDaemon(a) ==
    /\ \E d \in OwnDaemons(a) \ alive :
          \/ Goes(a, "launching", "launching") /\ alive' = alive \cup {d}
          \/ Goes(a, "launching", "failing") /\ UNCHANGED alive
    /\ UNCHANGED <<tables, locks, http, running, asked, sigs, mask>>

Launched(a) ==
    /\ Goes(a, "launching", "mask")
    /\ OwnDaemons(a) \subseteq alive
    /\ gOwner' = None
    /\ UNCHANGED <<tables, hOwner, http, running, alive, asked, sigs, mask>>

\* Mutant: pthread_sigmask is missing.
MaskNothing(a) ==
    /\ Goes(a, "mask", "publish")
    /\ UNCHANGED <<tables, locks, http, running, alive, asked, sigs, mask>>

\* SIG_SETMASK: from here on the thread takes none of the listed signals.
MaskSignals(a) ==
    /\ Goes(a, "mask", "publish")
    /\ mask' = [mask EXCEPT ![a] = sigs[a]]
    /\ UNCHANGED <<tables, locks, http, running, alive, asked, sigs>>

\* running_ is set and thr_ created: it arrives at the barrier when it can.
Publish(a) ==
    /\ Goes(a, "publish", "callback")
    /\ running' = [running EXCEPT ![a] = TRUE]
    /\ UNCHANGED <<tables, locks, http, alive, asked, sigs, mask>>

CallbackReturns(a) ==
    /\ Goes(a, "callback", "join")
    /\ UNCHANGED <<tables, locks, http, running, alive, asked, sigs, mask>>

JoinThr(a) ==
    /\ Goes(a, "join", "clear")
    /\ place[a][Thr] = "passed"
    /\ UNCHANGED <<tables, locks, http, running, alive, asked, sigs, mask>>

ClearRunning(a) ==
    /\ Goes(a, "clear", "halt")
    /\ running' = [running EXCEPT ![a] = FALSE]
    /\ UNCHANGED <<tables, locks, http, alive, asked, sigs, mask>>

\* MHD_stop_daemon returns when the daemon's thread has ended, which it
\* cannot while a call runs on it.
StopDaemon(a) ==
    /\ \E p \in {"failing", "halting"} : Goes(a, p, p)
    /\ \E d \in OwnDaemons(a) \cap alive : Free(d) /\ alive' = alive \ {d}
    /\ UNCHANGED <<tables, locks, http, running, asked, sigs, mask>>

\* Mutant: start() returns before every daemon has been stopped.
HaltedEarly(a) ==
    /\ \E p \in {"failing", "halting"} : Goes(a, p, "returned")
    /\ gOwner' = None
    /\ UNCHANGED <<tables, hOwner, http, running, alive, asked, sigs, mask>>

Halted(a) ==
    /\ \E p \in {"failing", "halting"} : Goes(a, p, "returned")
    /\ OwnDaemons(a) \cap alive = {}
    /\ gOwner' = None
    /\ UNCHANGED <<tables, hOwner, http, running, alive, asked, sigs, mask>>

\* App::~App.  The program lets its own calls of stop() return first.
Destroy(a) ==
    /\ \E p \in {"idle", "returned"} : Goes(a, p, "destroy")
    /\ \A k \in StopCalls : at[k] \notin {"unused", "done"} =>
          cur[k] # a /\ a \notin todo[k]
    /\ UNCHANGED <<tables, locks, http, running, alive, asked, sigs, mask>>

\* Mutant: the destructor takes no mutex.
EraseUnlocked(a) ==
    /\ \E p \in {"destroy", "destroying"} : Goes(a, p, "gone")
    /\ apps' = apps \ {a}
    /\ http' = [http EXCEPT ![a] = FALSE]
    /\ hOwner' = IF hOwner = a THEN None ELSE hOwner
    /\ UNCHANGED <<handlers, installed, gOwner, running, alive, asked, sigs,
                   mask>>

Erase(a) ==
    /\ Goes(a, "destroying", "gone")
    /\ apps' = apps \ {a}
    /\ http' = [http EXCEPT ![a] = FALSE]
    /\ hOwner' = None
    /\ UNCHANGED <<handlers, installed, gOwner, running, alive, asked, sigs,
                   mask>>

(***************************************************************************)
(* Calls: signalHandlerWrapper and App::stop.  Outside the barrier a call  *)
(* changes nothing but its own state and the mutexes.                      *)
(***************************************************************************)
others == <<tables, http, running, barriers, alive, mains>>

Begins(k, t, step) ==
    /\ at[k] = "unused"
    /\ at' = [at EXCEPT ![k] = step]
    /\ stack' = [stack EXCEPT ![t] = Append(@, k)]
    /\ on' = [on EXCEPT ![k] = t]
    /\ UNCHANGED <<others, locks, cur>>

\* A thread does not take a signal it blocks, nor one it is handling.
Takes(t, s) ==
    /\ t \in Apps => s \notin mask[t]
    /\ t \in Daemons => t \in alive
    /\ \A i \in 1..Len(stack[t]) :
          stack[t][i] \in SignalCalls => sig[stack[t][i]] # s

Deliver(k, t, s) ==
    /\ k \in SignalCalls
    /\ s \in installed /\ Takes(t, s)
    /\ Begins(k, t, "wantH")
    /\ sig' = [sig EXCEPT ![k] = s]
    /\ UNCHANGED todo

WrapperLocksHandlers(k) ==
    /\ Topmost(k) /\ at[k] = "wantH"
    /\ hOwner = None
    /\ hOwner' = k
    /\ at' = [at EXCEPT ![k] = "wantG"]
    /\ UNCHANGED <<others, gOwner, stack, on, sig, todo, cur>>

WrapperLocksGlobal(k) ==
    /\ Topmost(k) /\ at[k] = "wantG"
    /\ gOwner = None
    /\ gOwner' = k
    /\ at' = [at EXCEPT ![k] = "each"]
    /\ todo' = [todo EXCEPT ![k] = apps]
    /\ UNCHANGED <<others, hOwner, stack, on, sig, cur>>

\* User code calls stop() on an App that exists: from another thread, from
\* a controller on a daemon's thread, or from the callback of start().
CallStop(k, t, a) ==
    /\ k \in StopCalls
    /\ Free(t)
    /\ t \in Users \cup alive \/ (t \in Apps /\ pc[t] = "callback")
    /\ pc[a] \notin {"new", "registering", "destroy", "destroying", "gone"}
    /\ Begins(k, t, "each")
    /\ todo' = [todo EXCEPT ![k] = {a}]
    /\ UNCHANGED sig

\* A call stops an App unless it handles a signal that is ignored.
Stops(k) == k \in StopCalls \/ handlers[sig[k]] = "stop"

\* Mutant: the handler stops one App and returns.
CheckRunningOnce(k) ==
    /\ Topmost(k) /\ at[k] = "each"
    /\ \E a \in todo[k] :
          \/ /\ Stops(k) /\ http[a] /\ running[a]
             /\ todo' = [todo EXCEPT ![k] = {}]
             /\ at' = [at EXCEPT ![k] = "enter"]
             /\ cur' = [cur EXCEPT ![k] = a]
          \/ /\ ~(Stops(k) /\ http[a] /\ running[a])
             /\ todo' = [todo EXCEPT ![k] = @ \ {a}]
             /\ UNCHANGED <<at, cur>>
    /\ UNCHANGED <<others, locks, stack, on, sig>>

\* App::stop up to the barrier: isRunning() there and in HttpImplement::stop.
CheckRunning(k) ==
    /\ Topmost(k) /\ at[k] = "each"
    /\ \E a \in todo[k] :
          /\ todo' = [todo EXCEPT ![k] = @ \ {a}]
          /\ \/ /\ Stops(k) /\ http[a] /\ running[a]
                /\ at' = [at EXCEPT ![k] = "enter"]
                /\ cur' = [cur EXCEPT ![k] = a]
             \/ /\ ~(Stops(k) /\ http[a] /\ running[a])
                /\ UNCHANGED <<at, cur>>
    /\ UNCHANGED <<others, locks, stack, on, sig>>

\* Mutant: global::mutex is not released.
ReturnWithGlobal(k) ==
    /\ Topmost(k) /\ at[k] = "each" /\ todo[k] = {}
    /\ stack' = [stack EXCEPT ![on[k]] = Front(@)]
    /\ on' = [on EXCEPT ![k] = None]
    /\ at' = [at EXCEPT ![k] = "done"]
    /\ hOwner' = IF hOwner = k THEN None ELSE hOwner
    /\ UNCHANGED <<others, gOwner, sig, todo, cur>>

\* Every App has been dealt with: the call returns and frees its mutexes.
Return(k) ==
    /\ Topmost(k) /\ at[k] = "each" /\ todo[k] = {}
    /\ stack' = [stack EXCEPT ![on[k]] = Front(@)]
    /\ on' = [on EXCEPT ![k] = None]
    /\ at' = [at EXCEPT ![k] = "done"]
    /\ hOwner' = IF hOwner = k THEN None ELSE hOwner
    /\ gOwner' = IF gOwner = k THEN None ELSE gOwner
    /\ UNCHANGED <<others, sig, todo, cur>>

(***************************************************************************)
(* Barrier::wait, by a call that stops App a or by its thr_.               *)
(***************************************************************************)
Entering(a) ==
    {k \in Calls : Topmost(k) /\ at[k] = "enter" /\ cur[k] = a} \cup
    {t \in {Thr} : pc[a] \in {"callback", "join"} /\ place[a][Thr] = "outside"}

Sleeping(a) ==
    {k \in Calls : Topmost(k) /\ at[k] = "waiting" /\ cur[k] = a} \cup {Thr}

\* A caller c of the barrier of a gets to step p of its call.
Moves(a, c, p) ==
    IF c = Thr
      THEN UNCHANGED <<at, cur>>
      ELSE /\ at' = [at EXCEPT ![c] = p]
           /\ cur' = [cur EXCEPT ![c] = IF p = "each" THEN None ELSE @]

\* Mutant: no notify_all.
WakeNobody(a, c) == place' = [place EXCEPT ![a][c] = "passed"]

WakeAll(a, c) ==
    place' = [place EXCEPT ![a] =
                [d \in Callers |-> IF d = c THEN "passed"
                                  ELSE IF @[d] = "blocked" THEN "notified"
                                  ELSE @[d]]]

\* Mutant: number_ is a signed integer.
DecrementedSigned(n) == n - 1

\* number_-- on an unsigned integer.
Decremented(n) == IF n = 0 THEN WordMax ELSE n - 1

BarrierArrive(a, c) ==
    /\ c \in Entering(a)
    /\ number[a] <= Total
    /\ number' = [number EXCEPT ![a] = Decremented(@)]
    /\ \/ number'[a] = 0 /\ WakeAll(a, c) /\ Moves(a, c, "each")
       \/ /\ number'[a] # 0
          /\ place' = [place EXCEPT ![a][c] = "blocked"]
          /\ Moves(a, c, "waiting")
    /\ UNCHANGED <<tables, locks, http, running, alive, mains, stack, on, sig,
                   todo>>

BarrierFallThrough(a, c) ==
    /\ c \in Entering(a)
    /\ number[a] > Total
    /\ place' = [place EXCEPT ![a][c] = "passed"]
    /\ Moves(a, c, "each")
    /\ UNCHANGED <<tables, locks, http, running, number, alive, mains, stack,
                   on, sig, todo>>

BarrierSpurious(a, c) ==
    /\ place[a][c] = "blocked"
    /\ place' = [place EXCEPT ![a][c] = "notified"]
    /\ UNCHANGED <<tables, locks, http, running, number, alive, mains, calls>>

\* Mutant: cv_.wait(lock) without a predicate.
BarrierRecheckNothing(a, c) ==
    /\ c \in Sleeping(a) /\ place[a][c] = "notified"
    /\ WakeAll(a, c) /\ Moves(a, c, "each")
    /\ UNCHANGED <<tables, locks, http, running, number, alive, mains, stack,
                   on, sig, todo>>

BarrierRecheck(a, c) ==
    /\ c \in Sleeping(a) /\ place[a][c] = "notified"
    /\ \/ number[a] = 0 /\ WakeAll(a, c) /\ Moves(a, c, "each")
       \/ /\ number[a] # 0
          /\ place' = [place EXCEPT ![a][c] = "blocked"]
          /\ UNCHANGED <<at, cur>>
    /\ UNCHANGED <<tables, locks, http, running, number, alive, mains, stack,
                   on, sig, todo>>

(***************************************************************************)
(* The specification.  Before the first App the program may have set its   *)
(* own handlers, which here do nothing to the Apps.                        *)
(***************************************************************************)
Init ==
    /\ apps = {}
    /\ handlers \in [Signals -> {"none", "ignore"}]
    /\ installed = {s \in Signals : handlers[s] # "none"}
    /\ hOwner = None /\ gOwner = None
    /\ http = [a \in Apps |-> FALSE]
    /\ running = [a \in Apps |-> FALSE]
    /\ number = [a \in Apps |-> Total]
    /\ place = [a \in Apps |-> [c \in Callers |-> "outside"]]
    /\ alive = {}
    /\ pc = [a \in Apps |-> "new"]
    /\ asked = [a \in Apps |-> "SIGINT"]
    /\ sigs = [a \in Apps |-> {}]
    /\ mask = [a \in Apps |-> {}]
    /\ stack = [t \in Threads |-> <<>>]
    /\ at = [k \in Calls |-> "unused"]
    /\ on = [k \in Calls |-> None]
    /\ sig = [k \in Calls |-> "SIGINT"]
    /\ todo = [k \in Calls |-> {}]
    /\ cur = [k \in Calls |-> None]

\* What the thread of an App does once it has been told to, to the end.
Proceed(a) ==
    \/ LockHandlers(a) \/ LockGlobal(a) \/ Register(a) \/ Have(a)
    \/ RegisterSignal(a) \/ EmplaceHandler(a) \/ ListSignals(a)
    \/ StartDaemon(a) \/ Launched(a) \/ MaskSignals(a) \/ Publish(a)
    \/ CallbackReturns(a) \/ JoinThr(a) \/ ClearRunning(a)
    \/ StopDaemon(a) \/ Halted(a) \/ Erase(a)

\* What a call does once it has begun, outside the barrier.
Carry(k) ==
    \/ WrapperLocksHandlers(k) \/ WrapperLocksGlobal(k)
    \/ CheckRunning(k) \/ Return(k)

\* What a caller of the barrier does when it can run.
Pass(a, c) ==
    BarrierArrive(a, c) \/ BarrierFallThrough(a, c) \/ BarrierRecheck(a, c)

Next ==
    \/ \E a \in Apps : Proceed(a) \/ Start(a) \/ Destroy(a)
    \/ \E k \in Calls : Carry(k)
    \/ \E k \in Calls, t \in Threads, s \in Signals : Deliver(k, t, s)
    \/ \E k \in Calls, t \in Threads, a \in Apps : CallStop(k, t, a)
    \/ \E a \in Apps, c \in Callers : Pass(a, c) \/ BarrierSpurious(a, c)

Spec == Init /\ [][Next]_vars

(***************************************************************************)
(* Threads that can run do, mutexes are granted when they are free, and    *)
(* the callback of start() returns.  Nothing obliges the program to start, *)
(* stop or destroy an App, nor a signal to arrive.                         *)
(***************************************************************************)
Fairness ==
    /\ \A a \in Apps : WF_vars(Proceed(a))
    /\ \A k \in Calls : WF_vars(Carry(k))
    /\ \A a \in Apps, c \in Callers : WF_vars(Pass(a, c))

FairSpec == Spec /\ Fairness

(***************************************************************************)
(* Properties                                                              *)
(***************************************************************************)

\* A signal handler iterates over AppManager::apps and calls stop() on each:
\* none of them is destroyed under its hands, however long it waits in the
\* barrier (app.cc:112-124 against 157-164).
HandlerTouchesLiveApps ==
    \A k \in SignalCalls : at[k] \in {"each", "enter", "waiting"} =>
        /\ todo[k] \subseteq apps
        /\ cur[k] # None => cur[k] \in apps /\ http[cur[k]]

\* An MHD daemon calls back into the HttpImplement it was started with
\* ("this" in http.cc:481): no daemon outlives it, on the error path either.
DaemonsHaveHttp == \A d \in alive : http[OwnerOf[d]]

\* assert(f != end) in the handler, app.cc:119: sigaction comes before the
\* entry of the table, and still no handler finds the table without it.
HandlerFound ==
    \A k \in SignalCalls : at[k] = "each" => handlers[sig[k]] # "none"

\* While an App runs, the thread in start() handles no signal: it could be
\* holding the mutexes that the handler needs (http.cc:496-508).
RunningThreadUninterrupted ==
    \A a \in Apps : running[a] =>
        \A i \in 1..Len(stack[a]) : stack[a][i] \notin SignalCalls

\* An App leaves join() only because somebody asked it to stop.
StoppedOnlyOnRequest ==
    \A a \in Apps : place[a][Thr] = "passed" =>
        \E k \in Calls : place[a][k] # "outside"

\* A handler the program installed before start() is never replaced by the
\* default one (app.cc:188-197), whichever Apps start at the same time.
UserHandlerKept ==
    [][\A s \in Signals : handlers[s] = "ignore" => handlers'[s] = "ignore"]_vars

\* The barrier inside each App is the Barrier of Barrier.tla.
B(a) == INSTANCE Barrier WITH Calls <- Callers, number <- number[a],
                              pc <- place[a]
BarrierRefined ==
    /\ \A a \in Apps : B(a)!Init
    /\ [][\A a \in Apps : [B(a)!Next]_<<number[a], place[a]>>]_vars

\* A call of stop() that goes to the barrier of a running App ends in
\* start() returning, all daemons stopped (http.cc:512-523).
StopReturns ==
    \A a \in Apps, k \in Calls :
        (at[k] = "enter" /\ cur[k] = a /\ running[a]) ~> (pc[a] = "returned")

\* Once the App has been told to stop and its barrier has been passed,
\* start() returns, whatever signal arrives now: a program stops the App and
\* joins the thread that is in start() (the TearDown of http_app.cc:159-163).
HaltReturns == \A a \in Apps : (pc[a] = "halt") ~> (pc[a] = "returned")

\* One SIGINT stops every App that runs when its handler begins: the handler
\* waits in the barrier of one App while it holds the mutexes that all of
\* them need to come to an end (app.cc:122-124).
EveryAppStops ==
    \A a \in Apps, k \in SignalCalls :
        (at[k] = "each" /\ a \in todo[k] /\ running[a] /\ Stops(k))
            ~> ~running[a]

\* SIGINT stops an App that is running (http_app_signal.cc:73-75: raise, a
\* moment, ASSERT_FALSE(app->isRunning())).
SigintStops ==
    \A a \in Apps, k \in SignalCalls :
        (at[k] = "enter" /\ cur[k] = a) ~> ~running[a]
=============================================================================
