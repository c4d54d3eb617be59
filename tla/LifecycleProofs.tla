-------------------------- MODULE LifecycleProofs --------------------------
(***************************************************************************)
(* Lifecycle, for any number of Apps, daemons, threads, signals and calls  *)
(* of stop().                                                              *)
(***************************************************************************)
EXTENDS Lifecycle, TLAPS

-----------------------------------------------------------------------------
(***************************************************************************)
(* Types.                                                                  *)
(***************************************************************************)

\* Where a wait for a mutex leads.
LEMMA WantsHDomain ==
    /\ DOMAIN WantsH = {"new", "ask", "install", "list", "destroy"}
    /\ \A p \in DOMAIN WantsH : WantsH[p] \in InsideH
BY DEF WantsH, InsideH

LEMMA WantsGDomain ==
    /\ DOMAIN WantsG = {"launch", "halt"}
    /\ \A p \in DOMAIN WantsG : WantsG[p] \in InsideG
BY DEF WantsG, InsideG

LEMMA StepsList ==
    Steps = {"new", "ask", "install", "list", "destroy", "registering",
             "asking", "installing", "emplacing", "listing", "destroying",
             "launch", "halt", "launching", "failing", "halting",
             "idle", "mask", "publish", "callback", "join", "clear",
             "returned", "gone"}
BY WantsHDomain, WantsGDomain DEF Steps, InsideH, InsideG

LEMMA TypeInit == Init => TypeOK
BY LifecycleAssumption, StepsList
DEF Init, TypeOK, Signals, CallSteps, Threads, Calls, Callers, Total

LEMMA NextDefaultType ==
    ASSUME TypeOK, NEW a \in Apps, NEW p \in Steps, NextDefault(a, p)
    PROVE  pc' \in [Apps -> Steps] /\ asked' \in [Apps -> Signals]
BY StepsList DEF TypeOK, NextDefault, Goes, Signals

\* The steps of an App's thread before the daemons.
LEMMA TypeStart ==
    ASSUME TypeOK, NEW a \in Apps,
           \/ LockHandlers(a) \/ LockGlobal(a) \/ Register(a) \/ Start(a)
           \/ Have(a) \/ RegisterSignal(a) \/ EmplaceHandler(a)
           \/ ListSignals(a)
    PROVE  TypeOK'
<1> USE StepsList DEF TypeOK, Goes, tables, locks, barriers,
                      mains, calls
<1>1. CASE LockHandlers(a)
  BY <1>1, WantsHDomain DEF LockHandlers, InsideH, Threads
<1>2. CASE LockGlobal(a)
  BY <1>2, WantsGDomain DEF LockGlobal, InsideG, Threads
<1>3. CASE Register(a)
  BY <1>3 DEF Register
<1>4. CASE Start(a)
  BY <1>4 DEF Start, Signals
<1>5. CASE Have(a)
  <2>1. /\ hOwner' = None
        /\ UNCHANGED <<tables, gOwner, http, running, barriers, alive, sigs,
                      mask, calls>>
    BY <1>5 DEF Have, NextDefault
  <2>2. pc' \in [Apps -> Steps] /\ asked' \in [Apps -> Signals]
    <3>1. CASE Goes(a, "asking", "install") /\ UNCHANGED asked
      BY <3>1
    <3>2. CASE NextDefault(a, "asking")
      BY <3>2, NextDefaultType
    <3> QED
      BY <1>5, <3>1, <3>2 DEF Have
  <2> QED
    BY <2>1, <2>2
<1>6. CASE RegisterSignal(a)
  BY <1>6 DEF RegisterSignal
<1>7. CASE EmplaceHandler(a)
  <2>1. pc' \in [Apps -> Steps] /\ asked' \in [Apps -> Signals]
    BY <1>7, NextDefaultType DEF EmplaceHandler
  <2> QED
    BY <1>7, <2>1 DEF EmplaceHandler, NextDefault, Default, Signals
<1>8. CASE ListSignals(a)
  BY <1>8 DEF ListSignals
<1> QED
  BY <1>1, <1>2, <1>3, <1>4, <1>5, <1>6, <1>7, <1>8

\* Its steps from the first daemon on.
LEMMA TypeServe ==
    ASSUME TypeOK, NEW a \in Apps,
           \/ StartDaemon(a) \/ Launched(a) \/ MaskSignals(a) \/ Publish(a)
           \/ CallbackReturns(a) \/ JoinThr(a)
           \/ ClearRunning(a) \/ StopDaemon(a) \/ Halted(a) \/ Destroy(a)
           \/ Erase(a)
    PROVE  TypeOK'
<1> USE StepsList DEF TypeOK, Goes, tables, locks, barriers, mains, calls
<1>1. CASE StartDaemon(a)
  <2> PICK d \in Daemons :
          \/ Goes(a, "launching", "launching") /\ alive' = alive \cup {d}
          \/ Goes(a, "launching", "failing") /\ UNCHANGED alive
    BY <1>1 DEF StartDaemon, OwnDaemons
  <2>1. alive' \subseteq Daemons /\ pc' \in [Apps -> Steps]
    OBVIOUS
  <2> QED
    BY <1>1, <2>1 DEF StartDaemon
<1>2. CASE Launched(a)
  BY <1>2 DEF Launched
<1>3. CASE MaskSignals(a)
  BY <1>3 DEF MaskSignals
<1>4. CASE Publish(a)
  BY <1>4 DEF Publish
<1>5. CASE CallbackReturns(a)
  BY <1>5 DEF CallbackReturns
<1>6. CASE JoinThr(a)
  BY <1>6 DEF JoinThr
<1>7. CASE ClearRunning(a)
  BY <1>7 DEF ClearRunning
<1>8. CASE StopDaemon(a)
  BY <1>8 DEF StopDaemon
<1>9. CASE Halted(a)
  BY <1>9 DEF Halted
<1>10. CASE Destroy(a)
  BY <1>10 DEF Destroy
<1>11. CASE Erase(a)
  BY <1>11 DEF Erase
<1> QED
  BY <1>1, <1>2, <1>3, <1>4, <1>5, <1>6, <1>7, <1>8, <1>9, <1>10, <1>11

LEMMA BeginsType ==
    ASSUME TypeOK, NEW k \in Calls, NEW t \in Threads, NEW p \in CallSteps,
           Begins(k, t, p)
    PROVE  /\ stack' \in [Threads -> Seq(Calls)]
           /\ on' \in [Calls -> Threads \cup {None}]
           /\ at' \in [Calls -> CallSteps]
BY DEF TypeOK, Begins

\* The calls, outside the barrier.
LEMMA TypeCalls ==
    ASSUME TypeOK, NEW k \in Calls,
           \/ Carry(k)
           \/ \E t \in Threads, s \in Signals : Deliver(k, t, s)
           \/ \E t \in Threads, a \in Apps : CallStop(k, t, a)
    PROVE  TypeOK'
<1> USE DEF TypeOK, CallSteps, others, tables, locks, barriers, mains
<1>1. CASE WrapperLocksHandlers(k)
  BY <1>1 DEF WrapperLocksHandlers
<1>2. CASE WrapperLocksGlobal(k)
  BY <1>2 DEF WrapperLocksGlobal
<1>3. CASE CheckRunning(k)
  <2> PICK a \in todo[k] :
          /\ todo' = [todo EXCEPT ![k] = @ \ {a}]
          /\ \/ /\ at' = [at EXCEPT ![k] = "enter"]
                /\ cur' = [cur EXCEPT ![k] = a]
             \/ UNCHANGED <<at, cur>>
    BY <1>3 DEF CheckRunning
  <2>1. a \in Apps /\ todo[k] \ {a} \in SUBSET Apps
    OBVIOUS
  <2>2. todo' \in [Calls -> SUBSET Apps]
    BY <2>1
  <2>3. at' \in [Calls -> CallSteps] /\ cur' \in [Calls -> Apps \cup {None}]
    <3>1. CASE /\ at' = [at EXCEPT ![k] = "enter"]
               /\ cur' = [cur EXCEPT ![k] = a]
      BY <2>1, <3>1
    <3>2. CASE UNCHANGED <<at, cur>>
      BY <3>2
    <3> QED
      BY <3>1, <3>2
  <2> QED
    <3>1. UNCHANGED <<others, locks, stack, on, sig>>
      BY <1>3 DEF CheckRunning
    <3> QED
      BY <3>1, <2>2, <2>3
<1>4. CASE Return(k)
  <2> USE <1>4 DEF Return
  <2>1. on[k] \in Threads /\ stack[on[k]] # <<>>
    BY DEF Topmost
  <2>2. Front(stack[on[k]]) \in Seq(Calls)
    BY <2>1 DEF Front
  <2>3. stack' \in [Threads -> Seq(Calls)]
    BY <2>1, <2>2
  <2>4. at' \in [Calls -> CallSteps] /\ on' \in [Calls -> Threads \cup {None}]
    OBVIOUS
  <2> QED
    BY <2>3, <2>4
<1>5. CASE \E t \in Threads, s \in Signals : Deliver(k, t, s)
  <2> PICK t \in Threads, s \in Signals : Deliver(k, t, s)
    BY <1>5
  <2> QED
    BY BeginsType DEF Deliver, Begins
<1>6. CASE \E t \in Threads, a \in Apps : CallStop(k, t, a)
  <2> PICK t \in Threads, a \in Apps : CallStop(k, t, a)
    BY <1>6
  <2> QED
    <3>1. todo' \in [Calls -> SUBSET Apps]
      BY DEF CallStop
    <3> QED
      BY <3>1, BeginsType DEF CallStop, Begins
<1> QED
  BY <1>1, <1>2, <1>3, <1>4, <1>5, <1>6 DEF Carry

LEMMA MovesType ==
    ASSUME TypeOK, NEW a \in Apps, NEW c \in Callers, NEW p \in CallSteps,
           Moves(a, c, p)
    PROVE  at' \in [Calls -> CallSteps] /\ cur' \in [Calls -> Apps \cup {None}]
BY DEF TypeOK, Moves, Callers

LEMMA WakeAllType ==
    ASSUME TypeOK, NEW a \in Apps, NEW c \in Callers, WakeAll(a, c)
    PROVE  place' \in [Apps -> [Callers ->
                          {"outside", "blocked", "notified", "passed"}]]
<1> DEFINE f == [d \in Callers |-> IF d = c THEN "passed"
                                   ELSE IF place[a][d] = "blocked" THEN "notified"
                                   ELSE place[a][d]]
<1>1. f \in [Callers -> {"outside", "blocked", "notified", "passed"}]
  BY DEF TypeOK
<1>2. place' = [place EXCEPT ![a] = f]
  BY DEF WakeAll
<1> QED
  BY <1>1, <1>2 DEF TypeOK

\* The barrier.
LEMMA TypeBarrier ==
    ASSUME TypeOK, NEW a \in Apps, NEW c \in Callers,
           Pass(a, c) \/ BarrierSpurious(a, c)
    PROVE  TypeOK'
<1> USE DEF TypeOK, tables, locks, mains, calls
<1>1. CASE BarrierArrive(a, c)
  <2> USE <1>1 DEF BarrierArrive, Decremented
  <2>1. number' \in [Apps -> 0..WordMax]
    BY LifecycleAssumption DEF Total
  <2>2. place' \in [Apps -> [Callers -> {"outside", "blocked", "notified", "passed"}]]
    <3>1. CASE WakeAll(a, c)
      BY <3>1, WakeAllType
    <3>2. CASE place' = [place EXCEPT ![a][c] = "blocked"]
      BY <3>2
    <3> QED
      BY <3>1, <3>2
  <2>3. at' \in [Calls -> CallSteps] /\ cur' \in [Calls -> Apps \cup {None}]
    BY MovesType DEF CallSteps
  <2> QED
    BY <2>1, <2>2, <2>3
<1>2. CASE BarrierFallThrough(a, c)
  BY <1>2, MovesType DEF BarrierFallThrough, CallSteps
<1>3. CASE BarrierRecheck(a, c)
  <2> USE <1>3 DEF BarrierRecheck
  <2>1. CASE number[a] = 0
    <3>1. WakeAll(a, c) /\ Moves(a, c, "each")
      BY <2>1
    <3>2. at' \in [Calls -> CallSteps] /\ cur' \in [Calls -> Apps \cup {None}]
      BY <3>1, MovesType DEF CallSteps
    <3> QED
      BY <3>1, <3>2, WakeAllType
  <2>2. CASE number[a] # 0
    <3>1. /\ place' = [place EXCEPT ![a][c] = "blocked"]
          /\ UNCHANGED <<at, cur>>
      BY <2>2
    <3>2. place' \in [Apps -> [Callers ->
                         {"outside", "blocked", "notified", "passed"}]]
      BY <3>1
    <3> QED
      BY <3>1, <3>2
  <2> QED
    BY <2>1, <2>2
<1>4. CASE BarrierSpurious(a, c)
  BY <1>4 DEF BarrierSpurious
<1> QED
  BY <1>1, <1>2, <1>3, <1>4 DEF Pass

LEMMA TypeNext == TypeOK /\ [Next]_vars => TypeOK'
<1> SUFFICES ASSUME TypeOK, [Next]_vars PROVE TypeOK'
  OBVIOUS
<1>1. CASE \E a \in Apps : Proceed(a) \/ Start(a) \/ Destroy(a)
  BY <1>1, TypeStart, TypeServe DEF Proceed
<1>2. CASE \E k \in Calls :
            \/ Carry(k)
            \/ \E t \in Threads, s \in Signals : Deliver(k, t, s)
            \/ \E t \in Threads, a \in Apps : CallStop(k, t, a)
  BY <1>2, TypeCalls
<1>3. CASE \E a \in Apps, c \in Callers : Pass(a, c) \/ BarrierSpurious(a, c)
  BY <1>3, TypeBarrier
<1>4. CASE UNCHANGED vars
  BY <1>4 DEF vars, TypeOK, tables, locks, barriers, mains, calls
<1> QED
  BY <1>1, <1>2, <1>3, <1>4 DEF Next

\* Every variable of the model keeps its type.
THEOREM TypeCorrect == Spec => []TypeOK
BY TypeInit, TypeNext, PTL DEF Spec

-----------------------------------------------------------------------------
(***************************************************************************)
(* Safety.  Everything follows from who is inside the critical sections of *)
(* handlersMutex: an App's thread or a signal handler, never two.          *)
(***************************************************************************)

\* The steps at which a signal handler holds handlersMutex.
Holding == {"wantG", "each", "enter", "waiting"}

\* handlersMutex is held by whoever is in one of its critical sections.
LockInv ==
    /\ \A a \in Apps : pc[a] \in InsideH => hOwner = a
    /\ \A k \in SignalCalls : at[k] \in Holding => hOwner = k

\* An App is taken up only by a handler that has both mutexes.
TargetInv ==
    \A k \in SignalCalls : at[k] \in {"unused", "wantH", "wantG"} => cur[k] = None

\* Between sigaction and the table's entry the thread that installs a
\* handler is inside the critical section.
TableInv ==
    /\ \A s \in installed :
          \/ handlers[s] # "none"
          \/ \E a \in Apps : pc[a] = "emplacing" /\ asked[a] = s
    /\ \A k \in SignalCalls : at[k] # "unused" => sig[k] \in installed

\* Daemons exist only from the loop that starts them to the loop that stops
\* them, and the HttpImplement for longer than that.
Serving == {"launching", "failing", "mask", "publish", "callback",
            "join", "clear", "halt", "halting"}
ServeInv ==
    /\ \A a \in Apps : pc[a] \in Serving \cup {"ask", "asking", "install",
            "installing", "emplacing", "list", "listing", "launch"} => http[a]
    /\ \A d \in alive : pc[OwnerOf[d]] \in Serving

SafeInv == LockInv /\ TargetInv /\ TableInv /\ ServeInv /\ HandlerTouchesLiveApps

\* The holders are apart.
LEMMA HoldersDiffer ==
    /\ Apps \cap Calls = {} /\ None \notin Apps /\ None \notin Calls
    /\ SignalCalls \subseteq Calls
BY LifecycleAssumption DEF Threads, Calls

LEMMA SafeInit == Init => SafeInv
BY HoldersDiffer
DEF Init, SafeInv, LockInv, TargetInv, TableInv, ServeInv,
    HandlerTouchesLiveApps, InsideH, Holding, Serving, Signals

LEMMA SafeStart ==
    ASSUME TypeOK, SafeInv, NEW a \in Apps,
           \/ LockHandlers(a) \/ LockGlobal(a) \/ Register(a) \/ Start(a) \/ Have(a) \/ RegisterSignal(a) \/ EmplaceHandler(a) \/ ListSignals(a)
    PROVE  SafeInv'
<1> USE HoldersDiffer DEF TypeOK, SafeInv, LockInv, TargetInv, TableInv,
        ServeInv, HandlerTouchesLiveApps, InsideH, Holding, Serving, Goes,
        NextDefault, tables, locks, barriers, mains, calls, WantsH, WantsG
<1>1. CASE LockHandlers(a)
  BY <1>1 DEF LockHandlers
<1>2. CASE LockGlobal(a)
  BY <1>2 DEF LockGlobal
<1>3. CASE Register(a)
  BY <1>3 DEF Register
<1>4. CASE Start(a)
  <2>1. PICK p \in {"ask", "returned"} :
          /\ pc' = [pc EXCEPT ![a] = p]
          /\ p = "ask" => http' = [http EXCEPT ![a] = TRUE]
          /\ p = "returned" => http' = http
    BY <1>4 DEF Start
  <2>2. /\ pc[a] = "idle"
        /\ \A b \in Apps : b # a => asked'[b] = asked[b]
        /\ UNCHANGED <<tables, locks, running, barriers, alive, sigs, mask,
                      calls>>
    BY <1>4 DEF Start
  <2>3. LockInv'
    BY <2>1, <2>2
  <2>4. TargetInv'
    BY <2>2
  <2>5. TableInv'
    <3>1. \A b \in Apps : pc[b] = "emplacing" =>
            pc'[b] = "emplacing" /\ asked'[b] = asked[b]
      BY <2>1, <2>2
    <3>2. UNCHANGED <<handlers, installed, at, sig>>
      BY <2>2
    <3> HIDE <1>4 DEF TypeOK, LockInv, ServeInv, HandlerTouchesLiveApps
    <3> QED
      BY <3>1, <3>2
  <2>6. p = "ask" => http'[a]
    BY <2>1
  <2>7. \A b \in Apps : http[b] => http'[b]
    <3>1. CASE p = "ask"
      <4>1. http' = [b \in Apps |-> IF b = a THEN TRUE ELSE http[b]]
        BY <2>1, <3>1
      <4> QED
        BY ONLY <4>1, Zenon
    <3>2. CASE p = "returned"
      BY <2>1, <3>2
    <3> QED
      BY <2>1, <3>1, <3>2
  <2>8. ServeInv'
    BY <2>1, <2>2, <2>6, <2>7, LifecycleAssumption
  <2>9. HandlerTouchesLiveApps'
    BY <2>2, <2>7
  <2> QED
    BY <2>3, <2>4, <2>5, <2>8, <2>9
<1>5. CASE Have(a)
  <2>1. PICK p \in {"install", "ask", "list"} : pc' = [pc EXCEPT ![a] = p]
    BY <1>5 DEF Have
  <2>2. /\ pc[a] = "asking" /\ hOwner' = None
        /\ \A b \in Apps : b # a => asked'[b] = asked[b]
        /\ UNCHANGED <<tables, gOwner, http, running, barriers, alive, sigs,
                      mask, calls>>
    BY <1>5 DEF Have
  <2>3. LockInv' /\ TargetInv'
    BY <2>1, <2>2
  <2>4. TableInv'
    BY <2>1, <2>2
  <2>5. ServeInv'
    BY <2>1, <2>2, LifecycleAssumption
  <2>6. HandlerTouchesLiveApps'
    BY <2>2
  <2> QED
    BY <2>3, <2>4, <2>5, <2>6
<1>6. CASE RegisterSignal(a)
  BY <1>6 DEF RegisterSignal
<1>7. CASE EmplaceHandler(a)
  <2>1. PICK p \in {"ask", "list"} : pc' = [pc EXCEPT ![a] = p]
    BY <1>7 DEF EmplaceHandler
  <2>2. /\ pc[a] = "emplacing" /\ hOwner' = None
        /\ handlers' = [handlers EXCEPT ![asked[a]] = Default[asked[a]]]
        /\ \A b \in Apps : b # a => asked'[b] = asked[b]
        /\ UNCHANGED <<apps, installed, gOwner, http, running, barriers, alive,
                      sigs, mask, calls>>
    BY <1>7 DEF EmplaceHandler
  <2>3. LockInv' /\ TargetInv'
    BY <2>1, <2>2
  <2>4. TableInv'
    <3>1. \A s \in Signals : Default[s] # "none"
      BY DEF Default
    <3>2. \A s \in Signals : handlers'[s] # "none" \/ (s # asked[a] /\ handlers'[s] = handlers[s])
      BY <2>2, <3>1
    <3> QED
      BY <2>1, <2>2, <3>2
  <2>5. ServeInv'
    BY <2>1, <2>2, LifecycleAssumption
  <2>6. HandlerTouchesLiveApps'
    BY <2>2
  <2> QED
    BY <2>3, <2>4, <2>5, <2>6
<1>8. CASE ListSignals(a)
  BY <1>8 DEF ListSignals
<1> QED
  BY <1>1, <1>2, <1>3, <1>4, <1>5, <1>6, <1>7, <1>8

LEMMA SafeServe ==
    ASSUME TypeOK, SafeInv, NEW a \in Apps,
           \/ StartDaemon(a) \/ Launched(a) \/ MaskSignals(a) \/ Publish(a) \/ CallbackReturns(a) \/ JoinThr(a) \/ ClearRunning(a) \/ StopDaemon(a) \/ Halted(a) \/ Destroy(a) \/ Erase(a)
    PROVE  SafeInv'
<1> USE HoldersDiffer DEF TypeOK, SafeInv, LockInv, TargetInv, TableInv,
        ServeInv, HandlerTouchesLiveApps, InsideH, Holding, Serving, Goes,
        NextDefault, tables, locks, barriers, mains, calls, WantsH, WantsG
<1>1. CASE StartDaemon(a)
  <2>1. PICK d \in OwnDaemons(a) :
          \/ alive' = alive \cup {d} /\ UNCHANGED pc
          \/ pc' = [pc EXCEPT ![a] = "failing"] /\ UNCHANGED alive
    <3>1. PICK d \in OwnDaemons(a) :
            \/ Goes(a, "launching", "launching") /\ alive' = alive \cup {d}
            \/ Goes(a, "launching", "failing") /\ UNCHANGED alive
      BY <1>1 DEF StartDaemon
    <3>2. CASE Goes(a, "launching", "launching")
      <4>1. pc' = pc
        BY <3>2
      <4> QED
        BY <3>1, <4>1
    <3> QED
      BY <3>1, <3>2
  <2>2. /\ pc[a] = "launching" /\ OwnerOf[d] = a
        /\ UNCHANGED <<tables, locks, http, running, barriers, asked, sigs,
                      mask, calls>>
    BY <1>1 DEF StartDaemon, OwnDaemons
  <2>3. LockInv' /\ TargetInv' /\ TableInv' /\ HandlerTouchesLiveApps'
    BY <2>1, <2>2
  <2>4. ServeInv'
    <3>1. CASE alive' = alive \cup {d} /\ UNCHANGED pc
      BY <2>2, <3>1
    <3>2. CASE pc' = [pc EXCEPT ![a] = "failing"] /\ UNCHANGED alive
      BY <2>2, <3>2, LifecycleAssumption
    <3> QED
      BY <2>1, <3>1, <3>2
  <2> QED
    BY <2>3, <2>4
<1>2. CASE Launched(a)
  BY <1>2 DEF Launched
<1>3. CASE MaskSignals(a)
  BY <1>3 DEF MaskSignals
<1>4. CASE Publish(a)
  BY <1>4 DEF Publish
<1>5. CASE CallbackReturns(a)
  BY <1>5 DEF CallbackReturns
<1>6. CASE JoinThr(a)
  BY <1>6 DEF JoinThr
<1>7. CASE ClearRunning(a)
  BY <1>7 DEF ClearRunning
<1>8. CASE StopDaemon(a)
  BY <1>8 DEF StopDaemon
<1>9. CASE Halted(a)
  <2> USE <1>9 DEF Halted
  <2>1. LockInv' /\ TargetInv' /\ TableInv' /\ HandlerTouchesLiveApps'
    OBVIOUS
  <2>2. \A d \in alive : OwnerOf[d] \in Apps /\ OwnerOf[d] # a
    BY LifecycleAssumption DEF OwnDaemons
  <2>3. ServeInv'
    BY <2>2
  <2> QED
    BY <2>1, <2>3
<1>10. CASE Destroy(a)
  BY <1>10 DEF Destroy
<1>11. CASE Erase(a)
  BY <1>11 DEF Erase
<1> QED
  BY <1>1, <1>2, <1>3, <1>4, <1>5, <1>6, <1>7, <1>8, <1>9, <1>10, <1>11

LEMMA SafeCalls ==
    ASSUME TypeOK, SafeInv, NEW k \in Calls,
           \/ Carry(k)
           \/ \E t \in Threads, s \in Signals : Deliver(k, t, s)
           \/ \E t \in Threads, a \in Apps : CallStop(k, t, a)
    PROVE  SafeInv'
<1> USE HoldersDiffer DEF TypeOK, SafeInv, LockInv, TargetInv, TableInv,
        ServeInv, HandlerTouchesLiveApps, Holding, tables, locks, barriers,
        mains, others
<1>1. CASE WrapperLocksHandlers(k)
  BY <1>1 DEF WrapperLocksHandlers, InsideH
<1>2. CASE WrapperLocksGlobal(k)
  BY <1>2 DEF WrapperLocksGlobal
<1>3. CASE CheckRunning(k)
  <2>1. PICK b \in todo[k] :
          /\ todo' = [todo EXCEPT ![k] = todo[k] \ {b}]
          /\ \/ /\ http[b]
                /\ at' = [at EXCEPT ![k] = "enter"]
                /\ cur' = [cur EXCEPT ![k] = b]
             \/ UNCHANGED <<at, cur>>
    BY <1>3 DEF CheckRunning
  <2>2. /\ at[k] = "each"
        /\ UNCHANGED <<others, locks, stack, on, sig>>
    BY <1>3 DEF CheckRunning
  <2>3. LockInv' /\ TargetInv' /\ TableInv' /\ ServeInv'
    BY <2>1, <2>2
  <2>4. HandlerTouchesLiveApps'
    BY <2>1, <2>2
  <2> QED
    BY <2>3, <2>4
<1>4. CASE Return(k)
  BY <1>4 DEF Return
<1>5. CASE \E t \in Threads, s \in Signals : Deliver(k, t, s)
  BY <1>5 DEF Deliver, Begins
<1>6. CASE \E t \in Threads, a \in Apps : CallStop(k, t, a)
  BY <1>6, LifecycleAssumption DEF CallStop, Begins
<1> QED
  BY <1>1, <1>2, <1>3, <1>4, <1>5, <1>6 DEF Carry

\* In the barrier a call moves between steps at which it holds the mutex.
LEMMA SafeBarrier ==
    ASSUME TypeOK, SafeInv, NEW a \in Apps, NEW c \in Callers,
           Pass(a, c) \/ BarrierSpurious(a, c)
    PROVE  SafeInv'
<1>1. /\ UNCHANGED <<tables, locks, http, alive, mains, sig, todo>>
      /\ \/ UNCHANGED <<at, cur>>
         \/ /\ c \in Calls /\ at[c] \in {"enter", "waiting"}
            /\ \E p \in {"each", "waiting"} : at' = [at EXCEPT ![c] = p]
            /\ cur' = cur \/ cur' = [cur EXCEPT ![c] = None]
  <2> USE LifecycleAssumption DEF Moves, Callers, Entering, Sleeping, calls
  <2>1. CASE BarrierArrive(a, c)
    <3>1. PICK p \in {"each", "waiting"} : Moves(a, c, p)
      BY <2>1 DEF BarrierArrive, Decremented
    <3>2. c = Thr \/ (c \in Calls /\ at[c] = "enter")
      BY <2>1 DEF BarrierArrive, Decremented
    <3>3. \/ UNCHANGED <<at, cur>>
          \/ /\ c \in Calls /\ at[c] \in {"enter", "waiting"}
             /\ \E q \in {"each", "waiting"} : at' = [at EXCEPT ![c] = q]
             /\ cur' = cur \/ cur' = [cur EXCEPT ![c] = None]
      <4>1. CASE p = "each"
        BY <3>1, <3>2, <4>1
      <4>2. CASE p = "waiting"
        <5>1. cur \in [Calls -> Apps \cup {None}]
          BY DEF TypeOK
        <5>2. c # Thr => cur' = cur
          BY <3>1, <4>2, <5>1
        <5> QED
          BY <3>1, <3>2, <4>2, <5>2
      <4> QED
        BY <4>1, <4>2
    <3> QED
      BY <2>1, <3>3 DEF BarrierArrive, Decremented
  <2>2. CASE BarrierFallThrough(a, c)
    BY <2>2 DEF BarrierFallThrough
  <2>3. CASE BarrierRecheck(a, c)
    BY <2>3 DEF BarrierRecheck
  <2>4. CASE BarrierSpurious(a, c)
    BY <2>4 DEF BarrierSpurious
  <2> QED
    BY <2>1, <2>2, <2>3, <2>4 DEF Pass
<1> USE <1>1, HoldersDiffer
    DEF TypeOK, SafeInv, Holding, tables, locks, mains
<1>2. LockInv' /\ TargetInv'
  BY DEF LockInv, TargetInv
<1>3. TableInv' /\ ServeInv'
  BY DEF TableInv, ServeInv
<1>4. HandlerTouchesLiveApps'
  BY DEF HandlerTouchesLiveApps
<1> QED
  BY <1>2, <1>3, <1>4

LEMMA SafeNext == TypeOK /\ SafeInv /\ [Next]_vars => SafeInv'
<1> SUFFICES ASSUME TypeOK, SafeInv, [Next]_vars PROVE SafeInv'
  OBVIOUS
<1>1. CASE \E a \in Apps : Proceed(a) \/ Start(a) \/ Destroy(a)
  BY <1>1, SafeStart, SafeServe DEF Proceed
<1>2. CASE \E k \in Calls :
            \/ Carry(k)
            \/ \E t \in Threads, s \in Signals : Deliver(k, t, s)
            \/ \E t \in Threads, a \in Apps : CallStop(k, t, a)
  BY <1>2, SafeCalls
<1>3. CASE \E a \in Apps, c \in Callers : Pass(a, c) \/ BarrierSpurious(a, c)
  BY <1>3, SafeBarrier
<1>4. CASE UNCHANGED vars
  BY <1>4 DEF vars, tables, locks, barriers, mains, calls, SafeInv, LockInv,
     TargetInv, TableInv, ServeInv, HandlerTouchesLiveApps
<1> QED
  BY <1>1, <1>2, <1>3, <1>4 DEF Next

LEMMA Inductive == Spec => [](TypeOK /\ SafeInv)
<1>1. Init => TypeOK /\ SafeInv
  BY TypeInit, SafeInit
<1>2. (TypeOK /\ SafeInv) /\ [Next]_vars => (TypeOK /\ SafeInv)'
  BY TypeNext, SafeNext
<1> QED
  BY <1>1, <1>2, PTL DEF Spec

-----------------------------------------------------------------------------

\* A signal handler never holds an App that has been destroyed, nor one
\* without its HttpImplement (app.cc:112-124, 157-164).
THEOREM HandlersAreSafe == Spec => []HandlerTouchesLiveApps
<1>1. SafeInv => HandlerTouchesLiveApps
  BY DEF SafeInv
<1> QED
  BY <1>1, Inductive, PTL

\* The HttpImplement that a daemon calls back into is there as long as the
\* daemon is (http.cc:479-494, 516-522).
THEOREM DaemonsAreServed == Spec => []DaemonsHaveHttp
<1>1. TypeOK /\ SafeInv => DaemonsHaveHttp
  BY LifecycleAssumption DEF TypeOK, SafeInv, ServeInv, DaemonsHaveHttp
<1> QED
  BY <1>1, Inductive, PTL

\* The assertion of the signal handler (app.cc:119) holds.
THEOREM AssertionHolds == Spec => []HandlerFound
<1>1. TypeOK /\ SafeInv => HandlerFound
  <2> SUFFICES ASSUME TypeOK, SafeInv,
                      NEW k \in SignalCalls, at[k] = "each"
               PROVE  handlers[sig[k]] # "none"
    BY DEF HandlerFound
  <2>1. sig[k] \in installed
    BY DEF SafeInv, TableInv
  <2>2. hOwner = k
    BY DEF SafeInv, LockInv, Holding
  <2>3. \A a \in Apps : pc[a] # "emplacing"
    BY <2>2, HoldersDiffer DEF SafeInv, LockInv, InsideH
  <2> QED
    BY <2>1, <2>3 DEF SafeInv, TableInv
<1> QED
  BY <1>1, Inductive, PTL

-----------------------------------------------------------------------------
(***************************************************************************)
(* Signals: who keeps the handlers, and which thread may take a signal.    *)
(***************************************************************************)

Defaulting == {"ask", "asking", "install", "installing", "emplacing"}
Masked == {"publish", "callback", "join", "clear"}

\* When start() makes its list of signals, both have a handler.
ListedInv ==
    /\ \A a \in Apps : pc[a] \in Defaulting /\ asked[a] = "SIGPIPE" =>
          handlers["SIGINT"] # "none"
    /\ \A a \in Apps : pc[a] \in {"list", "listing"} =>
          \A s \in Signals : handlers[s] # "none"
    /\ \A a \in Apps : pc[a] \in {"launch", "launching", "mask"} =>
          sigs[a] = Signals

\* While an App runs its thread blocks both, and handles none.
MaskInv ==
    /\ \A a \in Apps : pc[a] \in Masked => mask[a] = Signals
    /\ \A a \in Apps : running[a] => pc[a] \in Masked
    /\ \A a \in Apps : pc[a] \in Masked =>
          \A i \in 1..Len(stack[a]) : stack[a][i] \notin SignalCalls

\* Nobody installs the default for SIGINT where the program has its own.
KeptInv ==
    \A a \in Apps :
        pc[a] \in {"install", "installing", "emplacing"} /\ asked[a] = "SIGINT"
            => handlers["SIGINT"] # "ignore"

TakenInv == ListedInv /\ MaskInv /\ KeptInv

LEMMA TakenInit == Init => TakenInv
BY LifecycleAssumption
DEF Init, TakenInv, ListedInv, MaskInv, KeptInv, Defaulting, Masked, Signals,
    Threads

\* The steps of an App's thread up to the daemons.
LEMMA TakenStart ==
    ASSUME TypeOK, TakenInv, NEW a \in Apps,
           \/ LockHandlers(a) \/ LockGlobal(a) \/ Register(a) \/ Start(a)
           \/ Have(a) \/ RegisterSignal(a) \/ EmplaceHandler(a)
           \/ ListSignals(a)
    PROVE  TakenInv'
<1> USE DEF TypeOK, TakenInv, ListedInv, MaskInv, KeptInv, Defaulting, Masked,
        Goes, NextDefault, Signals, tables, locks, barriers, mains, calls
<1>1. CASE LockHandlers(a)
  BY <1>1 DEF LockHandlers, WantsH
<1>2. CASE LockGlobal(a)
  BY <1>2 DEF LockGlobal, WantsG
<1>3. CASE Register(a)
  BY <1>3 DEF Register
<1>4. CASE Start(a)
  <2>1. PICK p \in {"ask", "returned"} : pc' = [pc EXCEPT ![a] = p]
    BY <1>4 DEF Start
  <2>2. /\ pc[a] = "idle" /\ asked' = [asked EXCEPT ![a] = "SIGINT"]
        /\ UNCHANGED <<handlers, running, sigs, mask, stack>>
    BY <1>4 DEF Start
  <2> QED
    BY <2>1, <2>2
<1>5. CASE Have(a)
  <2>1. pc[a] = "asking" /\ UNCHANGED <<handlers, running, sigs, mask, stack>>
    BY <1>5 DEF Have
  <2>2. CASE handlers[asked[a]] = "none" /\ Goes(a, "asking", "install")
             /\ UNCHANGED asked
    BY <2>1, <2>2
  <2>3. CASE handlers[asked[a]] # "none" /\ NextDefault(a, "asking")
    <3>1. CASE asked[a] = "SIGINT"
      <4>1. /\ asked'[a] = "SIGPIPE" /\ pc'[a] = "ask"
            /\ \A b \in Apps : b # a => pc'[b] = pc[b] /\ asked'[b] = asked[b]
        BY <2>3, <3>1
      <4>2. \A b \in Apps : b # a =>
              /\ pc'[b] = pc[b] /\ asked'[b] = asked[b] /\ sigs'[b] = sigs[b]
              /\ mask'[b] = mask[b] /\ stack'[b] = stack[b]
              /\ running'[b] = running[b]
        BY <2>1, <4>1
      <4>3. handlers' = handlers /\ handlers["SIGINT"] # "none" /\ ~running'[a]
        BY <2>1, <2>3, <3>1
      <4>4. ListedInv'
        BY <4>1, <4>2, <4>3
      <4>5. MaskInv'
        BY <4>1, <4>2, <4>3
      <4>6. KeptInv'
        BY <4>1, <4>2, <4>3
      <4> QED
        BY <4>4, <4>5, <4>6
    <3>2. CASE asked[a] = "SIGPIPE"
      <4>1. /\ asked' = asked /\ pc'[a] = "list"
            /\ \A b \in Apps : b # a => pc'[b] = pc[b]
        BY <2>3, <3>2
      <4> QED
        BY <2>1, <2>3, <3>2, <4>1
    <3> QED
      BY <3>1, <3>2
  <2> QED
    BY <1>5, <2>2, <2>3 DEF Have
<1>6. CASE RegisterSignal(a)
  BY <1>6 DEF RegisterSignal
<1>7. CASE EmplaceHandler(a)
  <2>1. /\ pc[a] = "emplacing" /\ UNCHANGED <<running, sigs, mask, stack>>
        /\ handlers' = [handlers EXCEPT ![asked[a]] = Default[asked[a]]]
    BY <1>7 DEF EmplaceHandler
  <2>2. \A s \in Signals : handlers[s] # "none" => handlers'[s] # "none"
    BY <2>1 DEF Default
  <2>3. CASE asked[a] = "SIGINT"
    <3>1. handlers'["SIGINT"] = "stop" /\ asked'[a] = "SIGPIPE" /\ pc'[a] = "ask"
      BY <1>7, <2>1, <2>3 DEF EmplaceHandler, Default
    <3>2. \A b \in Apps : b # a => pc'[b] = pc[b] /\ asked'[b] = asked[b]
      BY <1>7, <2>3 DEF EmplaceHandler
    <3> QED
      BY <2>1, <2>2, <3>1, <3>2
  <2>4. CASE asked[a] = "SIGPIPE"
    <3>1. /\ handlers'["SIGPIPE"] = "ignore" /\ pc'[a] = "list"
          /\ handlers'["SIGINT"] = handlers["SIGINT"]
      BY <1>7, <2>1, <2>4 DEF EmplaceHandler, Default
    <3>2. asked' = asked /\ \A b \in Apps : b # a => pc'[b] = pc[b]
      BY <1>7, <2>4 DEF EmplaceHandler
    <3> QED
      BY <2>1, <2>2, <2>4, <3>1, <3>2
  <2> QED
    BY <2>3, <2>4
<1>8. CASE ListSignals(a)
  BY <1>8 DEF ListSignals
<1> QED
  BY <1>1, <1>2, <1>3, <1>4, <1>5, <1>6, <1>7, <1>8

\* Its steps from the first daemon on.
LEMMA TakenServe ==
    ASSUME TypeOK, TakenInv, NEW a \in Apps,
           \/ StartDaemon(a) \/ Launched(a) \/ MaskSignals(a) \/ Publish(a)
           \/ CallbackReturns(a) \/ JoinThr(a)
           \/ ClearRunning(a) \/ StopDaemon(a) \/ Halted(a) \/ Destroy(a)
           \/ Erase(a)
    PROVE  TakenInv'
<1> USE DEF TypeOK, TakenInv, ListedInv, MaskInv, KeptInv, Defaulting, Masked,
        Goes, Signals, tables, locks, barriers, mains, calls
<1>1. CASE StartDaemon(a)
  <2>1. PICK p \in {"launching", "failing"} : pc' = [pc EXCEPT ![a] = p]
    BY <1>1 DEF StartDaemon
  <2>2. pc[a] = "launching"
        /\ UNCHANGED <<handlers, running, asked, sigs, mask, stack>>
    BY <1>1 DEF StartDaemon
  <2> QED
    BY <2>1, <2>2
<1>2. CASE Launched(a)
  BY <1>2 DEF Launched
<1>3. CASE MaskSignals(a)
  BY <1>3 DEF MaskSignals, Free, Threads
<1>4. CASE Publish(a)
  BY <1>4 DEF Publish
<1>5. CASE CallbackReturns(a)
  BY <1>5 DEF CallbackReturns
<1>6. CASE JoinThr(a)
  BY <1>6 DEF JoinThr
<1>7. CASE ClearRunning(a)
  BY <1>7 DEF ClearRunning
<1>8. CASE StopDaemon(a)
  BY <1>8 DEF StopDaemon
<1>9. CASE Halted(a)
  BY <1>9 DEF Halted
<1>10. CASE Destroy(a)
  BY <1>10 DEF Destroy
<1>11. CASE Erase(a)
  BY <1>11 DEF Erase
<1> QED
  BY <1>1, <1>2, <1>3, <1>4, <1>5, <1>6, <1>7, <1>8, <1>9, <1>10, <1>11

\* A call changes the stacks only, and no signal comes to a masked thread.
LEMMA TakenCalls ==
    ASSUME TypeOK, TakenInv, NEW k \in Calls,
           \/ Carry(k)
           \/ \E t \in Threads, s \in Signals : Deliver(k, t, s)
           \/ \E t \in Threads, a \in Apps : CallStop(k, t, a)
    PROVE  TakenInv'
<1>1. UNCHANGED <<others>>
  BY DEF Carry, WrapperLocksHandlers, WrapperLocksGlobal, CheckRunning, Return,
     Deliver, CallStop, Begins
<1>2. ListedInv' /\ KeptInv'
  BY <1>1 DEF others, tables, mains, TakenInv, ListedInv, KeptInv
<1>3. \A a \in Apps : pc[a] \in Masked =>
        \A i \in 1..Len(stack'[a]) : stack'[a][i] \notin SignalCalls
  <2> SUFFICES ASSUME NEW a \in Apps, pc[a] \in Masked
               PROVE  \A i \in 1..Len(stack'[a]) : stack'[a][i] \notin SignalCalls
    OBVIOUS
  <2>1. /\ stack[a] \in Seq(Calls) /\ a \in Threads
        /\ \A i \in 1..Len(stack[a]) : stack[a][i] \notin SignalCalls
        /\ mask[a] = Signals
    BY DEF TypeOK, TakenInv, MaskInv, Threads
  <2>2. CASE stack' = stack
    BY <2>1, <2>2
  <2>3. CASE Return(k)
    <3>1. stack'[a] = stack[a] \/ (stack[a] # <<>> /\ stack'[a] = Front(stack[a]))
      BY <2>1, <2>3 DEF Return, TypeOK, Topmost
    <3>2. stack[a] # <<>> =>
            /\ Front(stack[a]) \in Seq(Calls)
            /\ Len(Front(stack[a])) = Len(stack[a]) - 1
            /\ \A i \in 1..(Len(stack[a]) - 1) : Front(stack[a])[i] = stack[a][i]
      BY <2>1 DEF Front
    <3> QED
      BY <2>1, <3>1, <3>2
  <2>4. CASE \E t \in Threads, s \in Signals : Deliver(k, t, s)
    <3> PICK t \in Threads, s \in Signals : Deliver(k, t, s)
      BY <2>4
    <3>1. t # a
      BY <2>1 DEF Deliver, Takes
    <3> QED
      BY <2>1, <3>1 DEF Deliver, Begins, TypeOK
  <2>5. CASE \E t \in Threads, b \in Apps : CallStop(k, t, b)
    <3> PICK t \in Threads, b \in Apps : CallStop(k, t, b)
      BY <2>5
    <3>1. k \notin SignalCalls
      BY LifecycleAssumption DEF CallStop
    <3>2. stack'[a] = stack[a] \/ stack'[a] = Append(stack[a], k)
      BY <2>1 DEF CallStop, Begins, TypeOK
    <3> QED
      BY <2>1, <3>1, <3>2
  <2> QED
    BY <2>2, <2>3, <2>4, <2>5
    DEF Carry, WrapperLocksHandlers, WrapperLocksGlobal, CheckRunning
<1>4. MaskInv'
  BY <1>1, <1>3 DEF others, mains, TakenInv, MaskInv
<1> QED
  BY <1>2, <1>4 DEF TakenInv

LEMMA TakenNext == TypeOK /\ TakenInv /\ [Next]_vars => TakenInv'
<1> SUFFICES ASSUME TypeOK, TakenInv, [Next]_vars PROVE TakenInv'
  OBVIOUS
<1>1. CASE \E a \in Apps : Proceed(a) \/ Start(a) \/ Destroy(a)
  BY <1>1, TakenStart, TakenServe DEF Proceed
<1>2. CASE \E k \in Calls :
            \/ Carry(k)
            \/ \E t \in Threads, s \in Signals : Deliver(k, t, s)
            \/ \E t \in Threads, a \in Apps : CallStop(k, t, a)
  BY <1>2, TakenCalls
<1>3. CASE \E a \in Apps, c \in Callers : Pass(a, c) \/ BarrierSpurious(a, c)
  <2>1. UNCHANGED <<tables, running, mains, stack>>
    BY <1>3 DEF Pass, BarrierArrive, BarrierFallThrough, BarrierRecheck,
       BarrierSpurious, calls
  <2> QED
    BY <2>1 DEF tables, mains, TakenInv, ListedInv, MaskInv, KeptInv
<1>4. CASE UNCHANGED vars
  BY <1>4 DEF vars, tables, mains, calls, TakenInv, ListedInv, MaskInv, KeptInv
<1> QED
  BY <1>1, <1>2, <1>3, <1>4 DEF Next

\* While an App runs, the thread in its start() is on no signal handler
\* (http.cc:496-508).
THEOREM RunningThreadIsLeftAlone == Spec => []RunningThreadUninterrupted
<1>1. Init => TypeOK /\ TakenInv
  BY TypeInit, TakenInit
<1>2. (TypeOK /\ TakenInv) /\ [Next]_vars => (TypeOK /\ TakenInv)'
  BY TypeNext, TakenNext
<1>3. TakenInv => RunningThreadUninterrupted
  BY DEF TakenInv, MaskInv, RunningThreadUninterrupted
<1> QED
  BY <1>1, <1>2, <1>3, PTL DEF Spec

\* A handler that the program installed stays, whichever Apps start at the
\* same time (app.cc:188-197).
THEOREM UserHandlersStay == Spec => UserHandlerKept
<1>1. Init => TypeOK /\ TakenInv
  BY TypeInit, TakenInit
<1>2. (TypeOK /\ TakenInv) /\ [Next]_vars => (TypeOK /\ TakenInv)'
  BY TypeNext, TakenNext
<1>3. TypeOK /\ TakenInv /\ [Next]_vars =>
        [\A s \in Signals : handlers[s] = "ignore" => handlers'[s] = "ignore"]_vars
  <2> SUFFICES ASSUME TypeOK, TakenInv, [Next]_vars, NEW s \in Signals,
                      handlers[s] = "ignore"
               PROVE  handlers'[s] = "ignore"
    OBVIOUS
  <2>1. CASE \E a \in Apps : EmplaceHandler(a)
    <3> PICK a \in Apps : EmplaceHandler(a)
      BY <2>1
    <3>1. pc[a] = "emplacing"
      BY DEF EmplaceHandler, NextDefault, Goes
    <3> QED
      BY <3>1 DEF EmplaceHandler, TypeOK, TakenInv, KeptInv, Default, Signals
  <2>2. CASE ~ \E a \in Apps : EmplaceHandler(a)
    <3>1. handlers' = handlers
      BY <2>2 DEF Next, vars, tables, others, Proceed, Start, Destroy,
         LockHandlers, LockGlobal, Register, Have, RegisterSignal, ListSignals,
         StartDaemon, Launched, MaskSignals, Publish, CallbackReturns, JoinThr,
         ClearRunning, StopDaemon, Halted, Erase, Carry, WrapperLocksHandlers,
         WrapperLocksGlobal, CheckRunning, Return, Deliver, CallStop, Begins,
         Pass, BarrierArrive, BarrierFallThrough, BarrierRecheck,
         BarrierSpurious
    <3> QED
      BY <3>1
  <2> QED
    BY <2>1, <2>2
<1> QED
  BY <1>1, <1>2, <1>3, PTL DEF Spec, UserHandlerKept

-----------------------------------------------------------------------------
(***************************************************************************)
(* The barrier of an App.                                                  *)
(***************************************************************************)

\* Before anybody calls stop(), thr_ alone has counted down, and sleeps.
QuietInv ==
    \A a \in Apps : (\A k \in Calls : place[a][k] = "outside") =>
        \/ place[a][Thr] = "outside" /\ number[a] = 2
        \/ place[a][Thr] \in {"blocked", "notified"} /\ number[a] = 1

\* A call enters the barrier of an App once.
EntryInv ==
    \A k \in Calls, a \in Apps :
        /\ at[k] \in {"unused", "wantH", "wantG"} => place[a][k] = "outside"
        /\ at[k] \notin {"unused", "wantH", "wantG"} /\ a \in todo[k] =>
              place[a][k] = "outside"
        /\ at[k] = "enter" /\ cur[k] = a =>
              place[a][k] = "outside" /\ a \notin todo[k]

LEMMA BarrierInit == Init => QuietInv /\ EntryInv
BY LifecycleAssumption
DEF Init, QuietInv, EntryInv, Total, Callers

\* Nothing else touches the barriers.
LEMMA OthersKeepBarriers ==
    [Next]_vars =>
        \/ \E a \in Apps, c \in Callers : Pass(a, c) \/ BarrierSpurious(a, c)
        \/ UNCHANGED barriers
BY DEF Next, vars, others, Proceed, Start, Destroy,
     LockHandlers, LockGlobal, Register, Have, NextDefault, RegisterSignal,
     EmplaceHandler, ListSignals, StartDaemon, Launched, MaskSignals, Publish,
     CallbackReturns, JoinThr, ClearRunning, StopDaemon, Halted, Erase, Goes,
     Carry, WrapperLocksHandlers, WrapperLocksGlobal, CheckRunning, Return,
     Deliver, CallStop, Begins

\* What a step in the barrier of a does to the places there.
LEMMA PassEffect ==
    ASSUME TypeOK, EntryInv, NEW a \in Apps, NEW c \in Callers,
           Pass(a, c) \/ BarrierSpurious(a, c)
    PROVE  /\ B(a)!Next
           /\ \A b \in Apps : b # a => UNCHANGED <<number[b], place[b]>>
<1>1. \A b \in Apps : b # a => number'[b] = number[b] /\ place'[b] = place[b]
  BY DEF Pass, BarrierArrive, BarrierFallThrough, BarrierRecheck,
     BarrierSpurious, WakeAll, TypeOK
<1>2. WakeAll(a, c) => B(a)!LeaveAndNotify(c)
  BY DEF WakeAll, B!LeaveAndNotify, TypeOK
<1>3. \A p \in {"blocked", "notified", "passed"} :
        place' = [place EXCEPT ![a][c] = p] =>
            place'[a] = [place[a] EXCEPT ![c] = p]
  BY DEF TypeOK
<1>4. c \in Entering(a) => place[a][c] = "outside"
  BY DEF Entering, EntryInv
<1>5. CASE BarrierArrive(a, c)
  <2>1. number[a] <= Total /\ number'[a] = Decremented(number[a])
    BY <1>5 DEF BarrierArrive, TypeOK
  <2>2. B(a)!Arrive(c)
    BY <1>2, <1>3, <1>4, <1>5, <2>1
    DEF BarrierArrive, B!Arrive, Decremented, B!Decremented
  <2> QED
    BY <1>1, <2>2 DEF B!Next
<1>6. CASE BarrierFallThrough(a, c)
  <2>1. B(a)!FallThrough(c)
    BY <1>3, <1>4, <1>6 DEF BarrierFallThrough, B!FallThrough
  <2> QED
    BY <1>1, <2>1 DEF B!Next
<1>7. CASE BarrierRecheck(a, c)
  <2>1. B(a)!Recheck(c)
    BY <1>2, <1>3, <1>7 DEF BarrierRecheck, B!Recheck
  <2> QED
    BY <1>1, <2>1 DEF B!Next
<1>8. CASE BarrierSpurious(a, c)
  <2>1. B(a)!SpuriousWakeup(c)
    BY <1>3, <1>8 DEF BarrierSpurious, B!SpuriousWakeup
  <2> QED
    BY <1>1, <2>1 DEF B!Next
<1> QED
  BY <1>5, <1>6, <1>7, <1>8 DEF Pass

LEMMA QuietNext == TypeOK /\ QuietInv /\ [Next]_vars => QuietInv'
<1> SUFFICES ASSUME TypeOK, QuietInv, [Next]_vars PROVE QuietInv'
  OBVIOUS
<1>1. CASE \E a \in Apps, c \in Callers : Pass(a, c) \/ BarrierSpurious(a, c)
  <2> PICK a \in Apps, c \in Callers : Pass(a, c) \/ BarrierSpurious(a, c)
    BY <1>1
  <2>1. \A b \in Apps : b # a => number'[b] = number[b] /\ place'[b] = place[b]
    BY DEF Pass, BarrierArrive, BarrierFallThrough, BarrierRecheck,
       BarrierSpurious, WakeAll, TypeOK
  <2>2. ASSUME \A k \in Calls : place'[a][k] = "outside"
        PROVE  /\ \A k \in Calls : place[a][k] = "outside"
               /\ c = Thr
    BY <2>2, LifecycleAssumption DEF Pass, BarrierArrive, BarrierFallThrough,
       BarrierRecheck, BarrierSpurious, WakeAll, TypeOK, Callers
  <2>3. ASSUME \A k \in Calls : place'[a][k] = "outside"
        PROVE  \/ place'[a][Thr] = "outside" /\ number'[a] = 2
               \/ place'[a][Thr] \in {"blocked", "notified"} /\ number'[a] = 1
    <3>1. \/ place[a][Thr] = "outside" /\ number[a] = 2
          \/ place[a][Thr] \in {"blocked", "notified"} /\ number[a] = 1
      BY <2>2, <2>3 DEF QuietInv
    <3>2. c = Thr
      BY <2>2, <2>3
    <3>3. CASE BarrierArrive(a, c)
      BY <3>1, <3>2, <3>3, LifecycleAssumption
      DEF BarrierArrive, Entering, Decremented, Total, TypeOK, Callers
    <3>4. CASE BarrierFallThrough(a, c)
      BY <3>1, <3>4 DEF BarrierFallThrough, Total
    <3>5. CASE BarrierRecheck(a, c)
      BY <3>1, <3>2, <3>5 DEF BarrierRecheck, TypeOK, Callers
    <3>6. CASE BarrierSpurious(a, c)
      BY <3>1, <3>2, <3>6 DEF BarrierSpurious, TypeOK, Callers
    <3> QED
      BY <3>3, <3>4, <3>5, <3>6 DEF Pass
  <2> QED
    BY <2>1, <2>3 DEF QuietInv
<1>2. CASE UNCHANGED barriers
  BY <1>2 DEF barriers, QuietInv
<1> QED
  BY <1>1, <1>2, OthersKeepBarriers

\* An App leaves join() only when it was asked to stop (http.cc:509-513).
THEOREM NobodyStopsUnasked == Spec => []StoppedOnlyOnRequest
<1>1. Init => TypeOK /\ QuietInv
  BY TypeInit, BarrierInit
<1>2. (TypeOK /\ QuietInv) /\ [Next]_vars => (TypeOK /\ QuietInv)'
  BY TypeNext, QuietNext
<1>3. QuietInv => StoppedOnlyOnRequest
  BY DEF QuietInv, StoppedOnlyOnRequest
<1> QED
  BY <1>1, <1>2, <1>3, PTL DEF Spec

LEMMA EntryNext == TypeOK /\ EntryInv /\ [Next]_vars => EntryInv'
<1> SUFFICES ASSUME TypeOK, EntryInv, [Next]_vars PROVE EntryInv'
  OBVIOUS
<1> USE DEF EntryInv
<1>1. CASE \E a \in Apps, c \in Callers : Pass(a, c) \/ BarrierSpurious(a, c)
  <2> PICK a \in Apps, c \in Callers : Pass(a, c) \/ BarrierSpurious(a, c)
    BY <1>1
  <2>1. todo' = todo
    BY DEF Pass, BarrierArrive, BarrierFallThrough, BarrierRecheck,
       BarrierSpurious, calls
  <2>2. \A b \in Apps, k \in Calls :
          (b # a \/ k # c) /\ place[b][k] = "outside"
              => place'[b][k] = "outside"
    BY DEF Pass, BarrierArrive, BarrierFallThrough, BarrierRecheck,
       BarrierSpurious, WakeAll, TypeOK, Callers
  <2>3. \A k \in Calls : k # c => at'[k] = at[k] /\ cur'[k] = cur[k]
    BY DEF Pass, BarrierArrive, BarrierFallThrough, BarrierRecheck,
       BarrierSpurious, Moves, TypeOK, Callers, calls
  <2>4. c \in Calls =>
          \/ /\ at[c] = "enter" /\ cur[c] = a
             /\ at'[c] \in {"each", "waiting"}
          \/ /\ place[a][c] # "outside" /\ at'[c] # "enter"
             /\ at[c] = "waiting" /\ at'[c] \in {"each", "waiting"}
          \/ place[a][c] # "outside" /\ at'[c] = at[c] /\ cur'[c] = cur[c]
    <3> SUFFICES ASSUME c \in Calls, c # Thr
                 PROVE  \/ /\ at[c] = "enter" /\ cur[c] = a
                           /\ at'[c] \in {"each", "waiting"}
                        \/ /\ place[a][c] # "outside" /\ at'[c] # "enter"
                           /\ at[c] = "waiting" /\ at'[c] \in {"each", "waiting"}
                        \/ place[a][c] # "outside" /\ at'[c] = at[c]
                           /\ cur'[c] = cur[c]
      BY LifecycleAssumption
    <3>1. CASE BarrierArrive(a, c)
      BY <3>1 DEF BarrierArrive, Entering, Moves, TypeOK
    <3>2. CASE BarrierFallThrough(a, c)
      BY <3>2 DEF BarrierFallThrough, Entering, Moves, TypeOK
    <3>3. CASE BarrierRecheck(a, c)
      BY <3>3 DEF BarrierRecheck, Sleeping, Moves, TypeOK
    <3>4. CASE BarrierSpurious(a, c)
      BY <3>4 DEF BarrierSpurious, calls
    <3> QED
      BY <3>1, <3>2, <3>3, <3>4 DEF Pass
  <2> QED
    BY <2>1, <2>2, <2>3, <2>4
<1>2. ASSUME NEW k \in Calls, Carry(k) PROVE EntryInv'
  <2>1. CASE WrapperLocksHandlers(k)
    BY <2>1 DEF WrapperLocksHandlers, others, barriers, TypeOK
  <2>2. CASE WrapperLocksGlobal(k)
    BY <2>2 DEF WrapperLocksGlobal, others, barriers, TypeOK
  <2>3. CASE CheckRunning(k)
    BY <2>3 DEF CheckRunning, others, barriers, TypeOK
  <2>4. CASE Return(k)
    BY <2>4 DEF Return, others, barriers, TypeOK
  <2> QED
    BY <1>2, <2>1, <2>2, <2>3, <2>4 DEF Carry
<1>3. ASSUME NEW k \in Calls, NEW t \in Threads, NEW s \in Signals,
             Deliver(k, t, s)
      PROVE  EntryInv'
  BY <1>3 DEF Deliver, Begins, others, barriers, TypeOK
<1>4. ASSUME NEW k \in Calls, NEW t \in Threads, NEW a \in Apps,
             CallStop(k, t, a)
      PROVE  EntryInv'
  BY <1>4 DEF CallStop, Begins, others, barriers, TypeOK
<1>5. CASE UNCHANGED <<barriers, calls>>
  BY <1>5 DEF barriers, calls
<1> QED
  BY <1>1, <1>2, <1>3, <1>4, <1>5 DEF Next, vars, Proceed, Start, Destroy,
     LockHandlers, LockGlobal, Register, Have, NextDefault, RegisterSignal,
     EmplaceHandler, ListSignals, StartDaemon, Launched, MaskSignals, Publish,
     CallbackReturns, JoinThr, ClearRunning, StopDaemon, Halted, Erase, Goes

\* The barrier inside every App is the Barrier of Barrier.tla (utils.h:136-171,
\* http.cc:511-540).
THEOREM AppsUseBarriers == Spec => BarrierRefined
<1>1. Init => TypeOK /\ EntryInv
  BY TypeInit, BarrierInit
<1>2. (TypeOK /\ EntryInv) /\ [Next]_vars => (TypeOK /\ EntryInv)'
  BY TypeNext, EntryNext
<1>3. Init => \A a \in Apps : B(a)!Init
  BY DEF Init, B!Init, Total
<1>4. TypeOK /\ EntryInv /\ [Next]_vars =>
        [\A a \in Apps : [B(a)!Next]_<<number[a], place[a]>>]_vars
  <2> SUFFICES ASSUME TypeOK, EntryInv, [Next]_vars, NEW a \in Apps
               PROVE  [B(a)!Next]_<<number[a], place[a]>>
    OBVIOUS
  <2>1. CASE \E b \in Apps, c \in Callers : Pass(b, c) \/ BarrierSpurious(b, c)
    BY <2>1, PassEffect
  <2>2. CASE UNCHANGED barriers
    BY <2>2 DEF barriers
  <2> QED
    BY <2>1, <2>2, OthersKeepBarriers
<1> QED
  BY <1>1, <1>2, <1>3, <1>4, PTL DEF Spec, BarrierRefined
=============================================================================
