------------------------------ MODULE Barrier ------------------------------
(***************************************************************************)
(* The one-shot Barrier of lib/src/utils.h: a counter, a mutex and a       *)
(* condition variable.  HttpImplement owns one with total 2 (the thread    *)
(* thr_ and one call of stop() meet at it).                                *)
(*                                                                         *)
(* mutex_ is held from the entry of wait() to its return, except while the *)
(* caller sleeps in cv_.wait, so everything between two releases of the    *)
(* mutex is one action.  An element of Calls is one call of wait().        *)
(***************************************************************************)
EXTENDS Naturals, FiniteSets

CONSTANTS Calls,    \* the calls of wait() made on the object
          Total,    \* total_, the constructor's argument
          WordMax   \* largest value of the unsigned counter number_

ASSUME BarrierAssumption ==
    /\ IsFiniteSet(Calls)
    /\ Total \in Nat \ {0}
    /\ WordMax \in Nat
    /\ Total < WordMax

VARIABLES number,   \* number_
          pc        \* where each call of wait() is

vars == <<number, pc>>

\* "blocked" sleeps in cv_.wait; "notified" has been woken and competes for
\* mutex_ to evaluate the predicate again.
Places == {"outside", "blocked", "notified", "passed"}

TypeOK ==
    /\ number \in 0..WordMax
    /\ pc \in [Calls -> Places]

Arrived == {c \in Calls : pc[c] # "outside"}

Passed == {c \in Calls : pc[c] = "passed"}

\* Mutant: number_ is a signed integer.
DecrementedSigned(n) == n - 1

\* number_-- on an unsigned integer.
Decremented(n) == IF n = 0 THEN WordMax ELSE n - 1

\* Mutant: no notify_all.
LeaveQuietly(c) == pc' = [pc EXCEPT ![c] = "passed"]

\* cv_.notify_all() by a call that leaves.
LeaveAndNotify(c) ==
    pc' = [d \in Calls |-> IF d = c THEN "passed"
                          ELSE IF pc[d] = "blocked" THEN "notified"
                          ELSE pc[d]]

\* wait() when the counter is beyond total_: the call falls through.
FallThrough(c) ==
    /\ pc[c] = "outside"
    /\ number > Total
    /\ pc' = [pc EXCEPT ![c] = "passed"]
    /\ UNCHANGED number

\* wait() when the counter is in range, up to the first evaluation of the
\* predicate: the call that brings it to 0 never sleeps.
Arrive(c) ==
    /\ pc[c] = "outside"
    /\ number <= Total
    /\ number' = Decremented(number)
    /\ \/ number' = 0 /\ LeaveAndNotify(c)
       \/ number' # 0 /\ pc' = [pc EXCEPT ![c] = "blocked"]

\* A condition variable may wake a sleeper without a notification.
SpuriousWakeup(c) ==
    /\ pc[c] = "blocked"
    /\ pc' = [pc EXCEPT ![c] = "notified"]
    /\ UNCHANGED number

\* Mutant: cv_.wait(lock) without a predicate.
RecheckNothing(c) == pc[c] = "notified" /\ LeaveAndNotify(c) /\ UNCHANGED number

\* Mutant: number_-- is repeated with the predicate.
RecheckFromStart(c) ==
    /\ pc[c] = "notified"
    /\ \/ number = 0 /\ LeaveAndNotify(c) /\ UNCHANGED number
       \/ /\ number # 0
          /\ pc' = [pc EXCEPT ![c] = "blocked"]
          /\ number' = Decremented(number)

\* A woken call holds the mutex again and evaluates number_ == 0.
Recheck(c) ==
    /\ pc[c] = "notified"
    /\ \/ number = 0 /\ LeaveAndNotify(c)
       \/ number # 0 /\ pc' = [pc EXCEPT ![c] = "blocked"]
    /\ UNCHANGED number

Init ==
    /\ number = Total
    /\ pc = [c \in Calls |-> "outside"]

Next ==
    \E c \in Calls :
        FallThrough(c) \/ Arrive(c) \/ SpuriousWakeup(c) \/ Recheck(c)

Spec == Init /\ [][Next]_vars

(***************************************************************************)
(* The scheduler runs a thread that can run: a woken call gets the mutex   *)
(* and evaluates its predicate.  Nothing obliges a thread to call wait().  *)
(***************************************************************************)
BarrierFairness == \A c \in Calls : WF_vars(Recheck(c))

(***************************************************************************)
(* Properties                                                              *)
(***************************************************************************)

\* No call of wait() returns before Total calls have been made, however
\* many calls there are and even if one wraps the counter (utils.h:161-170).
NoEarlyExit == Passed # {} => Cardinality(Arrived) >= Total

\* The counter leaves 0..Total only because more than Total calls were made:
\* it is what decides between meeting the others and falling through.
WrapsOnlyWhenOversubscribed ==
    number > Total => Cardinality(Arrived) > Total

\* No wake-up is lost: when the counter has reached 0, and no surplus call
\* comes to change it, every call that was made returns (utils.h:167-168).
AllPass ==
    <>[](number = 0) => <>[](\A c \in Calls : pc[c] \in {"outside", "passed"})
=============================================================================
