--------------------------- MODULE BarrierProofs ---------------------------
(***************************************************************************)
(* Barrier, for any number of calls and any total: the counter is a        *)
(* function of how many calls have arrived, from which its safety follows. *)
(***************************************************************************)
EXTENDS Barrier, FiniteSetTheorems, TLAPS

\* number_ counts the arrivals down to 0, wraps on the next one and then
\* stays: every later call falls through.
CounterInv ==
    LET n == Cardinality(Arrived) IN
    /\ n <= Total => number = Total - n
    /\ n > Total => number = WordMax

IInv == TypeOK /\ CounterInv /\ NoEarlyExit

-----------------------------------------------------------------------------

LEMMA ArrivedFinite == IsFiniteSet(Arrived) /\ Cardinality(Arrived) \in Nat
<1>1. IsFiniteSet(Arrived)
  BY BarrierAssumption, FS_Subset DEF Arrived
<1> QED
  BY <1>1, FS_CardinalityType

\* A first step of a call adds one arrival.
LEMMA OneMoreArrival ==
    ASSUME NEW c \in Calls, c \notin Arrived, Arrived' = Arrived \cup {c}
    PROVE  Cardinality(Arrived)' = Cardinality(Arrived) + 1
BY ArrivedFinite, FS_AddElement

\* LeaveAndNotify leaves nobody outside who was not, and lets only c pass.
LEMMA LeaveEffect ==
    ASSUME TypeOK, NEW c \in Calls, LeaveAndNotify(c)
    PROVE  /\ pc' \in [Calls -> Places]
           /\ Arrived' = Arrived \cup {c}
           /\ Passed' = Passed \cup {c}
<1>1. \A d \in Calls : pc[d] \in Places
  BY DEF TypeOK
<1>2. \A d \in Calls :
        /\ d = c => pc'[d] = "passed"
        /\ d # c /\ pc[d] = "blocked" => pc'[d] = "notified"
        /\ d # c /\ pc[d] # "blocked" => pc'[d] = pc[d]
  BY DEF LeaveAndNotify
<1>3. \A d \in Calls : pc'[d] \in Places
  BY <1>1, <1>2 DEF Places
<1>4. pc' \in [Calls -> Places]
  BY <1>3 DEF LeaveAndNotify
<1>5. Arrived' = Arrived \cup {c}
  BY <1>2 DEF Arrived
<1>6. Passed' = Passed \cup {c}
  BY <1>2 DEF Passed
<1> QED
  BY <1>4, <1>5, <1>6

-----------------------------------------------------------------------------

LEMMA InitInv == Init => IInv
<1> SUFFICES ASSUME Init PROVE IInv
  OBVIOUS
<1> USE DEF Init
<1>1. TypeOK
  BY BarrierAssumption DEF TypeOK, Places
<1>2. Arrived = {} /\ Passed = {}
  BY DEF Arrived, Passed
<1>3. Cardinality(Arrived) = 0
  BY <1>2, FS_EmptySet
<1>4. CounterInv
  BY <1>3, BarrierAssumption DEF CounterInv
<1>5. NoEarlyExit
  BY <1>2 DEF NoEarlyExit
<1> QED
  BY <1>1, <1>4, <1>5 DEF IInv

\* One more call on a counter that has wrapped.
LEMMA FallThroughStep ==
    ASSUME IInv, NEW c \in Calls, FallThrough(c)
    PROVE  IInv'
<1> USE DEF FallThrough
<1>1. TypeOK'
  BY DEF IInv, TypeOK, Places
<1>2. c \notin Arrived /\ Arrived' = Arrived \cup {c}
  BY DEF IInv, TypeOK, Arrived
<1>3. Cardinality(Arrived)' = Cardinality(Arrived) + 1
  BY <1>2, OneMoreArrival
<1>4. Cardinality(Arrived) > Total /\ number = WordMax
  BY ArrivedFinite, BarrierAssumption DEF IInv, CounterInv, TypeOK
<1>5. CounterInv'
  BY <1>3, <1>4, ArrivedFinite, BarrierAssumption DEF CounterInv
<1>6. NoEarlyExit'
  BY <1>3, <1>4, ArrivedFinite, BarrierAssumption DEF NoEarlyExit
<1> QED
  BY <1>1, <1>5, <1>6 DEF IInv

\* The counter follows the arrival, and is 0 only for the Total-th.
LEMMA ArriveStep ==
    ASSUME IInv, NEW c \in Calls, Arrive(c)
    PROVE  IInv'
<1> USE DEF Arrive, Decremented
<1>1. c \notin Arrived
  BY DEF Arrived
<1>2. number' \in 0..WordMax
  BY BarrierAssumption DEF IInv, TypeOK
<1>3. /\ pc' \in [Calls -> Places]
      /\ Arrived' = Arrived \cup {c}
      /\ Passed' = Passed \/ number' = 0
  <2>1. CASE number' = 0
    BY <2>1, LeaveEffect DEF IInv
  <2>2. CASE number' # 0
    BY <2>2 DEF IInv, TypeOK, Places, Arrived, Passed
  <2> QED
    BY <2>1, <2>2
<1>4. TypeOK'
  BY <1>2, <1>3 DEF TypeOK
<1>5. Cardinality(Arrived)' = Cardinality(Arrived) + 1
  BY <1>1, <1>3, OneMoreArrival
<1>6. /\ Cardinality(Arrived) <= Total
      /\ number = Total - Cardinality(Arrived)
  BY ArrivedFinite, BarrierAssumption DEF IInv, CounterInv
<1>7. CounterInv'
  BY <1>5, <1>6, ArrivedFinite, BarrierAssumption DEF CounterInv
<1>8. NoEarlyExit'
  BY <1>3, <1>5, <1>6, ArrivedFinite, BarrierAssumption
  DEF NoEarlyExit, IInv
<1> QED
  BY <1>4, <1>7, <1>8 DEF IInv

\* Waking up changes neither the counter nor who has arrived.
LEMMA SpuriousWakeupStep ==
    ASSUME IInv, NEW c \in Calls, SpuriousWakeup(c)
    PROVE  IInv'
<1>1. TypeOK' /\ number' = number
  BY DEF IInv, TypeOK, Places, SpuriousWakeup
<1>2. Arrived' = Arrived /\ Passed' = Passed
  BY DEF IInv, TypeOK, SpuriousWakeup, Arrived, Passed
<1> QED
  BY <1>1, <1>2 DEF IInv, CounterInv, NoEarlyExit

\* A woken call passes only when exactly Total calls have arrived.
LEMMA RecheckStep ==
    ASSUME IInv, NEW c \in Calls, Recheck(c)
    PROVE  IInv'
<1> USE DEF Recheck
<1>1. c \in Arrived /\ number' = number
  BY DEF Arrived
<1>2. /\ pc' \in [Calls -> Places]
      /\ Arrived' = Arrived
      /\ Passed' = Passed \/ number = 0
  <2>1. CASE number = 0
    BY <2>1, <1>1, LeaveEffect DEF IInv
  <2>2. CASE number # 0
    BY <2>2 DEF IInv, TypeOK, Places, Arrived, Passed
  <2> QED
    BY <2>1, <2>2
<1>3. TypeOK' /\ CounterInv'
  BY <1>1, <1>2 DEF IInv, TypeOK, CounterInv
<1>4. number = 0 => Cardinality(Arrived) >= Total
  BY ArrivedFinite, BarrierAssumption DEF IInv, CounterInv
<1>5. NoEarlyExit'
  BY <1>2, <1>4 DEF IInv, NoEarlyExit
<1> QED
  BY <1>3, <1>5 DEF IInv

LEMMA NextInv == IInv /\ [Next]_vars => IInv'
<1> SUFFICES ASSUME IInv, [Next]_vars PROVE IInv'
  OBVIOUS
<1>1. CASE Next
  <2> PICK c \in Calls :
        FallThrough(c) \/ Arrive(c) \/ SpuriousWakeup(c) \/ Recheck(c)
    BY <1>1 DEF Next
  <2> QED
    BY FallThroughStep, ArriveStep, SpuriousWakeupStep, RecheckStep
<1>2. CASE UNCHANGED vars
  BY <1>2 DEF vars, IInv, TypeOK, CounterInv, NoEarlyExit, Arrived, Passed
<1> QED
  BY <1>1, <1>2

LEMMA Inductive == Spec => []IInv
BY InitInv, NextInv, PTL DEF Spec

-----------------------------------------------------------------------------

\* The counter and the places of the calls keep their types: the unsigned
\* counter of utils.h:144 never leaves its word.
THEOREM TypeCorrect == Spec => []TypeOK
<1>1. IInv => TypeOK
  BY DEF IInv
<1> QED
  BY <1>1, Inductive, PTL

\* No call of wait() returns before Total calls have been made, whatever
\* their number (utils.h:161-170).
THEOREM NobodyPassesEarly == Spec => []NoEarlyExit
<1>1. IInv => NoEarlyExit
  BY DEF IInv
<1> QED
  BY <1>1, Inductive, PTL

\* The counter leaves 0..Total only by a call beyond the Total-th.
THEOREM OnlyOversubscriptionWraps == Spec => []WrapsOnlyWhenOversubscribed
<1>1. IInv => WrapsOnlyWhenOversubscribed
  BY ArrivedFinite, BarrierAssumption
  DEF IInv, CounterInv, WrapsOnlyWhenOversubscribed
<1> QED
  BY <1>1, Inductive, PTL
=============================================================================
