---------------------------- MODULE MCLifecycle ----------------------------
(***************************************************************************)
(* Small instances of Lifecycle: which App each daemon belongs to.         *)
(***************************************************************************)
EXTENDS Lifecycle, TLC

CONSTANTS a1, a2, d1, d2

\* Both daemons belong to the one App.
OneOwner == d1 :> a1 @@ d2 :> a1

\* Two Apps, one daemon each.
TwoOwners == d1 :> a1 @@ d2 :> a2

\* One of the calls is made, a signal or a call of stop(), and no other.
OneCall ==
    \A k \in Calls, l \in Calls : at[k] # "unused" /\ at[l] # "unused" => k = l

OneCallSpec == Init /\ [][Next /\ OneCall']_vars /\ Fairness
=============================================================================
