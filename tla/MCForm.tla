------------------------------- MODULE MCForm -------------------------------
(* Small instances of Form: which thread serves which request.             *)
EXTENDS Form, TLC

CONSTANTS r1, r2, t1, t2

Apart == r1 :> t1 @@ r2 :> t2
Together == r1 :> t1 @@ r2 :> t1
=============================================================================
