------------------------------ MODULE MCRouter ------------------------------
(***************************************************************************)
(* Routes and URLs over two letters.                                       *)
(***************************************************************************)
EXTENDS Router

CONSTANT MaxLength   \* longest URL

Route(segments) == [segments |-> segments, slash |-> FALSE]
RouteSlash(segments) == [segments |-> segments, slash |-> TRUE]

a == <<"a">>
b == <<"b">>
ab == <<"a", "b">>

AllRoutes ==
    { RouteSlash(<<>>),
      Route(<<Static(a)>>), RouteSlash(<<Static(a)>>),
      Route(<<Static(ab)>>),
      Route(<<Static(a), Static(b)>>),
      Route(<<Param(<<>>, "any", "x")>>), Route(<<Param(a, "b", "x")>>),
      RouteSlash(<<Param(<<>>, "b", "x")>>),
      Route(<<Static(a), Param(<<>>, "any", "x")>>),
      Route(<<Static(a), Param(<<>>, "b", "x"), Static(a)>>),
      Route(<<Param(a, "any", "x"), Param(b, "b", "y")>>),
      Route(<<CatchAll(b, "x")>>),
      Route(<<Static(a), CatchAll(<<>>, "x")>>),
      RouteSlash(<<Static(a), Static(b)>>),
      RouteSlash(<<Param(<<>>, "any", "x")>>),
      Route(<<Param(<<>>, "any", "x"), Static(a), Param(<<>>, "b", "y")>>),
      Route(<<Param(<<>>, "b", "x"), CatchAll(<<>>, "y")>>),
      Route(<<Static(b), Bad>>) }

Urls == {<<"/">> \o s : s \in BoundedSeq({"/", "a", "b"}, MaxLength - 1)}

ASSUME OrdinaryAssumption == Ordinary
=============================================================================
