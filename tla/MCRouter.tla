------------------------------- MODULE MCRouter -------------------------------
(* TLC instance of Router: every route of up to three entries over a mock, a   *)
(* proxy and a second proxy, asked by route, by model and by an unknown name.  *)
EXTENDS Router, TLC

\* A weight below 0, the fallback's 0 and a positive one.
SomeWeights == {-1, 0, 2}

\* No known function, a longest one, and two that are equally long.
SomePrompts == {{}, {"add", "fib", "factorial"}, {"add", "fib"}}

=============================================================================
