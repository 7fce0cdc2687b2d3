-------------------------------- MODULE Cases --------------------------------
(***************************************************************************)
(* The frame the modules on pure functions share: a case is a function     *)
(* with its arguments, chosen at the start, and its result is what one     *)
(* step computes.  Properties speak of computed cases.  And the arithmetic *)
(* they share: sums are of functions, so that one lemma serves every sum.  *)
(***************************************************************************)
EXTENDS Integers, Functions

VARIABLES case,    \* a record; its field fn names the function
          result,  \* what the function returned
          done     \* whether it has

caseVars == <<case, result, done>>

Given(cases) == case \in cases /\ result = {} /\ done = FALSE

\* One of the values the function may return.
Computes(fn, values) ==
    /\ ~done /\ case.fn = fn
    /\ result' \in values
    /\ done' = TRUE
    /\ UNCHANGED case

Computed(fn) == done /\ case.fn = fn

-----------------------------------------------------------------------------

None          == 10000        \* a date, a count or a price that is absent
Least(a, b)   == IF a < b THEN a ELSE b
Most(a, b)    == IF a > b THEN a ELSE b
Total(S, f(_)) == SumFunction([x \in S |-> f(x)])
=============================================================================
