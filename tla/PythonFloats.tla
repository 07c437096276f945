------------------------------ MODULE PythonFloats ------------------------------
(***************************************************************************)
(* What the remediation controller does with floating-point numbers:       *)
(* comparisons, min and max, with Python's behaviour on NaN, which is      *)
(* neither below, nor above, nor equal to anything.                        *)
(***************************************************************************)
EXTENDS Integers

CONSTANT NaN   \* the float nan

ASSUME NaNAssumption == NaN \notin Int

\* x < y, and y > x
Less(x, y) == x # NaN /\ y # NaN /\ x < y

\* x <= y
AtMost(x, y) == x # NaN /\ y # NaN /\ x <= y

\* min(x, y) and max(x, y): the first argument, unless the second one beats it.
PyMin(x, y) == IF Less(y, x) THEN y ELSE x
PyMax(x, y) == IF Less(x, y) THEN y ELSE x

=============================================================================
