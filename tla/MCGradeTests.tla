----------------------------- MODULE MCGradeTests -----------------------------
(* Model of GradeTests for TLC: the root is the first test, as in grade-lab1, *)
(* and two tests depend on it.                                                *)
EXTENDS GradeTests

MCTests == <<"jos", "printf", "backtrace">>
MCWanted == [t \in {"printf", "backtrace"} |-> IF t = "printf" THEN 1 ELSE 3]
=============================================================================
