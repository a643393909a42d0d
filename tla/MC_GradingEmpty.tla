--------------------------- MODULE MC_GradingEmpty ---------------------------
(* A .grade-target with a rubric whose "tests" object is empty, graded in  *)
(* grade mode.                                                             *)
EXTENDS Grading

MCRubrics == <<"core", "empty">>
MCTests == [r \in {"core", "empty"} |-> IF r = "core" THEN <<"t1">> ELSE <<>>]
MCFilters == {None}
=============================================================================
