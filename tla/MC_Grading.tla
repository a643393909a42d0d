----------------------------- MODULE MC_Grading -----------------------------
(* Two rubrics sharing a test name (so a name filter selects a test in    *)
(* both), one post-hook on a test of each rubric, and every filter main()  *)
(* can pass: None (grade), [] (project 5 without names), one name.         *)
EXTENDS Grading

MCRubrics == <<"core", "extra">>
MCTests == [r \in {"core", "extra"} |->
              IF r = "core" THEN <<"t1", "t2">> ELSE <<"t1", "t3">>]
MCHooked == {<<"core", "t2">>, <<"extra", "t1">>}
MCFilters == {None, {}, {"t1"}, {"t3"}}
=============================================================================
