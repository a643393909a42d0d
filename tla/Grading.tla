------------------------------ MODULE Grading ------------------------------
(***************************************************************************)
(* The grading engine of .cargo/run.py: grade() walks the rubrics of      *)
(* .grade-target in order, runs each selected test once through           *)
(* grade_single() (the emulator run), classifies it by the success marker  *)
(* and the optional post-hook, and collects grading_result; in grade mode *)
(* main() then calls summarize().                                          *)
(*                                                                         *)
(* The emulator's transcript is abstracted to the set of the substrings   *)
(* the harness looks for: the success marker                               *)
(* 'test result: ok. 1 passed; 0 failed', the word 'panic', and the       *)
(* 'POST-HOOK ... Failed' text grade() appends.  The 'timeout' sentinel    *)
(* grade_single() returns on any exception contains none of them.          *)
(***************************************************************************)
EXTENDS Naturals, Sequences, FiniteSets, TLC

CONSTANTS
    Rubrics,      \* rubric names, in the order of the rubrics dict
    Tests,        \* Tests[r]: test names of rubric r, in dict order
    Hooked,       \* <<r, t>> whose conf has a list-valued 'post-hook'
    Filters,      \* the filters main() can pass: None, or the set of names in argv[2:]
    None          \* filt is None: grade mode (batch, blocking capture)

RubricSet == {Rubrics[i] : i \in DOMAIN Rubrics}
Keys == UNION {{<<r, Tests[r][j]>> : j \in DOMAIN Tests[r]} : r \in RubricSet}

ASSUME GradingAssumption ==
    /\ Rubrics \in Seq(STRING)
    /\ \A i, j \in DOMAIN Rubrics : Rubrics[i] = Rubrics[j] => i = j
    /\ Tests \in [RubricSet -> Seq(STRING)]
    /\ \A r \in DOMAIN Tests : \A i, j \in DOMAIN Tests[r] :
           Tests[r][i] = Tests[r][j] => i = j
    /\ Hooked \subseteq Keys
    /\ None \in Filters
    /\ \A f \in Filters \ {None} : f \subseteq STRING

(* What the harness can observe of a transcript.                           *)
Marker  == "marker"     \* 'test result: ok. 1 passed; 0 failed'
Panic   == "panic"      \* 'panic'
HookMsg == "hookmsg"    \* '\nPOST-HOOK [`...`] Failed: ...'
Output  == SUBSET {Marker, Panic, HookMsg}
(* What grade_single() can return: an emulator transcript, or 'timeout'   *)
(* ({}) when subprocess.run times out, fails to launch, or decoding fails. *)
RunOutput == SUBSET {Marker, Panic}
(* subprocess.run(conf['post-hook']): exit 0, non-zero exit, or raise.     *)
HookOutcome == {"exit0", "nonzero", "raise"}

Result == [passed : BOOLEAN, out : Output]

VARIABLES
    filt,     \* grade()'s filt argument, fixed by main()
    ri,       \* index of the rubric the outer for loop is at
    ti,       \* index of the test the inner for loop is at
    pc,       \* "test" | "ran" | "summary" | "done" | "aborted" | "crashed"
    out,      \* output of the last grade_single() call
    result,   \* grading_result, flattened to a function of <<rname, name>>
    summary   \* what summarize() computed: counts of passed and run tests

vars == <<filt, ri, ti, pc, out, result, summary>>

NR == Len(Rubrics)
R(i) == Rubrics[i]
NT(i) == Len(Tests[R(i)])
Key(i, j) == <<R(i), Tests[R(i)][j]>>

(* Python d[k] = v: the dictionary f with key k bound to v.               *)
Store(f, k, v) == [x \in DOMAIN f \cup {k} |-> IF x = k THEN v ELSE f[x]]

(* Mutant: the "filt != []" test of line 465 dropped.                     *)
SelectedIgnoringEmpty(f, name) == IF f = None THEN TRUE ELSE name \in f

(* grade() line 465: whether the test named name is run under filt.        *)
Selected(f, name) == IF f = None THEN TRUE ELSE f = {} \/ name \in f

Init ==
    /\ filt \in Filters
    /\ ri = 1
    /\ ti = 1
    /\ pc = "test"
    /\ out = {}
    /\ result = <<>>
    /\ summary = [passed |-> 0, tests |-> 0]

(* Line 465: a test the filter does not name is skipped.                   *)
Skip ==
    /\ pc = "test"
    /\ ri <= NR /\ ti <= NT(ri)
    /\ ~Selected(filt, Tests[R(ri)][ti])
    /\ ti' = ti + 1
    /\ UNCHANGED <<filt, ri, pc, out, result, summary>>

(* Line 471: grade_single() runs the emulator, live iff filt is not None, *)
(* and returns its transcript or 'timeout'.                               *)
RunTest ==
    /\ pc = "test"
    /\ ri <= NR /\ ti <= NT(ri)
    /\ Selected(filt, Tests[R(ri)][ti])
    /\ \E o \in RunOutput : out' = o
    /\ pc' = "ran"
    /\ UNCHANGED <<filt, ri, ti, result, summary>>

(* Mutant: the "filt is not None" test of line 473 dropped.               *)
AbortAnyMode ==
    /\ pc = "ran"
    /\ Panic \in out
    /\ pc' = "aborted"
    /\ UNCHANGED <<filt, ri, ti, out, result, summary>>

(* Lines 473-474: in a filtered run a transcript with 'panic' makes grade() *)
(* return None at once; main() then ends.                                  *)
Abort ==
    /\ pc = "ran"
    /\ filt # None /\ Panic \in out
    /\ pc' = "aborted"
    /\ UNCHANGED <<filt, ri, ti, out, result, summary>>

(* Mutant: the post-hook runs whatever the transcript ("passed and"      *)
(* dropped from line 476).                                                 *)
ClassifyHookOnFail ==
    /\ pc = "ran"
    /\ ~(filt # None /\ Panic \in out)
    /\ \E h \in HookOutcome :
         LET marker == Marker \in out
             hooks  == Key(ri, ti) \in Hooked
             passed == IF hooks THEN h = "exit0" ELSE marker
             final  == IF hooks /\ h = "nonzero" THEN out \cup {HookMsg} ELSE out
         IN  result' = Store(result, Key(ri, ti), [passed |-> passed, out |-> final])
    /\ ti' = ti + 1
    /\ pc' = "test"
    /\ UNCHANGED <<filt, ri, out, summary>>

(* Mutant: line 497 stores into one flat dict keyed by the test name, not *)
(* into the dict of the current rubric.                                    *)
ClassifyFlatKey ==
    /\ pc = "ran"
    /\ ~(filt # None /\ Panic \in out)
    /\ \E h \in HookOutcome :
         LET marker == Marker \in out
             hooks  == marker /\ Key(ri, ti) \in Hooked
             passed == IF hooks THEN h = "exit0" ELSE marker
             final  == IF hooks /\ h = "nonzero" THEN out \cup {HookMsg} ELSE out
         IN  result' = Store(result, <<Tests[R(ri)][ti]>>, [passed |-> passed, out |-> final])
    /\ ti' = ti + 1
    /\ pc' = "test"
    /\ UNCHANGED <<filt, ri, out, summary>>

(* Mutant: grading_result[rname] = dict() of line 459 moved into the inner *)
(* loop, so the rubric's dict is emptied before each of its tests.         *)
ClassifyResetRubric ==
    /\ pc = "ran"
    /\ ~(filt # None /\ Panic \in out)
    /\ \E h \in HookOutcome :
         LET marker == Marker \in out
             hooks  == marker /\ Key(ri, ti) \in Hooked
             passed == IF hooks THEN h = "exit0" ELSE marker
             final  == IF hooks /\ h = "nonzero" THEN out \cup {HookMsg} ELSE out
             others == [k \in {k \in DOMAIN result : k[1] # R(ri)} |-> result[k]]
         IN  result' = Store(others, Key(ri, ti), [passed |-> passed, out |-> final])
    /\ ti' = ti + 1
    /\ pc' = "test"
    /\ UNCHANGED <<filt, ri, out, summary>>

(* Lines 472, 476-497: pass iff the marker is present; a passing test with *)
(* a list post-hook is re-judged by the hook's exit status; the result is  *)
(* stored and the loop moves on.                                           *)
Classify ==
    /\ pc = "ran"
    /\ ~(filt # None /\ Panic \in out)
    /\ \E h \in HookOutcome :
         LET marker == Marker \in out
             hooks  == marker /\ Key(ri, ti) \in Hooked
             passed == IF hooks THEN h = "exit0" ELSE marker
             final  == IF hooks /\ h = "nonzero" THEN out \cup {HookMsg} ELSE out
         IN  result' = Store(result, Key(ri, ti), [passed |-> passed, out |-> final])
    /\ ti' = ti + 1
    /\ pc' = "test"
    /\ UNCHANGED <<filt, ri, out, summary>>

(* Lines 458-460: the inner loop is exhausted; the outer loop moves to the *)
(* next rubric.                                                            *)
NextRubric ==
    /\ pc = "test"
    /\ ri <= NR /\ ti > NT(ri)
    /\ ri' = ri + 1
    /\ ti' = 1
    /\ UNCHANGED <<filt, pc, out, result, summary>>

(* Line 499 and main() lines 605-610: grade() returns; only grade mode     *)
(* goes on to summarize().                                                 *)
Return ==
    /\ pc = "test"
    /\ ri > NR
    /\ pc' = IF filt = None THEN "summary" ELSE "done"
    /\ UNCHANGED <<filt, ri, ti, out, result, summary>>

(* Results stored for rubric r.                                            *)
RubricKeys(r) == {k \in DOMAIN result : k[1] = r}

(* Mutant: the test counters are reset for every rubric, so only the     *)
(* last rubric is counted.                                                 *)
SummarizeLastRubric ==
    /\ pc = "summary"
    /\ IF \E i \in 1..NR : RubricKeys(R(i)) = {}
          THEN /\ pc' = "crashed"
               /\ UNCHANGED summary
          ELSE /\ pc' = "done"
               /\ summary' = [passed |-> Cardinality({k \in RubricKeys(R(NR)) : result[k].passed}),
                              tests  |-> Cardinality(RubricKeys(R(NR)))]
    /\ UNCHANGED <<filt, ri, ti, out, result>>

(* summarize(), lines 501-534: every rubric of grading_result contributes  *)
(* rscore / len(rubric) * rmaxscore, which raises ZeroDivisionError for a  *)
(* rubric with no results; otherwise the counts are printed.               *)
Summarize ==
    /\ pc = "summary"
    /\ IF \E i \in 1..NR : RubricKeys(R(i)) = {}
          THEN /\ pc' = "crashed"
               /\ UNCHANGED summary
          ELSE /\ pc' = "done"
               /\ summary' = [passed |-> Cardinality({k \in DOMAIN result : result[k].passed}),
                              tests  |-> Cardinality(DOMAIN result)]
    /\ UNCHANGED <<filt, ri, ti, out, result>>

Terminated == pc \in {"done", "aborted", "crashed"} /\ UNCHANGED vars

Next ==
    \/ Skip \/ RunTest \/ Abort \/ Classify \/ NextRubric \/ Return
    \/ Summarize \/ Terminated

Spec == Init /\ [][Next]_vars

-----------------------------------------------------------------------------
(* Type invariant.                                                          *)
TypeOK ==
    /\ filt \in Filters
    /\ ri \in 1..NR + 1
    /\ ti \in Nat \ {0}
    /\ pc \in {"test", "ran", "summary", "done", "aborted", "crashed"}
    /\ out \in Output
    /\ DOMAIN result \subseteq Keys
    /\ \A k \in DOMAIN result : result[k] \in Result
    /\ summary \in [passed : Nat, tests : Nat]

(* A test is recorded as passed only if its own emulator transcript held   *)
(* the success marker: neither a post-hook nor the bookkeeping of grade()  *)
(* can turn a run without the marker into a pass (lines 472, 476-485).     *)
PassNeedsMarker ==
    \A k \in DOMAIN result : result[k].passed => Marker \in result[k].out

(* Positions before (i, j) in the order grade() visits tests.              *)
Before(i, j, i2, j2) == i < i2 \/ (i = i2 /\ j < j2)

(* Positions of the rubric set, in the order grade() visits them.         *)
Positions == UNION {{<<i, j>> : j \in 1..NT(i)} : i \in 1..NR}

(* The results are exactly the tests grade() has gone past that the       *)
(* invocation asked for (spec 4.6: no filter, or an empty filter list, is  *)
(* everything; otherwise the named tests): every requested test is run    *)
(* once, in rubric order, and none that was not requested (lines 458-497). *)
ResultsAreVisitedSelected ==
    DOMAIN result =
      {Key(p[1], p[2]) : p \in {q \in Positions :
          /\ IF filt = None THEN TRUE ELSE filt = {} \/ Tests[R(q[1])][q[2]] \in filt
          /\ Before(q[1], q[2], ri, ti)}}

(* A grading run stops early only in a filtered (live) run, and only just  *)
(* after a transcript containing 'panic'; the panicking test is left       *)
(* without a result (lines 473-474).                                       *)
AbortOnlyOnPanic ==
    pc = "aborted" =>
        /\ filt # None
        /\ Panic \in out
        /\ ri <= NR /\ ti <= NT(ri)
        /\ Key(ri, ti) \notin DOMAIN result

(* A verdict grade() has recorded is final: no later step of grade() or  *)
(* summarize() removes a test's result or changes it, so no test is judged *)
(* over an earlier verdict, not even one of the same name in another       *)
(* rubric (line 497 stores into the current rubric's dict of line 459).    *)
ResultsFinal ==
    [][\A k \in DOMAIN result : k \in DOMAIN result' /\ result'[k] = result[k]]_vars

(* In grade mode the summary counts every configured test: TEST SUMMARY   *)
(* prints 'passed of tests' over the whole rubric set (lines 527-530).    *)
SummaryCountsAll ==
    (pc = "done" /\ filt = None) =>
        /\ summary.tests = Cardinality(Keys)
        /\ summary.passed = Cardinality({k \in Keys : result[k].passed})

(* Spec section 4.7: summarize treats a rubric without tests as score zero *)
(* instead of failing.                                                      *)
SummarizeNeverCrashes == pc # "crashed"

(* Spec section 4.6: grading is abandoned on 'panic' only in single-test   *)
(* interactive mode, i.e. with a non-empty filter list.                    *)
AbortOnlyWhenFiltered == pc = "aborted" => filt \notin {None, {}}
=============================================================================
