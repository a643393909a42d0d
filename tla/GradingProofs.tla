--------------------------- MODULE GradingProofs ---------------------------
(***************************************************************************)
(* Proofs about the grading engine (Grading.tla), for every rubric set,    *)
(* hook configuration and filter: the type invariant, and that a result   *)
(* is a pass only when the test's own transcript held the success marker. *)
(***************************************************************************)
EXTENDS Grading, FiniteSetTheorems, TLAPS

(* The inductive invariant: the type invariant, the fact that a transcript *)
(* being classified belongs to an existing test (so the key Classify      *)
(* stores is a key of the rubric set), and finiteness of the results,     *)
(* which summarize() counts.                                               *)
IInv ==
    /\ TypeOK
    /\ pc = "ran" => ri <= NR /\ ti <= NT(ri)
    /\ IsFiniteSet(DOMAIN result)

(* A position inside the rubric set names a key of it.                     *)
LEMMA KeyInKeys ==
    ASSUME NEW i \in 1..NR, NEW j \in 1..NT(i)
    PROVE  Key(i, j) \in Keys
<1>1. R(i) \in RubricSet
    BY GradingAssumption DEF R, RubricSet, NR
<1>2. Tests[R(i)] \in Seq(STRING)
    BY <1>1, GradingAssumption
<1>3. j \in DOMAIN Tests[R(i)]
    BY <1>2 DEF NT
<1>. QED
    BY <1>1, <1>3 DEF Key, Keys

LEMMA InitIInv == Init => IInv
<1> SUFFICES ASSUME Init PROVE IInv
    OBVIOUS
<1>1. DOMAIN result = {}
    BY DEF Init
<1>2. NR \in Nat
    BY GradingAssumption DEF NR
<1>. QED
    BY <1>1, <1>2, FS_EmptySet DEF Init, IInv, TypeOK, Output

LEMMA NextIInv == IInv /\ [Next]_vars => IInv'
<1> SUFFICES ASSUME IInv, [Next]_vars PROVE IInv'
    OBVIOUS
<1>. USE DEF IInv, TypeOK
<1>0. NR \in Nat
    BY GradingAssumption DEF NR
<1>1. CASE Skip
    BY <1>1 DEF Skip
<1>2. CASE RunTest
    BY <1>2 DEF RunTest, RunOutput, Output
<1>3. CASE Abort
    BY <1>3 DEF Abort
<1>4. CASE Classify
    <2> DEFINE k0 == Key(ri, ti)
               marker == Marker \in out
               hooks  == marker /\ k0 \in Hooked
               passed(h) == IF hooks THEN h = "exit0" ELSE marker
               final(h)  == IF hooks /\ h = "nonzero" THEN out \cup {HookMsg} ELSE out
    <2>1. PICK h \in HookOutcome :
              result' = Store(result, k0, [passed |-> passed(h), out |-> final(h)])
        BY <1>4 DEF Classify
    <2>2. k0 \in Keys
        BY <1>4, KeyInKeys DEF Classify
    <2>3. DOMAIN result' = DOMAIN result \cup {k0}
        BY <2>1 DEF Store
    <2>4. [passed |-> passed(h), out |-> final(h)] \in Result
        <3>1. passed(h) \in BOOLEAN
            <4>1. CASE hooks
                <5>1. passed(h) = (h = "exit0")
                    BY <4>1 DEF passed
                <5>. QED
                    BY <5>1
            <4>2. CASE ~hooks
                <5>1. passed(h) = marker
                    BY <4>2 DEF passed
                <5>2. marker \in BOOLEAN
                    BY DEF marker
                <5>. QED
                    BY <5>1, <5>2
            <4>. QED
                BY <4>1, <4>2
        <3>2. final(h) \in Output
            <4>1. out \subseteq {Marker, Panic, HookMsg}
                BY DEF Output
            <4>. QED
                BY <4>1 DEF Output, final
        <3>. QED
            BY <3>1, <3>2 DEF Result
    <2>5. \A k \in DOMAIN result' : result'[k] \in Result
        BY <2>1, <2>4 DEF Store
    <2>6. IsFiniteSet(DOMAIN result')
        BY <2>3, FS_AddElement
    <2>7. DOMAIN result' \subseteq Keys
        BY <2>2, <2>3
    <2>8. /\ ti' \in Nat \ {0}
          /\ pc' = "test"
          /\ UNCHANGED <<filt, ri, out, summary>>
        BY <1>4 DEF Classify
    <2>. QED
        BY <2>5, <2>6, <2>7, <2>8
<1>5. CASE NextRubric
    BY <1>5, <1>0 DEF NextRubric
<1>6. CASE Return
    BY <1>6 DEF Return
<1>7. CASE Summarize
    <2>1. IsFiniteSet({k \in DOMAIN result : result[k].passed})
        BY FS_Subset
    <2>2. /\ Cardinality({k \in DOMAIN result : result[k].passed}) \in Nat
          /\ Cardinality(DOMAIN result) \in Nat
        BY <2>1, FS_CardinalityType
    <2>. QED
        BY <1>7, <2>2 DEF Summarize
<1>8. CASE Terminated
    BY <1>8 DEF Terminated, vars
<1>9. CASE UNCHANGED vars
    BY <1>9 DEF vars
<1>. QED
    BY <1>1, <1>2, <1>3, <1>4, <1>5, <1>6, <1>7, <1>8, <1>9 DEF Next

(* grade() and summarize() keep every variable in its type, whatever the   *)
(* rubrics, hooks and filter.                                              *)
THEOREM TypeCorrect == Spec => []TypeOK
<1>1. Spec => []IInv
    BY InitIInv, NextIInv, PTL DEF Spec
<1>. QED
    BY <1>1, PTL DEF IInv

(* PassNeedsMarker is preserved by every step of grade() and summarize(). *)
LEMMA PassNeedsMarkerStep ==
    IInv /\ PassNeedsMarker /\ [Next]_vars => PassNeedsMarker'
<1> SUFFICES ASSUME IInv, PassNeedsMarker, [Next]_vars PROVE PassNeedsMarker'
    OBVIOUS
<1>1. CASE Classify
    <2>1. PICK h \in HookOutcome :
              LET marker == Marker \in out
                  hooks  == marker /\ Key(ri, ti) \in Hooked
                  passed == IF hooks THEN h = "exit0" ELSE marker
                  final  == IF hooks /\ h = "nonzero" THEN out \cup {HookMsg} ELSE out
              IN  result' = Store(result, Key(ri, ti), [passed |-> passed, out |-> final])
        BY <1>1 DEF Classify
    <2>. QED
        BY <2>1 DEF PassNeedsMarker, Store
<1>2. CASE ~Classify
    <2>1. UNCHANGED result
        BY <1>2 DEF Next, Skip, RunTest, Abort, NextRubric, Return, Summarize, Terminated, vars
    <2>. QED
        BY <2>1 DEF PassNeedsMarker
<1>. QED
    BY <1>1, <1>2

(* In every reachable state, no test is recorded as passed unless its own  *)
(* emulator transcript contained the success marker: a post-hook can only  *)
(* veto a pass, never grant one.                                           *)
THEOREM PassNeedsMarkerInvariant == Spec => []PassNeedsMarker
<1>1. Init => PassNeedsMarker
    BY DEF Init, PassNeedsMarker
<1>2. Spec => [](IInv /\ PassNeedsMarker)
    BY <1>1, InitIInv, NextIInv, PassNeedsMarkerStep, PTL DEF Spec
<1>. QED
    BY <1>2, PTL

(* Every stored result belongs to a selected position grade() has gone    *)
(* past.                                                                    *)
Visited ==
    \A k \in DOMAIN result : \E i \in 1..NR : \E j \in 1..NT(i) :
        k = Key(i, j) /\ Before(i, j, ri, ti) /\ Selected(filt, Tests[R(i)][j])

(* Every selected position grade() has gone past has its result.          *)
Complete ==
    \A i \in 1..NR : \A j \in 1..NT(i) :
        Before(i, j, ri, ti) /\ Selected(filt, Tests[R(i)][j]) => Key(i, j) \in DOMAIN result

(* A test whose transcript is being classified was selected.               *)
RanSelected == pc = "ran" => Selected(filt, Tests[R(ri)][ti])

(* Distinct positions of the rubric set name distinct keys: rubric names  *)
(* are distinct dict keys, and so are the test names of a rubric.         *)
LEMMA KeyInjective ==
    ASSUME NEW i \in 1..NR, NEW j \in 1..NT(i),
           NEW i2 \in 1..NR, NEW j2 \in 1..NT(i2),
           Key(i, j) = Key(i2, j2)
    PROVE  i = i2 /\ j = j2
<1>1. R(i) = R(i2) /\ Tests[R(i)][j] = Tests[R(i2)][j2]
    BY DEF Key
<1>2. i = i2
    <2>1. i \in DOMAIN Rubrics /\ i2 \in DOMAIN Rubrics
        BY GradingAssumption DEF NR
    <2>. QED
        BY <1>1, <2>1, GradingAssumption DEF R
<1>3. j = j2
    <2>1. R(i) \in RubricSet /\ Tests[R(i)] \in Seq(STRING)
        BY GradingAssumption DEF R, RubricSet, NR
    <2>2. j \in DOMAIN Tests[R(i)] /\ j2 \in DOMAIN Tests[R(i)]
        BY <1>2, <2>1 DEF NT
    <2>3. R(i) \in DOMAIN Tests
        BY <2>1, GradingAssumption
    <2>. QED
        BY <1>1, <1>2, <2>2, <2>3, GradingAssumption
<1>. QED
    BY <1>2, <1>3

LEMMA RanSelectedStep == RanSelected /\ [Next]_vars => RanSelected'
<1> SUFFICES ASSUME RanSelected, [Next]_vars PROVE RanSelected'
    OBVIOUS
<1>1. CASE RunTest
    BY <1>1 DEF RunTest, RanSelected
<1>2. CASE Skip \/ NextRubric
    BY <1>2 DEF Skip, NextRubric, RanSelected
<1>3. CASE Abort \/ Classify \/ Return \/ Summarize
    BY <1>3 DEF Abort, Classify, Return, Summarize, RanSelected
<1>4. CASE Terminated \/ UNCHANGED vars
    BY <1>4 DEF Terminated, vars, RanSelected
<1>. QED
    BY <1>1, <1>2, <1>3, <1>4 DEF Next

LEMMA VisitedStep == IInv /\ RanSelected /\ Visited /\ [Next]_vars => Visited'
<1> SUFFICES ASSUME IInv, RanSelected, Visited, [Next]_vars PROVE Visited'
    OBVIOUS
<1>0. ri \in Nat /\ ti \in Nat
    BY DEF IInv, TypeOK
<1>1. CASE Skip
    <2>1. ti' = ti + 1 /\ UNCHANGED <<filt, ri, result>>
        BY <1>1 DEF Skip
    <2>. QED
        BY <1>0, <2>1 DEF Visited, Before
<1>2. CASE Classify
    <2>1. PICK h \in HookOutcome :
              LET marker == Marker \in out
                  hooks  == marker /\ Key(ri, ti) \in Hooked
                  passed == IF hooks THEN h = "exit0" ELSE marker
                  final  == IF hooks /\ h = "nonzero" THEN out \cup {HookMsg} ELSE out
              IN  result' = Store(result, Key(ri, ti), [passed |-> passed, out |-> final])
        BY <1>2 DEF Classify
    <2>2. DOMAIN result' = DOMAIN result \cup {Key(ri, ti)}
        BY <2>1 DEF Store
    <2>3. ti' = ti + 1 /\ ri' = ri /\ filt' = filt
        BY <1>2 DEF Classify
    <2>4. ri \in 1..NR /\ ti \in 1..NT(ri)
        BY <1>2 DEF Classify, IInv, TypeOK
    <2>5. ASSUME NEW k \in DOMAIN result'
          PROVE  \E i \in 1..NR : \E j \in 1..NT(i) :
                     k = Key(i, j) /\ Before(i, j, ri', ti') /\ Selected(filt', Tests[R(i)][j])
        <3>1. CASE k = Key(ri, ti)
            BY <1>2, <3>1, <2>3, <2>4 DEF Before, RanSelected, Classify
        <3>2. CASE k \in DOMAIN result
            BY <3>2, <1>0, <2>3 DEF Visited, Before
        <3>. QED
            BY <2>2, <3>1, <3>2
    <2>. QED
        BY <2>5 DEF Visited
<1>3. CASE NextRubric
    <2>1. ri' = ri + 1 /\ UNCHANGED <<filt, result>>
        BY <1>3 DEF NextRubric
    <2>. QED
        BY <1>0, <2>1 DEF Visited, Before
<1>4. CASE RunTest \/ Abort \/ Return \/ Summarize \/ Terminated \/ UNCHANGED vars
    <2>1. UNCHANGED <<filt, ri, ti, result>>
        BY <1>4 DEF RunTest, Abort, Return, Summarize, Terminated, vars
    <2>. QED
        BY <2>1 DEF Visited
<1>. QED
    BY <1>1, <1>2, <1>3, <1>4 DEF Next

LEMMA AbortOnlyOnPanicStep ==
    IInv /\ Visited /\ AbortOnlyOnPanic /\ [Next]_vars => AbortOnlyOnPanic'
<1> SUFFICES ASSUME IInv, Visited, AbortOnlyOnPanic, [Next]_vars PROVE AbortOnlyOnPanic'
    OBVIOUS
<1>1. CASE Abort
    <2>1. /\ filt # None /\ Panic \in out
          /\ ri \in 1..NR /\ ti \in 1..NT(ri)
          /\ pc' = "aborted" /\ UNCHANGED <<filt, ri, ti, out, result>>
        BY <1>1 DEF Abort, IInv, TypeOK
    <2>2. Key(ri, ti) \notin DOMAIN result
        <3> SUFFICES ASSUME Key(ri, ti) \in DOMAIN result PROVE FALSE
            OBVIOUS
        <3>1. PICK i \in 1..NR : \E j \in 1..NT(i) : Key(ri, ti) = Key(i, j) /\ Before(i, j, ri, ti)
            BY DEF Visited
        <3>2. PICK j \in 1..NT(i) : Key(ri, ti) = Key(i, j) /\ Before(i, j, ri, ti)
            BY <3>1
        <3>3. ri = i /\ ti = j
            BY <2>1, <3>2, KeyInjective
        <3>. QED
            BY <3>2, <3>3 DEF Before
    <2>. QED
        BY <2>1, <2>2 DEF AbortOnlyOnPanic
<1>2. CASE pc = "aborted"
    <2>1. UNCHANGED vars
        BY <1>2 DEF Next, Skip, RunTest, Abort, Classify, NextRubric, Return,
                    Summarize, Terminated
    <2>. QED
        BY <2>1 DEF AbortOnlyOnPanic, vars
<1>3. CASE ~Abort /\ pc # "aborted"
    <2>1. pc' # "aborted"
        BY <1>3 DEF Next, Skip, RunTest, Classify, NextRubric, Return, Summarize,
                    Terminated, vars
    <2>. QED
        BY <2>1 DEF AbortOnlyOnPanic
<1>. QED
    BY <1>1, <1>2, <1>3

(* In every reachable state, an aborted grading run is a filtered (live)   *)
(* run that stopped right after a transcript containing 'panic', at a test *)
(* of the rubric set that got no result (grade() lines 473-474).          *)
THEOREM AbortOnlyOnPanicInvariant == Spec => []AbortOnlyOnPanic
<1>1. Init => Visited /\ AbortOnlyOnPanic
    BY DEF Init, Visited, AbortOnlyOnPanic
<1>2. Spec => [](IInv /\ RanSelected /\ Visited /\ AbortOnlyOnPanic)
    <2>1. Init => RanSelected
        BY DEF Init, RanSelected
    <2>. QED
        BY <1>1, <2>1, InitIInv, NextIInv, RanSelectedStep, VisitedStep,
           AbortOnlyOnPanicStep, PTL DEF Spec
<1>. QED
    BY <1>2, PTL

LEMMA CompleteStep == IInv /\ RanSelected /\ Complete /\ [Next]_vars => Complete'
<1> SUFFICES ASSUME IInv, RanSelected, Complete, [Next]_vars PROVE Complete'
    OBVIOUS
<1>0. ri \in Nat /\ ti \in Nat /\ NR \in Nat
    BY GradingAssumption DEF IInv, TypeOK, NR
<1>1. CASE Skip
    <2>1. /\ ti' = ti + 1 /\ UNCHANGED <<filt, ri, result>>
          /\ ~Selected(filt, Tests[R(ri)][ti])
        BY <1>1 DEF Skip
    <2>2. ASSUME NEW i \in 1..NR, NEW j \in 1..NT(i),
                 Before(i, j, ri', ti'), Selected(filt', Tests[R(i)][j])
          PROVE  Key(i, j) \in DOMAIN result'
        <3>1. Before(i, j, ri, ti) \/ (i = ri /\ j = ti)
            BY <1>0, <2>1, <2>2 DEF Before
        <3>. QED
            BY <2>1, <2>2, <3>1 DEF Complete
    <2>. QED
        BY <2>2 DEF Complete
<1>2. CASE Classify
    <2>1. PICK h \in HookOutcome :
              LET marker == Marker \in out
                  hooks  == marker /\ Key(ri, ti) \in Hooked
                  passed == IF hooks THEN h = "exit0" ELSE marker
                  final  == IF hooks /\ h = "nonzero" THEN out \cup {HookMsg} ELSE out
              IN  result' = Store(result, Key(ri, ti), [passed |-> passed, out |-> final])
        BY <1>2 DEF Classify
    <2>2. DOMAIN result' = DOMAIN result \cup {Key(ri, ti)}
        BY <2>1 DEF Store
    <2>3. ti' = ti + 1 /\ ri' = ri /\ filt' = filt
        BY <1>2 DEF Classify
    <2>4. ASSUME NEW i \in 1..NR, NEW j \in 1..NT(i),
                 Before(i, j, ri', ti'), Selected(filt', Tests[R(i)][j])
          PROVE  Key(i, j) \in DOMAIN result'
        <3>1. Before(i, j, ri, ti) \/ (i = ri /\ j = ti)
            BY <1>0, <2>3, <2>4 DEF Before
        <3>. QED
            BY <2>2, <2>3, <2>4, <3>1 DEF Complete
    <2>. QED
        BY <2>4 DEF Complete
<1>3. CASE NextRubric
    <2>1. /\ ri' = ri + 1 /\ ti' = 1 /\ UNCHANGED <<filt, result>>
          /\ ri <= NR /\ ti > NT(ri)
        BY <1>3 DEF NextRubric
    <2>2. ASSUME NEW i \in 1..NR, NEW j \in 1..NT(i),
                 Before(i, j, ri', ti'), Selected(filt', Tests[R(i)][j])
          PROVE  Key(i, j) \in DOMAIN result'
        <3>1. NT(i) \in Nat
            BY GradingAssumption DEF NT, R, NR, RubricSet
        <3>2. Before(i, j, ri, ti)
            BY <1>0, <2>1, <2>2, <3>1 DEF Before
        <3>. QED
            BY <2>1, <2>2, <3>2 DEF Complete
    <2>. QED
        BY <2>2 DEF Complete
<1>4. CASE RunTest \/ Abort \/ Return \/ Summarize \/ Terminated \/ UNCHANGED vars
    <2>1. UNCHANGED <<filt, ri, ti, result>>
        BY <1>4 DEF RunTest, Abort, Return, Summarize, Terminated, vars
    <2>. QED
        BY <2>1 DEF Complete
<1>. QED
    BY <1>1, <1>2, <1>3, <1>4 DEF Next

(* Visited and Complete together are ResultsAreVisitedSelected.            *)
LEMMA VisitedCompleteResults ==
    Visited /\ Complete => ResultsAreVisitedSelected
<1> SUFFICES ASSUME Visited, Complete PROVE ResultsAreVisitedSelected
    OBVIOUS
<1> DEFINE Cond(q) == /\ IF filt = None THEN TRUE ELSE filt = {} \/ Tests[R(q[1])][q[2]] \in filt
                      /\ Before(q[1], q[2], ri, ti)
           S == {q \in Positions : Cond(q)}
<1>1. ASSUME NEW k \in DOMAIN result PROVE \E q \in S : k = Key(q[1], q[2])
    <2>1. PICK i \in 1..NR : \E j \in 1..NT(i) :
              k = Key(i, j) /\ Before(i, j, ri, ti) /\ Selected(filt, Tests[R(i)][j])
        BY DEF Visited
    <2>2. PICK j \in 1..NT(i) :
              k = Key(i, j) /\ Before(i, j, ri, ti) /\ Selected(filt, Tests[R(i)][j])
        BY <2>1
    <2>3. <<i, j>> \in Positions
        BY DEF Positions
    <2>. QED
        BY <2>2, <2>3 DEF Selected, Cond, S
<1>2. ASSUME NEW q \in S PROVE Key(q[1], q[2]) \in DOMAIN result
    <2>1. PICK i \in 1..NR : \E j \in 1..NT(i) : q = <<i, j>>
        BY DEF S, Positions
    <2>2. PICK j \in 1..NT(i) : q = <<i, j>>
        BY <2>1
    <2>. QED
        BY <2>2 DEF S, Cond, Selected, Complete
<1>. QED
    BY <1>1, <1>2 DEF ResultsAreVisitedSelected, Cond, S

(* In every reachable state the results are exactly the tests grade() has *)
(* gone past that the invocation selected (grade() lines 458-497): no      *)
(* selected test is skipped or run twice, and no unselected one is run.    *)
THEOREM ResultsAreVisitedSelectedInvariant == Spec => []ResultsAreVisitedSelected
<1>1. Init => RanSelected /\ Visited /\ Complete
    BY DEF Init, RanSelected, Visited, Complete, Before
<1>2. Spec => [](IInv /\ RanSelected /\ Visited /\ Complete)
    BY <1>1, InitIInv, NextIInv, RanSelectedStep, VisitedStep, CompleteStep, PTL DEF Spec
<1>. QED
    BY <1>2, VisitedCompleteResults, PTL

(* What summarize() printed: the counts over grading_result.               *)
Counts == [passed |-> Cardinality({k \in DOMAIN result : result[k].passed}),
           tests  |-> Cardinality(DOMAIN result)]

(* After grade() returns the loops are past the last rubric, and in grade *)
(* mode a finished summary holds the counts of the results.               *)
Summarized ==
    /\ pc \in {"summary", "done", "crashed"} => ri = NR + 1
    /\ (pc = "done" /\ filt = None) => summary = Counts

LEMMA SummarizedStep == IInv /\ Summarized /\ [Next]_vars => Summarized'
<1> SUFFICES ASSUME IInv, Summarized, [Next]_vars PROVE Summarized'
    OBVIOUS
<1>0. ri \in 1..NR + 1 /\ NR \in Nat
    BY GradingAssumption DEF IInv, TypeOK, NR
<1>1. CASE Return
    <2>1. /\ ri > NR /\ UNCHANGED <<filt, ri>>
          /\ pc' = IF filt = None THEN "summary" ELSE "done"
        BY <1>1 DEF Return
    <2>. QED
        BY <1>0, <2>1 DEF Summarized
<1>2. CASE Summarize
    <2>1. /\ pc = "summary" /\ UNCHANGED <<filt, ri, result>>
          /\ pc' = "done" => summary' = Counts
        BY <1>2 DEF Summarize, Counts
    <2>. QED
        BY <2>1 DEF Summarized, Counts
<1>3. CASE Skip \/ RunTest \/ Abort \/ Classify \/ NextRubric
    <2>1. pc' \in {"test", "ran", "aborted"}
        BY <1>3 DEF Skip, RunTest, Abort, Classify, NextRubric
    <2>. QED
        BY <2>1 DEF Summarized
<1>4. CASE Terminated \/ UNCHANGED vars
    BY <1>4 DEF Terminated, vars, Summarized, Counts
<1>. QED
    BY <1>1, <1>2, <1>3, <1>4 DEF Next

(* Past the last rubric in grade mode, the results are every key.         *)
LEMMA AllKeysStored ==
    ASSUME IInv, Visited, Complete, ri = NR + 1, filt = None
    PROVE  DOMAIN result = Keys
<1>0. NR \in Nat
    BY GradingAssumption DEF NR
<1>1. DOMAIN result \subseteq Keys
    BY DEF IInv, TypeOK
<1>2. ASSUME NEW k \in Keys PROVE k \in DOMAIN result
    <2>1. PICK r \in RubricSet : \E j \in DOMAIN Tests[r] : k = <<r, Tests[r][j]>>
        BY DEF Keys
    <2>2. PICK j \in DOMAIN Tests[r] : k = <<r, Tests[r][j]>>
        BY <2>1
    <2>3. PICK i \in DOMAIN Rubrics : r = Rubrics[i]
        BY DEF RubricSet
    <2>4. i \in 1..NR
        BY <2>3, GradingAssumption DEF NR
    <2>5. Tests[r] \in Seq(STRING)
        BY GradingAssumption
    <2>6. j \in 1..NT(i) /\ k = Key(i, j)
        BY <2>2, <2>3, <2>5 DEF NT, R, Key
    <2>7. Before(i, j, ri, ti)
        BY <1>0, <2>4 DEF Before
    <2>. QED
        BY <2>4, <2>6, <2>7 DEF Complete, Selected
<1>. QED
    BY <1>1, <1>2

(* In grade mode the finished summary counts every configured test: TEST   *)
(* SUMMARY prints 'passed of tests' over the whole rubric set, whatever    *)
(* the rubrics, names and hooks (grade() and summarize(), lines 458-530).  *)
THEOREM SummaryCountsAllInvariant == Spec => []SummaryCountsAll
<1>1. Init => RanSelected /\ Visited /\ Complete /\ Summarized
    BY DEF Init, RanSelected, Visited, Complete, Before, Summarized
<1>2. Spec => [](IInv /\ RanSelected /\ Visited /\ Complete /\ Summarized)
    BY <1>1, InitIInv, NextIInv, RanSelectedStep, VisitedStep, CompleteStep,
       SummarizedStep, PTL DEF Spec
<1>3. IInv /\ Visited /\ Complete /\ Summarized => SummaryCountsAll
    <2> SUFFICES ASSUME IInv, Visited, Complete, Summarized, pc = "done", filt = None
                 PROVE  /\ summary.tests = Cardinality(Keys)
                        /\ summary.passed = Cardinality({k \in Keys : result[k].passed})
        BY DEF SummaryCountsAll
    <2>1. ri = NR + 1 /\ summary = Counts
        BY DEF Summarized
    <2>2. DOMAIN result = Keys
        BY <2>1, AllKeysStored
    <2>. QED
        BY <2>1, <2>2 DEF Counts
<1>. QED
    BY <1>2, <1>3, PTL

(* The test being classified has no result yet: every stored result is at *)
(* a position before the current one, and positions name distinct keys.   *)
LEMMA FreshKey ==
    ASSUME IInv, Visited, pc = "ran"
    PROVE  Key(ri, ti) \notin DOMAIN result
<1>1. ri \in 1..NR /\ ti \in 1..NT(ri)
    BY DEF IInv, TypeOK
<1> SUFFICES ASSUME Key(ri, ti) \in DOMAIN result PROVE FALSE
    OBVIOUS
<1>2. PICK i \in 1..NR : \E j \in 1..NT(i) : Key(ri, ti) = Key(i, j) /\ Before(i, j, ri, ti)
    BY DEF Visited
<1>3. PICK j \in 1..NT(i) : Key(ri, ti) = Key(i, j) /\ Before(i, j, ri, ti)
    BY <1>2
<1>4. ri = i /\ ti = j
    BY <1>1, <1>3, KeyInjective
<1>. QED
    BY <1>3, <1>4 DEF Before

(* A step keeps every recorded verdict.                                    *)
LEMMA ResultsFinalStep ==
    ASSUME IInv, Visited, [Next]_vars
    PROVE  [\A k \in DOMAIN result : k \in DOMAIN result' /\ result'[k] = result[k]]_vars
<1>1. CASE Classify
  <2>1. PICK v : result' = Store(result, Key(ri, ti), v)
    BY <1>1 DEF Classify
  <2>2. Key(ri, ti) \notin DOMAIN result
    BY <1>1, FreshKey DEF Classify
  <2>. QED
    BY <2>1, <2>2 DEF Store
<1>2. CASE Skip \/ RunTest \/ Abort \/ NextRubric \/ Return \/ Summarize
            \/ Terminated \/ UNCHANGED vars
  <2>1. UNCHANGED result
    BY <1>2 DEF Skip, RunTest, Abort, NextRubric, Return, Summarize, Terminated, vars
  <2>. QED
    BY <2>1
<1>. QED
    BY <1>1, <1>2 DEF Next

(* Once grade() records a test's verdict (line 497), neither grade() nor  *)
(* summarize() ever removes or changes it: no test is judged twice.       *)
THEOREM ResultsFinalProperty == Spec => ResultsFinal
<1>1. Init => RanSelected /\ Visited
    BY DEF Init, RanSelected, Visited
<1>2. Spec => [](IInv /\ RanSelected /\ Visited)
    BY <1>1, InitIInv, NextIInv, RanSelectedStep, VisitedStep, PTL DEF Spec
<1>3. IInv /\ Visited /\ [Next]_vars
        => [\A k \in DOMAIN result : k \in DOMAIN result' /\ result'[k] = result[k]]_vars
    BY ResultsFinalStep
<1>. QED
    BY <1>2, <1>3, PTL DEF Spec, ResultsFinal
====
