# Formal models of the KeOS grading harness

These modules model `src/keos-projects/.cargo/run.py`, the script behind `cargo run` and `cargo grade` in every `keos-project<N>/grader` directory. They are written in TLA+. TLC checks them on small instances, and TLAPS proves the main grading invariants for every instance.

## 1. The system

`run.py` has three modes, chosen in `main()` (lines 551-612):

* **`cargo grade`**: `check_whitelist_compliance()` runs first. Then `grade(pj, cmd, rubrics)` runs with `filt = None`, and `summarize()` prints the scores.
* **filtered mode**: this is `cargo run <tests...>` for project 5, or with no names. `grade()` runs with `filt = argv[2:]`, which may be the empty list. There is no integrity check and no summary, and output is streamed live.
* **`cargo run`** for the other projects: the emulator is booted once, through `os.execvp`.

Its parts, leaf first. Each name is the component name used in `PROJECT.json` and `spec.md`.

| Part | Code | Interacts with |
|---|---|---|
| IgnoreFilter | `is_ignored` 65-105 | called by the scanner on every directory and file |
| WhitelistResolver | `get_project_whitelist`, `build_cumulative_whitelist` 115-151 | gives the scanner its exempt set |
| FileHasher | `get_file_hash` 107-113 | called by the scanner on both copies of a file |
| TemplateSynchronizer | `ensure_template_freshness` 248-289 | resets `.cargo/template` before the scan |
| IntegrityScanner | `check_directory_integrity` 153-246, `check_three_directory_integrity` 291-311, `check_whitelist_compliance` 313-356 | writes the working tree in override mode |
| ProcessSupervisor | `grade_single` 409-449 | runs the emulator; its output goes to grade |
| GradingEngine | `grade` 452-499 | produces `grading_result` |
| ScoreAggregator | `summarize` 501-534 | consumes `grading_result` |
| Launcher | `main`, `run`, `make_run_command`, `setup_kernel_arguments`, `setup_gdb`, `find_qemu_pids` | dispatch and environment |

The harness is a single thread. Its concurrent actors are the emulator process and any other grader or emulator on the machine. In live mode it writes into a pipe that the harness drains with `poll()` and `readline()`. The only persistent effects are the restored files and the refreshed template.

## 2. Modules and how they follow the code

### `Grading.tla`: GradingEngine and ScoreAggregator

`Grading.tla` models `grade()`, the dispatch in `main()` and `summarize()`.

**Constants:**
* `Rubrics` is the sequence of rubric names, in dict order.
* `Tests[r]` is the sequence of test names of rubric `r`.
* `Hooked` is the set of tests whose `post-hook` is a list.
* `Filters` is the set of `filt` values that `main()` can pass: `None`, the empty set or a set of names.

A transcript is abstracted to the set of markers the code looks for:
* the success marker;
* `'panic'`;
* the `POST-HOOK ... Failed` text that grade appends.

**Variables:**
* `ri` and `ti` are the two loop indices.
* `pc` is the control point.
* `out` is the last transcript.
* `result` is `grading_result`, flattened to `<<rubric, test>>` keys.
* `summary` is the pair of counts `summarize()` prints.

**Actions:**

| Action | Code |
|---|---|
| `Skip` | line 465, the `continue` |
| `RunTest` | line 471: the blocking or live call, with its result chosen from the transcripts `grade_single` can return, `'timeout'` included |
| `Abort` | lines 473-474 |
| `Classify` | lines 472 and 476-497: marker test, post-hook with exit 0, non-zero or raise, then the store |
| `NextRubric` | the outer loop |
| `Return` | line 499 and main 605-610: only grade mode goes on to `summarize()` |
| `Summarize` | lines 501-534, including the ZeroDivisionError of line 521 as the state `"crashed"` |

### `LiveCapture.tla`: the live branch of ProcessSupervisor

This module models lines 412-434 and 447-449.

**Harness actions:**
* `Launch` and `LaunchFails` model `Popen`.
* `PollRunning` and `PollExited` model the loop test `p.poll() == None`, then `decode` and its exception.
* `ReadLine` models lines 425-431: a clear line resets the buffer and is not echoed.
* `ReadEOF` models `readline()` returning `b''`.

**Emulator actions:** `Emit(l)` writes a line into a pipe of `PipeCapacity` lines, and blocks when the pipe is full. `Exit` ends the process.

A line is abstracted to its kind: clear, marker, plain, or not UTF-8.

`Read` is the prefix of the history that the harness has taken out of the pipe. `LastClear(s)` is the position of the last clear line of `s`, or 0 when there is none. It is a `CHOOSE` over `IsLastClear`, which is the same value as `SelectLastInSeq` of the community modules. The module extends only `Naturals` and `Sequences`, and defines its own `Contains`, so that the proofs can use it: `SequencesExt` reaches recursive operators.

### `LiveStream.tla`: what the live capture promises

This is an abstract specification with no pipe and no poll loop. The emulator writes lines (`Write`) and stops (`Stop`). The harness is given the next unread line (`Deliver`). A clear restarts the accumulation; any other line is mirrored to the console and accumulated. The console is stated as the code keeps it: a clear is not mirrored (line 428). Spec section 8 says instead that everything is mirrored unconditionally (see section 3). It returns (`Return`) only after the emulator has stopped. Lines still unread when it returns are not promised: the code does lose them (see `live_marker_lost`).

`LiveCapture` instantiates it as `Abstract` with this refinement mapping:
* `consumed` is mapped to `Read`;
* `phase` is mapped to `Phase`, which is `idle` before `Launch`, `returned` at `done`, and `live` otherwise.

Each concrete step then maps to an abstract step:
* `ReadLine` is a `Deliver`.
* `PollExited` is a `Return`.
* `Emit` is a `Write`.
* `Exit` is a `Stop`.
* `Launch` and `LaunchFails` are `Start` and `StartFails`.
* `PollRunning` and `ReadEOF` are stutters.

The property `ImplementsLiveStream == Abstract!Spec` includes the abstract fairness. It is checked in the `live_capture` run.

### `Launcher.tla`: main() as one of several graders

This module models graders `g` in one grader directory. Their state is kept per process, in `gpc[g]` and the test index `tix[g]`. Their actions, in order:
1. `CheckQemu` models `find_qemu_pids` at lines 564-570, which refuses to start while any emulator runs.
2. `Prepare` models the rmtree of `grub_files` at lines 572-575.
3. `WriteCfg` models `setup_kernel_arguments` writing `grub.cfg` at lines 359-372.
4. `MkRescue` models the grub-mkrescue rebuild at lines 374-378. `MkRescueFails` is that step failing, with its exit status unchecked.
5. `Boot` models the emulator starting on `kernel.iso`.
6. `Finish` models the end of one test in the loop of `grade()`.

The shared files `grubcfg` and `iso` are abstracted to the kernel argument they carry. `foreign` is an emulator of another checkout, which starts and stops at will.

`disturbed[g]` is an observation variable, not program state. `WriteCfg(g)` clears it for `g`. It is set when one of two things happens:
* another grader removes or rewrites `grub.cfg` while `g` is about to run grub-mkrescue, or rebuilds `kernel.iso` while `g` is about to boot it (operator `Disturb`);
* `g`'s own grub-mkrescue fails.

`Spec` has no fairness, because no `Launcher` property is about liveness.

### `IgnoreFilter.tla`: IgnoreFilter

`IsIgnored` is `is_ignored` on real path strings. The module also defines the Python string operations that `is_ignored` and the scanner use:
* `in`, `startswith`, `endswith`;
* `Path.name`;
* `str.replace`;
* `int()` on a digit string.

The module holds only pure operators. Its recursion is written as recursive functions.

### `Whitelist.tla`: WhitelistResolver

* `ProjectWhitelist(k)` is the declared list of stage `k`, or `{}` when `.grade-target` is missing or not JSON.
* `CumulativeWhitelist(n)` is the union over `1..n`.

### `IntegrityScanner.tla`: IntegrityScanner, with TemplateSynchronizer and FileHasher abstracted

**Representation:**
* A file is the sequence of its path segments below the repository root.
* Contents are small values, and equal hashes are equal contents.
* `RootPath` is the absolute checkout location, because `is_ignored` sees absolute paths.

**Actions:**

| Action | Code |
|---|---|
| `Sync` and `SyncFails` | `ensure_template_freshness`, as one atomic step |
| `VisitDir` | one iteration of `os.walk`: the pruning of 167-185 and the file loop of 187-225 |
| `EndWalk` | the end of the walk |
| `Handle` | one violation in warn, override or any other mode (231-240) |
| `RestoreFails` | the fail-fast `sys.exit(1)` of 241-244 |
| `EndDir` | 246 and 302-309 |
| `Summary` | 346-356 |
| `Rerun` | the operator running `cargo grade` again |

The walk visits directories in any order, as the file system returns them.

### The proof modules

`GradingProofs.tla`, `LiveCaptureProofs.tla`, `IntegrityScannerProofs.tla`, `LauncherProofs.tla` and `WhitelistProofs.tla` hold the theorems (section 5). Each extends the module it is about, and no other module extends them.

## 3. Runs

Every run is listed in `PROJECT.json`. All passing runs finish in seconds.

### Passing runs

**`grading`** (`MC_Grading`, 6168 states). It uses:
* two rubrics that share the test name `t1`;
* one hooked test per rubric;
* the filters `None`, `{}`, `{"t1"}` and `{"t3"}`.

It checks these properties:
* **`PassNeedsMarker`**: a pass needs the marker in the test's own transcript.
* **`ResultsAreVisitedSelected`**: the results are exactly the selected tests already visited, in rubric order.
* **`AbortOnlyOnPanic`**: an abort happens only in filtered mode, just after a panicking transcript, and leaves that test without a result.
* **`SummaryCountsAll`**: in grade mode the printed counts cover every configured test.
* **`ResultsFinal`** (action property): no step removes or changes a verdict already stored. With the shared name `t1`, this fails if line 497 stores by test name alone.

The shared name makes the filter select tests in both rubrics. The hooks cover all three hook outcomes.

**`live_capture`** (`MaxLines = 4`, `PipeCapacity = 2`, 5087 states). Four lines are enough for a clear between two markers. A pipe of two is enough for lines to be still buffered when the emulator exits.

It checks these properties:
* **`CaptureAfterLastClear`**: the pipe is FIFO, and the buffer and the returned text are the lines read after the last clear.
* **`ExitedReturns`** (liveness): once the emulator has exited, `grade_single` returns.
* **`ImplementsLiveStream`** (refinement): the loop implements `LiveStream` under the mapping above. It shows four things:
  * every line the harness takes is the next one the emulator wrote;
  * the buffer and the console change only as a delivery says;
  * the harness never returns while the emulator runs;
  * the harness does return whenever the abstract one must.

**`launcher`** (`MC_Launcher`, 1658 states). It runs a `cargo grade` of two tests and a `cargo run` in one grader directory. A stale `kernel.iso` may be on disk, grub-mkrescue may fail, and a foreign emulator may start and stop. Two graders are the fewest that can disturb each other. It checks one property:
* **`OwnTestUnlessDisturbed`**: an emulator boots its grader's current test unless, between that grader's write of `grub.cfg` and its boot, another grader replaced a boot file, or its own grub-mkrescue failed. No stale image, foreign emulator or finished run can cause a wrong boot.

**`integrity`** (222 states). It uses nine files. Between them they are drifted, stale in the local template, ignored, whitelisted through the cumulative list, out of stage, or new. It covers the modes `warn`, `override` and `restore`, and two invocations. In the first scan `found = {F1, K1, P2, P5}`.

It checks these properties:
* **`ScanFindsExactlyDrift`**: the violations of a directory are the files that spec 4.4 calls violations. The spec reading is computed on repository-relative paths, directly from the spec's words.
* **`WalkListsReached`**: once the walk ends, the violations listed are exactly the violating files whose every proper ancestor directory survives the pruning of lines 167-185. Pruning must be done in place (`dirs[:] = ...`) for `os.walk` to honour it.
* **`RestoresOnlyViolations`**: only violations are written, and only in override mode.
* **`RestoreIdempotent`**: a second run after override finds nothing.

### Violation runs

Each violation run records a finding in `PROJECT.json`:

| Run | What it shows | Line |
|---|---|---|
| `grading_empty_rubric` | a rubric with no tests crashes `summarize()` | 521 |
| `grading_abort_empty_filter` | a panic aborts a project-5 run that has an empty filter | 473 |
| `live_marker_lost` | the poll/read race drops lines left in the pipe, the marker included | 424 |
| `live_marker_returned` | a non-UTF-8 byte turns a passing transcript into `'timeout'` | 434 |
| `ignore_rootfs_pruning` | the rootfs exceptions are dead code under `os.walk` pruning | 185 |
| `launcher_two_graders` | two graders both pass the qemu check, and one rewrites `grub.cfg` under the other | 564 |
| `integrity_build_root` | a checkout under `/srv/build/` is entirely ignored | 171 |
| `integrity_stage_suffix` | `keos-project-common` is skipped, not descended into | 178 |

Three more disagreements with the spec have no run of their own:
* **A failed grub-mkrescue (line 374).** `BootsOwnTest` also fails with one grader when `MkRescueMayFail = TRUE`, because the previous `kernel.iso` stays and boots another test's arguments. The hazard at line 374 records this. `OwnTestUnlessDisturbed` shows that this and a second grader are the only two causes.
* **Clear lines are not echoed (line 428).** The code never echoes them to the console, while spec section 8 says everything is mirrored unconditionally. The model follows the code, and no property is stated about the console.
* **`KEOS_FILE_CHECK=restore` (line 356).** The summary prints a restoration that never happened. The hazard at line 356 records this. The `integrity` run includes this mode, so `RestoresOnlyViolations` shows that it writes nothing.

### Mutants

Each property of a passing run has a mutant, defined next to the action it replaces. A mutant is a plausible bug that the property catches:
* a dropped `filt != []`;
* abort in any mode;
* a hook that runs on failures;
* a verdict stored by test name only, not per rubric (`ClassifyFlatKey`, for `TypeOK`);
* counting only the last rubric;
* no decode;
* no reset on clear;
* ignoring `poll()`;
* `<` in place of `<=`;
* a copy in any mode;
* swapped copy arguments;
* the rubric's dict re-created before each of its tests (`ClassifyResetRubric`, for `ResultsFinal`);
* a loop that returns at the first poll (`PollExitedAnyTime`);
* grub-mkrescue started without waiting for it, so the emulator may boot the old image (`MkRescueDetached`);
* a pruned list bound to a new name (`dirs = [...]`) so that `os.walk` prunes nothing (`VisitDirNoPrune`).

## 4. Fairness

Only `LiveCapture` has liveness properties. Its `Spec` has weak fairness on the harness's own steps, because the harness is a single thread that is never descheduled forever. The emulator gets no fairness: it may hang, and live mode has no timeout. `ExitedReturns` therefore speaks only of runs in which the emulator has exited. The abstract `LiveStream` likewise has fairness only on `Start`, `StartFails` and `Return`, and none on `Deliver`, because the code may return with lines unread.

`Launcher` assumes no fairness. A grader can fail to end in three ways that the code does not bound:
* warn mode's `input()` at line 354;
* grub-mkrescue, which has no timeout (line 374);
* live mode, which has no timeout.

So no termination property is claimed for it.

## 5. Proofs

**`GradingProofs.tla`** proves five theorems for all constants satisfying `GradingAssumption`. Together they cover every property of the `grading` run:
* `TypeCorrect`: `Spec => []TypeOK`.
* `PassNeedsMarkerInvariant`: `Spec => []PassNeedsMarker`.
* `AbortOnlyOnPanicInvariant`: `Spec => []AbortOnlyOnPanic`.
* `ResultsAreVisitedSelectedInvariant`: `Spec => []ResultsAreVisitedSelected`.
* `SummaryCountsAllInvariant`: `Spec => []SummaryCountsAll`.

`TypeOK` is not inductive on its own, so the proofs use the inductive invariant `IInv`, which adds two conjuncts to `TypeOK`:
* A test being classified lies inside the rubric set (`pc = "ran" => ri <= NR /\ ti <= NT(ri)`). It is needed because `Classify` stores under `Key(ri, ti)`, which must be a key of the configuration.
* `DOMAIN result` is finite. It is needed because `Summarize` stores `Cardinality` of the results, and those counts must be naturals (`FS_AddElement`, `FS_Subset`, `FS_CardinalityType`).

`NextIInv` has one step per action. `PassNeedsMarker` is then preserved because `Classify` sets `passed` only when the marker is present, the post-hook can only veto, and no other action touches `result`.

`AbortOnlyOnPanicInvariant` (`Spec => []AbortOnlyOnPanic`) needs two more facts, because an abort must leave its test without a result:
* `Visited`: every stored key is `Key(i, j)` of a selected position strictly before `(ri, ti)`. Selection holds because of `RanSelected`: a transcript being classified is that of a selected test. It is preserved because `Classify` stores at `(ri, ti)` and then advances `ti`, `Skip` and `NextRubric` only advance, and nothing else moves the loops or touches `result`.
* `KeyInjective`: distinct positions give distinct keys. It follows from `GradingAssumption`, because dict keys are distinct.

Together they show that `Key(ri, ti)` is not yet stored when `Abort` fires. `ResultsAreVisitedSelected` is `Visited` together with its converse `Complete`: every selected position before `(ri, ti)` has its key stored. `Complete` is preserved for these reasons:
* `Skip` passes over an unselected test.
* `Classify` stores the position it passes.
* `NextRubric` leaves a rubric only when `ti > NT(ri)`, so every position of that rubric is already before `(ri, ti)`.

The two theorems use the inductive invariants `IInv /\ RanSelected /\ Visited /\ AbortOnlyOnPanic` and `IInv /\ RanSelected /\ Visited /\ Complete`. Once aborted, only the stuttering `Terminated` step applies.

`SummaryCountsAllInvariant` adds `Summarized`, which says two things:
* after `Return` the loops stand at `ri = NR + 1`;
* a finished grade-mode summary equals `Counts`, the counts over `DOMAIN result`.

At `ri = NR + 1` in grade mode, `Visited` and `Complete` make `DOMAIN result = Keys` (lemma `AllKeysStored`). `Counts` is then the count over the whole rubric set.

`ResultsFinalProperty` proves `Spec => ResultsFinal`, the action property that no step removes or changes a stored verdict. Its lemma `FreshKey` shows that while a transcript is being classified, `Key(ri, ti)` is not yet in `DOMAIN result`: by `Visited` every stored key is that of an earlier position, and by `KeyInjective` no earlier position has the same key. `Classify` therefore adds a new key and leaves the others alone, and every other action leaves `result` unchanged. The statement is proved from `[](IInv /\ RanSelected /\ Visited)` with `PTL`.

**`LiveCaptureProofs.tla`** proves three theorems for every `MaxLines` and every `PipeCapacity` allowed by `LiveCaptureAssumption`:
* `TypeCorrect`: `Spec => []TypeOK`.
* `CaptureAfterLastClearInvariant`: `Spec => []CaptureAfterLastClear`.
* `ImplementsLiveStreamSafety`: `Spec => Abstract!Init /\ [][Abstract!Next]_Abstract!avars`. This is the safety part of `ImplementsLiveStream`.

The inductive invariant `IInv` strengthens `TypeOK` and `CaptureAfterLastClear` with four facts:
* The pipe is no longer than the history, so `Read` is a sequence of length `Len(emitted) - Len(pipe)` (lemma `ReadType`).
* `LastClear(Read)` is a position of `Read` that satisfies `IsLastClear`. A `CHOOSE` says nothing unless a witness exists, and the witness cannot be found by induction, so the invariant carries it.
* `Read \o pipe = emitted`: the pipe is the unread suffix.
* Nothing is returned before the harness is done. `ReadLine` changes `output` while `ret` stays the same, so without this fact a returned text could go stale.

The step proof has one case per action, built from lemmas about sequences:
* `PrefixAfterWrite`: an `Emit` leaves `Read` unchanged.
* `PrefixAfterRead` and `ConcatShift`: a `ReadLine` appends the head of the pipe to `Read` and keeps `Read \o pipe = emitted`.
* `LastClearAppend`: the last clear moves to the new line when it is a clear line, and stays where it was otherwise.
* `SuffixAppend` and `EmptySuffix`: the lines after the last clear grow by the new line, or become empty at a clear.

The refinement proof maps each step as section 2 lists it:
* `ReadLineDelivers`: the head of the pipe is `emitted[Len(Read) + 1]` (lemma `ConcatNext`);
* `PollExitedReturns`, `EmitWrites` and `OtherStepsRefine` cover the other steps;
* `StepRefines` combines these lemmas, and `InitRefines` covers the initial state.

**`IntegrityScannerProofs.tla`** proves four theorems for every tree, template, remote tree, stage and mode set allowed by `IntegrityScannerAssumption`. The assumption says that paths are sequences of strings and that both templates map paths to contents.
* `TypeCorrect`: `Spec => []TypeOK`. The pending directories stay non-empty prefixes of files (lemmas `SubdirsInPrefixes` and `RootInPrefixes`). `TypeOK` is proved only, not checked in a run, because no plausible bug in this code takes a variable out of its type.
* `RestoresOnlyViolationsInvariant`: `Spec => []RestoresOnlyViolations`.

Its `IInv` adds six facts to `TypeOK`:
* the template is `Remote` from the end of `Sync` to the end of the invocation;
* `handled` is empty outside the handling phase;
* a new invocation starts with an empty `found[runs]`;
* every violation has a copy in `Remote`;
* in override mode every file found or handled so far holds its template contents;
* a claim is made only in a finished non-warn invocation (a fact about `Summary`, not about the truth of the claim: with `restore` the claim is false).

The proof does not depend on which files the walk finds. It rests on the order of `Sync`, `Handle` and `EndDir`, and holds across `RestoreFails` and `Rerun`.

Two more theorems rest on a second invariant `WInv`, proved inductive under `IInv` (`IInv /\ WInv /\ [Next]_vars => WInv'`):
* `WalkListsReachedInvariant`: `Spec => []WalkListsReached`.
* `RestoreIdempotentInvariant`: `Spec => []RestoreIdempotent`.

`KeepDir`, `IsViolation` and the whitelist depend on the current directory `di`. So the proof restates them per directory (`KeepDirAt(k, _)`, `ViolationAt(k, _)`), and lemma `AtCurrentDir` identifies them with the originals at `k = di`. `WInv` says:
* every pending directory is a kept path (`PendingKept`);
* every reached violating file is already listed or lies below a pending directory (`ViolationsCovered`);
* every listed file is reached and violating (`WalkSound`);
* nothing is pending while handling, and `viol` is empty after it;
* from the second invocation on the template stays `Remote` (`TemplateStays`);
* after an override run, every reached file of a handled directory holds its template contents (`HandledDirsClean`, `AllDirsClean`), so a rerun finds nothing (`RerunFindsNothing`).

The walk argument treats `KeepDir` and `IsViolation` as given predicates. It needs no fact about the string functions behind them: whatever they compute, the walk lists exactly the reached violations, and a restored file is no longer one.

**`WhitelistProofs.tla`** proves `CumulativeMonotone` (spec section 8): stage `N1 <= N2` implies `CumulativeWhitelist(N1) \subseteq CumulativeWhitelist(N2)`.

**`LauncherProofs.tla`** proves two theorems for all constants satisfying `LauncherAssumption`:
* `TypeCorrect`: `Spec => []TypeOK`. `TypeOK` is inductive as it stands. Every test index stays within its grader's work, because `Finish` advances it only while it is below `Len(Work[g])`.
* `OwnTestUnlessDisturbedInvariant`: `Spec => []OwnTestUnlessDisturbed`, for any graders and tests, whether or not grub-mkrescue may fail. The inductive invariant is `TypeOK /\ OwnFiles`. `OwnFiles` says what each grader `g` with `~disturbed[g]` can rely on:
  * while it is about to run grub-mkrescue, `grub.cfg` holds its current test's arguments;
  * while it is about to boot, `kernel.iso` holds them;
  * while it runs, its emulator booted them.

  A step of another grader that replaces a file `g` relies on marks `g` disturbed (`Disturb`). Every other step, including a foreign emulator, `Finish` and `CheckQemu`, leaves those files alone or moves only its own grader out of these three states (lemma `OwnFilesOthers`). `TypeCorrect` is proved only, not checked in a run, for the reason given above.

**Only model-checked**, and why:
* **Liveness:** `ExitedReturns`, and the fairness part of `ImplementsLiveStream` (the `WF` of `LiveStream`). TLAPS cannot reason about fairness or `ENABLED` here.
* **`ScanFindsExactlyDrift`**: it compares the code's predicates with the spec's string-level reading through the recursive string functions of `IgnoreFilter` (`JoinPath`, `ReplaceAllStr`, `DecimalValue`). Their values over all inputs need the same induction. The walk part of it is proved as `WalkListsReached`.
* **`BootsOwnTest`**: it is false (`launcher_two_graders`, line 374). What is proved instead is `OwnTestUnlessDisturbed`, which names the two causes.

## 6. Not modelled

* **The blocking branch of `grade_single`.** Its timeout, and its capture through `subprocess.run`, are the nondeterministic transcript of `RunTest`.
* **The floating-point scores and the printed report.**
* **The four git commands of the template sync, one by one.** The sync is atomic in the model.
* **`get_file_hash` returning `None` for unreadable files.**
* **The parts of `main` that are process and file I/O:**
  * the usage and grader-directory checks;
  * the kernel copy and move (lines 576-577);
  * the gdb setup;
  * SIGINT;
  * CPU detection;
  * the last-digit parse of `pj`.

These are listed as hazards with a note.

## 7. Plan for further work

1. The kernel move at line 577 in `Launcher`, where a second grader would crash.
2. A composition in which `Grading`'s `RunTest` is refined by `LiveCapture` in filtered mode.
3. The template sync as four steps, with a partial failure.
4. A reference check of `IsIgnored` against the rules of spec 4.1. The code's `.o` substring test ignores a path such as `a.orig/x`, where the spec has a suffix test.
5. Lines as short byte strings rather than kinds, so that a line holding ESC c followed by the marker (hazard at line 426) can be checked.
