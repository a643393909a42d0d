-------------------------- MODULE IntegrityScanner --------------------------
(***************************************************************************)
(* The pre-grading integrity check of .cargo/run.py: check_whitelist_     *)
(* compliance() (lines 313-356) calls check_three_directory_integrity()    *)
(* (291-311), which refreshes the reference tree .cargo/template with      *)
(* ensure_template_freshness() (248-289) and then, for fs, keos and        *)
(* keos-projects in turn, runs check_directory_integrity() (153-246): an   *)
(* os.walk that prunes ignored and out-of-stage directories, compares the  *)
(* SHA-256 of every remaining file with its counterpart in the template,   *)
(* and then reports ('warn') or restores ('override') each mismatch, and   *)
(* exits the process on the first failed restoration.                      *)
(*                                                                         *)
(* A path is the sequence of its segments below the repository root; the  *)
(* first segment is the checked directory.  File contents are values of a *)
(* small set, and equal hashes are equal contents.  The operator may run   *)
(* the grader again after a completed check (MaxInvocations).              *)
(***************************************************************************)
EXTENDS Naturals, Sequences, FiniteSets, TLC, IgnoreFilter, Whitelist

CONSTANTS
    RootPath,        \* absolute path of the repository root, a string
    Files,           \* the files of the working tree, as segment sequences
    WorkInit,        \* their contents when the grader starts
    TmplLocal,       \* the template tree before it is refreshed (a function)
    Remote,          \* the template tree at origin/main (a function)
    Stage,           \* the project number parsed from keos-project<N>/grader
    Modes,           \* the values KEOS_FILE_CHECK may take
    MaxInvocations   \* bound on the grader runs the operator starts

CHECKED_DIRECTORIES == <<"fs", "keos", "keos-projects">>

ASSUME IntegrityScannerAssumption ==
    /\ RootPath \in STRING
    /\ Files \subseteq Seq(STRING)
    /\ WorkInit \in [Files -> STRING]
    /\ TmplLocal \in [DOMAIN TmplLocal -> STRING]
    /\ Remote \in [DOMAIN Remote -> STRING]
    /\ \A p \in Files : Len(p) >= 1
    /\ Stage \in Nat \ {0}
    /\ Modes \subseteq STRING /\ Modes # {}
    /\ MaxInvocations \in Nat \ {0}

VARIABLES
    work,      \* contents of the working tree
    tmpl,      \* contents of the template tree
    mode,      \* KEOS_FILE_CHECK (default 'warn')
    phase,     \* "sync" | "walk" | "handle" | "summary" | "done" | "exited"
    di,        \* index in CHECKED_DIRECTORIES of the directory being checked
    pending,   \* directories os.walk has still to yield
    viol,      \* violations of the directory being checked
    handled,   \* those already reported or restored
    found,     \* found[i]: the violations the i-th invocation returned
    claim,     \* the summary said 'N file(s) restored to original versions'
    runs       \* number of grader invocations so far

vars == <<work, tmpl, mode, phase, di, pending, viol, handled, found, claim, runs>>

Dir == CHECKED_DIRECTORIES[di]
(* The scanned project number and whitelist: the real ones only for       *)
(* keos-projects, 0 and [] for fs and keos (line 306).                     *)
ScanStage == IF Dir = "keos-projects" THEN Stage ELSE 0
ScanWhitelist == IF Dir = "keos-projects" THEN CumulativeWhitelist(Stage) ELSE {}

(* str(path) of a path below the repository root, as is_ignored sees it.   *)
AbsStr(p) == RootPath \o "/" \o JoinPath(p)
(* str(rel_path): the path relative to the checked directory.              *)
RelStr(p) == JoinPath(SubSeq(p, 2, Len(p)))

IsPrefixOf(d, p) == Len(d) < Len(p) /\ SubSeq(p, 1, Len(d)) = d
FilesIn(d) == {p \in Files : IsPrefixOf(d, p) /\ Len(p) = Len(d) + 1}
SubdirsOf(d) == {SubSeq(p, 1, Len(d) + 1) : p \in {q \in Files : IsPrefixOf(d, q) /\ Len(q) > Len(d) + 1}}

(* Mutant: the stage test of line 176 excludes the current project.       *)
KeepDirBelowStage(sd) ==
    LET name == sd[Len(sd)]
        num  == ReplaceAllStr(name, "keos-project", "")
    IN  /\ ~IsIgnored(AbsStr(sd))
        /\ (Dir = "keos-projects" /\ ScanStage > 0 /\ StartsWith(name, "keos-project"))
              => (IsDecimal(num) /\ DecimalValue(num) < ScanStage)

(* Lines 167-185: whether os.walk descends into the subdirectory sd.  In   *)
(* keos-projects a 'keos-project*' directory is kept only if the rest of   *)
(* its name parses as a number <= N; one that does not parse is dropped.   *)
KeepDir(sd) ==
    LET name == sd[Len(sd)]
        num  == ReplaceAllStr(name, "keos-project", "")
    IN  /\ ~IsIgnored(AbsStr(sd))
        /\ (Dir = "keos-projects" /\ ScanStage > 0 /\ StartsWith(name, "keos-project"))
              => (IsDecimal(num) /\ DecimalValue(num) <= ScanStage)

(* Lines 193-204: a file under keos-project<k>/, k <= N, whose path with   *)
(* every 'keos-project<k>/' removed is in the cumulative whitelist.        *)
Whitelisted(p) ==
    /\ Dir = "keos-projects"
    /\ \E k \in 1..ScanStage :
         LET prefix == "keos-project" \o ToString(k) \o "/"
         IN  /\ StartsWith(RelStr(p), prefix)
             /\ ReplaceAllStr(RelStr(p), prefix, "") \in ScanWhitelist

(* Lines 188-225: a visited file is a violation when it is not ignored,    *)
(* not whitelisted, has a counterpart in the template and the hashes       *)
(* differ.                                                                 *)
IsViolation(p) ==
    /\ ~IsIgnored(AbsStr(p))
    /\ ~Whitelisted(p)
    /\ p \in DOMAIN tmpl
    /\ work[p] # tmpl[p]

Init ==
    /\ work = WorkInit
    /\ tmpl = TmplLocal
    /\ mode \in Modes
    /\ phase = "sync"
    /\ di = 1
    /\ pending = {}
    /\ viol = {}
    /\ handled = {}
    /\ found = <<{}>>
    /\ claim = FALSE
    /\ runs = 1

(* Lines 260-282: git reset --hard, clean -fd, fetch, reset --hard         *)
(* origin/main all succeed: the template is the remote tree.               *)
Sync ==
    /\ phase = "sync"
    /\ tmpl' = Remote
    /\ phase' = "walk"
    /\ di' = 1
    /\ pending' = IF \E p \in Files : p[1] = CHECKED_DIRECTORIES[1]
                     THEN {<<CHECKED_DIRECTORIES[1]>>} ELSE {}
    /\ UNCHANGED <<work, mode, viol, handled, found, claim, runs>>

(* Lines 252-258 and 284-289: the template is missing, not a git           *)
(* repository, or a git command fails: the process exits.                  *)
SyncFails ==
    /\ phase = "sync"
    /\ phase' = "exited"
    /\ UNCHANGED <<work, tmpl, mode, di, pending, viol, handled, found, claim, runs>>

(* Mutant: the filtered list is bound to a new name (dirs = [...]) instead *)
(* of assigned in place (dirs[:] = ...), so os.walk prunes nothing.        *)
VisitDirNoPrune ==
    /\ phase = "walk"
    /\ \E d \in pending :
         /\ pending' = (pending \ {d}) \cup SubdirsOf(d)
         /\ viol' = viol \cup {p \in FilesIn(d) : IsViolation(p)}
    /\ UNCHANGED <<work, tmpl, mode, phase, di, handled, found, claim, runs>>

(* Lines 165-225: os.walk yields directory d; its subdirectories are       *)
(* filtered in place and its files compared.                               *)
VisitDir ==
    /\ phase = "walk"
    /\ \E d \in pending :
         /\ pending' = (pending \ {d}) \cup {sd \in SubdirsOf(d) : KeepDir(sd)}
         /\ viol' = viol \cup {p \in FilesIn(d) : IsViolation(p)}
    /\ UNCHANGED <<work, tmpl, mode, phase, di, handled, found, claim, runs>>

(* The walk of the directory is over: lines 227-229 start on the list.     *)
EndWalk ==
    /\ phase = "walk"
    /\ pending = {}
    /\ phase' = "handle"
    /\ handled' = {}
    /\ UNCHANGED <<work, tmpl, mode, di, pending, viol, found, claim, runs>>

(* Mutant: the file is copied whatever the mode (line 236 dropped).       *)
HandleAnyMode ==
    /\ phase = "handle"
    /\ \E p \in viol \ handled :
         /\ work' = [work EXCEPT ![p] = tmpl[p]]
         /\ handled' = handled \cup {p}
    /\ UNCHANGED <<tmpl, mode, phase, di, pending, viol, found, claim, runs>>

(* Mutant: shutil.copy2 with its arguments swapped: the working file is    *)
(* copied over the template.                                               *)
HandleSwappedCopy ==
    /\ phase = "handle"
    /\ \E p \in viol \ handled :
         /\ IF mode = "override" THEN tmpl' = [tmpl EXCEPT ![p] = work[p]] ELSE UNCHANGED tmpl
         /\ handled' = handled \cup {p}
    /\ UNCHANGED <<work, mode, phase, di, pending, viol, found, claim, runs>>

(* Lines 231-240: one violation is printed ('warn'), copied back from the  *)
(* template with shutil.copy2 ('override'), or, for any other mode,        *)
(* passed over.  os.walk's order is the file system's, so any unhandled    *)
(* violation may come next.                                                *)
Handle ==
    /\ phase = "handle"
    /\ \E p \in viol \ handled :
         /\ work' = IF mode = "override" THEN [work EXCEPT ![p] = tmpl[p]] ELSE work
         /\ handled' = handled \cup {p}
    /\ UNCHANGED <<tmpl, mode, phase, di, pending, viol, found, claim, runs>>

(* Lines 241-244: the copy raises; the process exits at once, leaving the  *)
(* files restored so far restored.                                         *)
RestoreFails ==
    /\ phase = "handle"
    /\ mode = "override"
    /\ viol \ handled # {}
    /\ phase' = "exited"
    /\ UNCHANGED <<work, tmpl, mode, di, pending, viol, handled, found, claim, runs>>

(* Lines 246 and 302-309: the directory's violations are returned; the     *)
(* next directory is checked, or the summary follows.                      *)
EndDir ==
    /\ phase = "handle"
    /\ handled = viol
    /\ found' = [found EXCEPT ![runs] = @ \cup viol]
    /\ viol' = {}
    /\ handled' = {}
    /\ IF di < Len(CHECKED_DIRECTORIES)
          THEN /\ di' = di + 1
               /\ phase' = "walk"
               /\ pending' = IF \E p \in Files : p[1] = CHECKED_DIRECTORIES[di + 1]
                                THEN {<<CHECKED_DIRECTORIES[di + 1]>>} ELSE {}
          ELSE /\ phase' = "summary"
               /\ UNCHANGED <<di, pending>>
    /\ UNCHANGED <<work, tmpl, mode, claim, runs>>

(* Lines 346-356: with violations, 'warn' waits for the operator to press  *)
(* enter; every other mode prints that the files were restored.            *)
Summary ==
    /\ phase = "summary"
    /\ claim' = (found[runs] # {} /\ mode # "warn")
    /\ phase' = "done"
    /\ UNCHANGED <<work, tmpl, mode, di, pending, viol, handled, found, runs>>

(* The operator runs 'cargo grade' again on the same working tree.         *)
Rerun ==
    /\ phase = "done"
    /\ runs < MaxInvocations
    /\ runs' = runs + 1
    /\ found' = Append(found, {})
    /\ phase' = "sync"
    /\ claim' = FALSE
    /\ UNCHANGED <<work, tmpl, mode, di, pending, viol, handled>>

Finished == phase \in {"done", "exited"} /\ UNCHANGED vars

Next ==
    \/ Sync \/ SyncFails \/ VisitDir \/ EndWalk \/ Handle \/ RestoreFails
    \/ EndDir \/ Summary \/ Rerun \/ Finished

Spec == Init /\ [][Next]_vars

-----------------------------------------------------------------------------
(* Type invariant.                                                          *)
TypeOK ==
    /\ work \in [Files -> STRING]
    /\ DOMAIN tmpl \in {DOMAIN TmplLocal, DOMAIN Remote}
    /\ \A p \in DOMAIN tmpl : tmpl[p] \in STRING
    /\ mode \in Modes
    /\ phase \in {"sync", "walk", "handle", "summary", "done", "exited"}
    /\ di \in 1..Len(CHECKED_DIRECTORIES)
    /\ pending \subseteq UNION {{SubSeq(p, 1, i) : i \in 1..Len(p)} : p \in Files}
    /\ viol \subseteq Files /\ handled \subseteq viol
    /\ runs \in 1..MaxInvocations
    /\ found \in [1..runs -> SUBSET Files]
    /\ claim \in BOOLEAN

(* The path relative to the repository root, as a string.                  *)
RepoStr(p) == "/" \o JoinPath(p)
StagePrefix == "keos-project"

(* Spec 4.4: a file is in scope when neither it nor a directory above it   *)
(* is ignored, and no directory above it is a stage directory numbered    *)
(* above N (a stage suffix that does not parse does not exclude).          *)
SpecInScope(p) ==
    /\ ~IsIgnored(RepoStr(p))
    /\ \A i \in 2..(Len(p) - 1) :
         LET a == SubSeq(p, 1, i)
             suffix == SubSeq(p[i], Len(StagePrefix) + 1, Len(p[i]))
         IN  /\ ~IsIgnored(RepoStr(a))
             /\ (p[1] = "keos-projects" /\ StartsWith(p[i], StagePrefix) /\ IsDecimal(suffix))
                   => DecimalValue(suffix) <= Stage

(* Spec 4.4: exempt iff, for some k in 1..N, the path starts with the      *)
(* stage prefix and the remainder is a whitelist entry verbatim.           *)
SpecExempt(p) ==
    /\ p[1] = "keos-projects"
    /\ \E k \in 1..Stage :
         LET prefix == StagePrefix \o ToString(k) \o "/"
         IN  /\ StartsWith(RelStr(p), prefix)
             /\ SubSeq(RelStr(p), Len(prefix) + 1, Len(RelStr(p))) \in CumulativeWhitelist(Stage)

SpecViolations(d) ==
    {p \in Files : /\ p[1] = d /\ SpecInScope(p) /\ ~SpecExempt(p)
                  /\ p \in DOMAIN tmpl /\ work[p] # tmpl[p]}

(* When the walk of a checked directory ends, its violation list is        *)
(* exactly the in-scope, non-exempt files that differ from the refreshed   *)
(* template: nothing ignored, whitelisted or out of stage is reported, and *)
(* no drifted file is missed (spec 4.4 and section 8).                     *)
ScanFindsExactlyDrift ==
    (phase = "handle" /\ handled = {}) =>
        /\ tmpl = Remote
        /\ viol = SpecViolations(Dir)

(* A file of the checked directory that os.walk reaches: every directory  *)
(* between the checked directory and the file passed the filter.          *)
Reached(p) ==
    /\ p[1] = Dir /\ Len(p) >= 2
    /\ \A i \in 2..(Len(p) - 1) : KeepDir(SubSeq(p, 1, i))

(* os.walk with the in-place pruning of lines 167-185 lists, when the walk *)
(* of a directory ends, exactly the violations among the files below the  *)
(* directories it kept: a pruned subtree is never entered, and every file  *)
(* of a kept directory is compared once.                                   *)
WalkListsReached ==
    (phase = "handle" /\ handled = {}) =>
        viol = {p \in Files : Reached(p) /\ IsViolation(p)}

(* Files reported in this or an earlier invocation.                        *)
Reported == (UNION {found[i] : i \in DOMAIN found}) \cup handled

(* Spec section 5: the check changes the working tree only in 'override'   *)
(* mode, only on files it reported, and only to their reference contents.  *)
RestoresOnlyViolations ==
    \A p \in Files : work[p] # WorkInit[p] =>
        /\ mode = "override"
        /\ p \in Reported
        /\ p \in DOMAIN Remote /\ work[p] = Remote[p]

(* Spec section 8: after a completed 'override' check, checking again      *)
(* finds no violation.                                                      *)
RestoreIdempotent ==
    (runs = 2 /\ phase \in {"summary", "done"} /\ mode = "override") => found[2] = {}

=============================================================================
