----------------------- MODULE IntegrityScannerProofs -----------------------
(***************************************************************************)
(* Proofs about the integrity check (IntegrityScanner.tla), for every     *)
(* working tree, template, remote tree, stage and mode set: the type       *)
(* invariant, that the check changes the working tree only by restoring   *)
(* reported files to their reference contents in 'override' mode, and     *)
(* that the 'restored' summary is true when the mode is one of the two    *)
(* documented ones, and that after a completed 'override' check a second *)
(* invocation finds nothing.  The last proof treats the pruning and the   *)
(* ignore and whitelist tests as given predicates; what exactly the walk  *)
(* finds (ScanFindsExactlyDrift) rests on the string operators of         *)
(* IgnoreFilter and is left to TLC.                                        *)
(***************************************************************************)
EXTENDS IntegrityScanner, SequenceTheorems, TLAPS

(* The directories os.walk can yield: the non-empty prefixes of the files. *)
Prefixes == UNION {{SubSeq(p, 1, i) : i \in 1..Len(p)} : p \in Files}

(* A directory os.walk yields is a non-empty sequence of path segments.    *)
LEMMA PrefixSeq ==
    ASSUME NEW d \in Prefixes
    PROVE  d \in Seq(STRING) /\ Len(d) >= 1
<1>1. PICK p \in Files : \E i \in 1..Len(p) : d = SubSeq(p, 1, i)
    BY DEF Prefixes
<1>2. PICK i \in 1..Len(p) : d = SubSeq(p, 1, i)
    BY <1>1
<1>3. p \in Seq(STRING)
    BY IntegrityScannerAssumption
<1>. QED
    BY <1>2, <1>3, SubSeqProperties

(* The subdirectories of a yielded directory are prefixes of files too.    *)
LEMMA SubdirsInPrefixes ==
    ASSUME NEW d \in Prefixes
    PROVE  SubdirsOf(d) \subseteq Prefixes
<1> SUFFICES ASSUME NEW q \in Files, IsPrefixOf(d, q), Len(q) > Len(d) + 1
             PROVE  SubSeq(q, 1, Len(d) + 1) \in Prefixes
    BY DEF SubdirsOf
<1>1. Len(d) \in Nat /\ q \in Seq(STRING)
    BY PrefixSeq, IntegrityScannerAssumption
<1>. QED
    BY <1>1 DEF Prefixes

(* A one-segment path is a sequence (stated for any set: the SMT backend *)
(* does not reduce <<c>> \in [1..1 -> STRING] itself).                     *)
LEMMA OneSeq ==
    ASSUME NEW S, NEW c \in S
    PROVE  <<c>> \in Seq(S) /\ Len(<<c>>) = 1 /\ <<c>>[1] = c
<1>1. <<c>> \in [1..1 -> S]
    OBVIOUS
<1>. QED
    BY <1>1, SeqDef, LenProperties

(* The first segment of a path, as a path.                                 *)
LEMMA FirstSegment ==
    ASSUME NEW S, NEW p \in Seq(S), Len(p) >= 1
    PROVE  SubSeq(p, 1, 1) = <<p[1]>>
<1>1. SubSeq(p, 1, 1) \in Seq(S) /\ Len(SubSeq(p, 1, 1)) = 1
      /\ SubSeq(p, 1, 1)[1] = p[1]
    BY SubSeqProperties
<1>2. <<p[1]>> \in Seq(S) /\ Len(<<p[1]>>) = 1 /\ <<p[1]>>[1] = p[1]
    BY ElementOfSeq, OneSeq
<1>3. \A i \in 1..Len(SubSeq(p, 1, 1)) : SubSeq(p, 1, 1)[i] = <<p[1]>>[i]
    BY <1>1, <1>2
<1>. QED
    BY <1>1, <1>2, <1>3, SeqEqual

(* The top of a checked directory that holds a file is a prefix.           *)
LEMMA RootInPrefixes ==
    ASSUME NEW c, \E p \in Files : p[1] = c
    PROVE  <<c>> \in Prefixes
<1>1. PICK p \in Files : p[1] = c
    OBVIOUS
<1>2. p \in Seq(STRING) /\ Len(p) >= 1
    BY IntegrityScannerAssumption
<1>3. SubSeq(p, 1, 1) = <<c>>
    BY <1>1, <1>2, FirstSegment
<1>4. 1 \in 1..Len(p)
    BY <1>2, LenProperties
<1>5. \E i \in 1..Len(p) : <<c>> = SubSeq(p, 1, i)
    BY <1>3, <1>4
<1>. QED
    BY <1>5 DEF Prefixes

(* Rerun: the list of what each invocation found grows by an empty entry.  *)
LEMMA FoundAppend ==
    ASSUME NEW n \in Nat, NEW f \in [1..n -> SUBSET Files]
    PROVE  /\ Append(f, {}) \in [1..n + 1 -> SUBSET Files]
           /\ \A i \in 1..n : Append(f, {})[i] = f[i]
           /\ Append(f, {})[n + 1] = {}
<1>0. f \in Seq(SUBSET Files)
    BY SeqDef
<1>1. f \in Seq(SUBSET Files) /\ Len(f) = n
    BY <1>0, LenProperties
<1>2. Append(f, {}) \in Seq(SUBSET Files) /\ Len(Append(f, {})) = n + 1
    BY <1>1, AppendProperties
<1>3. Append(f, {}) \in [1..n + 1 -> SUBSET Files]
    BY <1>2, LenProperties
<1>. QED
    BY <1>1, <1>3, AppendProperties

(* The inductive invariant.  Once the template is refreshed it is the     *)
(* remote tree for the rest of the invocation; nothing is marked handled   *)
(* outside the handling of a directory; an invocation starts with nothing  *)
(* found; every violation has a reference copy; in 'override' mode every  *)
(* file found or handled so far holds its reference contents; the summary *)
(* claims a restoration only at the end of a non-'warn' invocation.        *)
IInv ==
    /\ TypeOK
    /\ phase \in {"walk", "handle", "summary", "done"} => tmpl = Remote
    /\ phase \notin {"handle", "exited"} => handled = {}
    /\ phase = "sync" => found[runs] = {}
    /\ viol \subseteq DOMAIN Remote
    /\ RestoresOnlyViolations
    /\ mode = "override" => \A p \in found[runs] \cup handled : work[p] = tmpl[p]
    /\ claim => mode # "warn" /\ phase = "done"

(* The working tree, the templates and the pending directories keep their  *)
(* types through every step of the check.                                  *)
LEMMA NextTypeOK == IInv /\ [Next]_vars => TypeOK'
<1> SUFFICES ASSUME IInv, [Next]_vars PROVE TypeOK'
    OBVIOUS
<1>0. TypeOK
    BY DEF IInv
<1>a. Len(CHECKED_DIRECTORIES) = 3
    BY DEF CHECKED_DIRECTORIES
<1>1. CASE Sync
  <2>1. pending' \subseteq Prefixes
    <3>1. CASE \E p \in Files : p[1] = CHECKED_DIRECTORIES[1]
      BY <1>1, <3>1, RootInPrefixes DEF Sync
    <3>2. CASE ~\E p \in Files : p[1] = CHECKED_DIRECTORIES[1]
      BY <1>1, <3>2 DEF Sync
    <3>. QED
      BY <3>1, <3>2
  <2>2. tmpl' = Remote /\ di' = 1 /\ UNCHANGED <<work, mode, viol, handled, found, claim, runs>>
    BY <1>1 DEF Sync
  <2>3. DOMAIN tmpl' \in {DOMAIN TmplLocal, DOMAIN Remote}
        /\ \A p \in DOMAIN tmpl' : tmpl'[p] \in STRING
    BY <2>2, IntegrityScannerAssumption
  <2>4. phase' \in {"sync", "walk", "handle", "summary", "done", "exited"}
        /\ di' \in 1..Len(CHECKED_DIRECTORIES)
    BY <1>1, <1>a DEF Sync
  <2>. QED
    BY <1>0, <2>1, <2>2, <2>3, <2>4 DEF TypeOK, Prefixes
<1>2. CASE SyncFails
    BY <1>0, <1>2 DEF TypeOK, SyncFails
<1>3. CASE VisitDir
  <2>1. PICK d \in pending :
          /\ pending' = (pending \ {d}) \cup {sd \in SubdirsOf(d) : KeepDir(sd)}
          /\ viol' = viol \cup {p \in FilesIn(d) : IsViolation(p)}
    BY <1>3 DEF VisitDir
  <2>2. d \in Prefixes
    BY <1>0 DEF TypeOK, Prefixes
  <2>3. pending' \subseteq Prefixes
    BY <1>0, <2>1, <2>2, SubdirsInPrefixes DEF TypeOK, Prefixes
  <2>4. viol' \subseteq Files /\ handled \subseteq viol'
    BY <1>0, <2>1 DEF TypeOK, FilesIn
  <2>. QED
    BY <1>0, <1>3, <2>3, <2>4 DEF TypeOK, Prefixes, VisitDir
<1>4. CASE EndWalk
    BY <1>0, <1>4 DEF TypeOK, EndWalk
<1>5. CASE Handle
  <2>1. PICK p \in viol \ handled :
          /\ work' = IF mode = "override" THEN [work EXCEPT ![p] = tmpl[p]] ELSE work
          /\ handled' = handled \cup {p}
    BY <1>5 DEF Handle
  <2>2. tmpl = Remote /\ p \in DOMAIN Remote
    BY <1>5 DEF IInv, Handle
  <2>3. work' \in [Files -> STRING]
    BY <1>0, <2>1, <2>2, IntegrityScannerAssumption DEF TypeOK
  <2>. QED
    BY <1>0, <1>5, <2>1, <2>3 DEF TypeOK, Handle
<1>6. CASE RestoreFails
    BY <1>0, <1>6 DEF TypeOK, RestoreFails
<1>7. CASE EndDir
  <2>1. found' \in [1..runs -> SUBSET Files]
    BY <1>0, <1>7 DEF TypeOK, EndDir
  <2>2. CASE di < Len(CHECKED_DIRECTORIES)
    <3>1. pending' \subseteq Prefixes
      <4>1. CASE \E p \in Files : p[1] = CHECKED_DIRECTORIES[di + 1]
        BY <1>7, <2>2, <4>1, RootInPrefixes DEF EndDir
      <4>2. CASE ~\E p \in Files : p[1] = CHECKED_DIRECTORIES[di + 1]
        BY <1>7, <2>2, <4>2 DEF EndDir
      <4>. QED
        BY <4>1, <4>2
    <3>2. di' = di + 1 /\ phase' = "walk"
      BY <1>7, <2>2 DEF EndDir
    <3>. QED
      BY <1>0, <1>a, <1>7, <2>1, <2>2, <3>1, <3>2 DEF TypeOK, Prefixes, EndDir
  <2>3. CASE ~(di < Len(CHECKED_DIRECTORIES))
    <3>1. phase' = "summary" /\ UNCHANGED <<di, pending>>
      BY <1>7, <2>3 DEF EndDir
    <3>. QED
      BY <1>0, <1>7, <2>1, <3>1 DEF TypeOK, EndDir
  <2>. QED
    BY <2>2, <2>3
<1>8. CASE Summary
    BY <1>0, <1>8 DEF TypeOK, Summary
<1>9. CASE Rerun
  <2>1. runs \in Nat /\ found \in [1..runs -> SUBSET Files]
    BY <1>0 DEF TypeOK
  <2>2. found' \in [1..runs + 1 -> SUBSET Files]
    BY <1>9, <2>1, FoundAppend DEF Rerun
  <2>3. runs' \in 1..MaxInvocations /\ runs' = runs + 1
    BY <1>0, <1>9, IntegrityScannerAssumption DEF TypeOK, Rerun
  <2>4. found' \in [1..runs' -> SUBSET Files]
    BY <2>2, <2>3
  <2>5. UNCHANGED <<work, tmpl, mode, di, pending, viol, handled>>
        /\ phase' = "sync" /\ claim' = FALSE
    BY <1>9 DEF Rerun
  <2>. QED
    BY <1>0, <2>3, <2>4, <2>5 DEF TypeOK
<1>10. CASE Finished \/ UNCHANGED vars
    BY <1>0, <1>10 DEF TypeOK, Finished, vars
<1>. QED
    BY <1>1, <1>2, <1>3, <1>4, <1>5, <1>6, <1>7, <1>8, <1>9, <1>10 DEF Next

(* Handle: a violation is reported, or in 'override' mode copied back from *)
(* the refreshed template; it is then among the files reported.            *)
LEMMA HandleStep ==
    ASSUME IInv, Handle, TypeOK'
    PROVE  IInv'
<1>1. PICK p \in viol \ handled :
        /\ work' = IF mode = "override" THEN [work EXCEPT ![p] = tmpl[p]] ELSE work
        /\ handled' = handled \cup {p}
    BY DEF Handle
<1>2. tmpl = Remote /\ p \in DOMAIN Remote /\ phase = "handle"
      /\ UNCHANGED <<tmpl, mode, phase, di, pending, viol, found, claim, runs>>
    BY DEF IInv, Handle
<1>3. work \in [Files -> STRING] /\ p \in Files
    BY DEF IInv, TypeOK
<1>4. Reported \subseteq Reported' /\ p \in Reported'
    BY <1>1, <1>2 DEF Reported
<1>5. RestoresOnlyViolations'
  <2> SUFFICES ASSUME NEW q \in Files, work'[q] # WorkInit[q]
               PROVE  /\ mode' = "override" /\ q \in Reported'
                      /\ q \in DOMAIN Remote /\ work'[q] = Remote[q]
    BY DEF RestoresOnlyViolations
  <2>1. CASE mode = "override" /\ q = p
    BY <1>1, <1>2, <1>3, <1>4, <2>1
  <2>2. CASE ~(mode = "override" /\ q = p)
    <3>1. work'[q] = work[q]
      BY <1>1, <1>3, <2>2
    <3>. QED
      BY <1>2, <1>4, <3>1 DEF IInv, RestoresOnlyViolations
  <2>. QED
    BY <2>1, <2>2
<1>6. mode' = "override" => \A q \in found'[runs'] \cup handled' : work'[q] = tmpl'[q]
  <2> SUFFICES ASSUME mode = "override", NEW q \in found[runs] \cup handled \cup {p}
               PROVE  work'[q] = tmpl[q]
    BY <1>1, <1>2
  <2>1. CASE q = p
    BY <1>1, <1>3, <2>1
  <2>2. CASE q # p
    <3>1. q \in found[runs] \cup handled
      BY <2>2
    <3>2. work'[q] = work[q]
      BY <1>1, <1>3, <2>2
    <3>. QED
      BY <3>1, <3>2 DEF IInv
  <2>. QED
    BY <2>1, <2>2
<1>. QED
    BY <1>1, <1>2, <1>5, <1>6 DEF IInv

(* EndDir: the handled violations of the directory join what this         *)
(* invocation found; the handled set is emptied.                           *)
LEMMA EndDirStep ==
    ASSUME IInv, EndDir, TypeOK'
    PROVE  IInv'
<1>1. /\ phase = "handle" /\ handled = viol
      /\ found' = [found EXCEPT ![runs] = found[runs] \cup viol]
      /\ viol' = {} /\ handled' = {}
      /\ phase' \in {"walk", "summary"}
      /\ UNCHANGED <<work, tmpl, mode, claim, runs>>
    BY DEF EndDir
<1>2. found \in [1..runs -> SUBSET Files] /\ runs \in 1..MaxInvocations
    BY DEF IInv, TypeOK
<1>3. Reported' = Reported
  <2>1. DOMAIN found' = DOMAIN found
    BY <1>1, <1>2
  <2>2. UNION {found'[i] : i \in DOMAIN found'} = (UNION {found[i] : i \in DOMAIN found}) \cup viol
    BY <1>1, <1>2, <2>1
  <2>. QED
    BY <1>1, <2>2 DEF Reported
<1>4. found'[runs'] \cup handled' = found[runs] \cup handled
    BY <1>1, <1>2
<1>5. ~claim
    BY <1>1 DEF IInv
<1>. QED
    BY <1>1, <1>3, <1>4, <1>5 DEF IInv, RestoresOnlyViolations

(* Rerun: a new invocation starts with nothing found and nothing claimed;  *)
(* what earlier invocations found stays reported.                          *)
LEMMA RerunStep ==
    ASSUME IInv, Rerun, TypeOK'
    PROVE  IInv'
<1>1. /\ phase = "done" /\ runs' = runs + 1 /\ found' = Append(found, {})
      /\ phase' = "sync" /\ claim' = FALSE
      /\ UNCHANGED <<work, tmpl, mode, di, pending, viol, handled>>
    BY DEF Rerun
<1>2. runs \in Nat /\ found \in [1..runs -> SUBSET Files]
    BY DEF IInv, TypeOK
<1>3. /\ \A i \in 1..runs : found'[i] = found[i]
      /\ found'[runs + 1] = {}
      /\ DOMAIN found' = 1..runs + 1
    BY <1>1, <1>2, FoundAppend
<1>4. handled = {}
    BY <1>1 DEF IInv
<1>5. Reported' = Reported
  <2>1. UNION {found'[i] : i \in DOMAIN found'} = UNION {found[i] : i \in DOMAIN found}
    BY <1>2, <1>3
  <2>. QED
    BY <1>1, <2>1 DEF Reported
<1>. QED
    BY <1>1, <1>3, <1>4, <1>5 DEF IInv, RestoresOnlyViolations

(* Before the first step: the local template, nothing found or claimed.    *)
LEMMA InitIInv == Init => IInv
<1> SUFFICES ASSUME Init PROVE IInv
    OBVIOUS
<1>1. TypeOK
  <2>1. found \in [1..runs -> SUBSET Files]
    BY DEF Init
  <2>2. DOMAIN tmpl \in {DOMAIN TmplLocal, DOMAIN Remote}
        /\ \A p \in DOMAIN tmpl : tmpl[p] \in STRING
    BY IntegrityScannerAssumption DEF Init
  <2>3. runs \in 1..MaxInvocations /\ di \in 1..Len(CHECKED_DIRECTORIES)
    BY IntegrityScannerAssumption DEF Init, CHECKED_DIRECTORIES
  <2>. QED
    BY <2>1, <2>2, <2>3, IntegrityScannerAssumption DEF Init, TypeOK
<1>2. found[runs] = {} /\ ~claim /\ viol = {} /\ handled = {} /\ work = WorkInit
    BY DEF Init
<1>. QED
    BY <1>1, <1>2 DEF Init, IInv, RestoresOnlyViolations

(* Every step of the check keeps the invariant.                            *)
LEMMA NextIInv == IInv /\ [Next]_vars => IInv'
<1> SUFFICES ASSUME IInv, [Next]_vars PROVE IInv'
    OBVIOUS
<1>0. TypeOK'
    BY NextTypeOK
<1>r. ASSUME UNCHANGED <<work, found, handled, mode>>
      PROVE  RestoresOnlyViolations'
    BY <1>r DEF IInv, RestoresOnlyViolations, Reported
<1>1. CASE Sync
  <2>1. phase = "sync" /\ phase' = "walk" /\ tmpl' = Remote
        /\ UNCHANGED <<work, mode, viol, handled, found, claim, runs>>
    BY <1>1 DEF Sync
  <2>2. found[runs] = {} /\ handled = {} /\ ~claim
    BY <2>1 DEF IInv
  <2>. QED
    BY <1>0, <1>r, <2>1, <2>2 DEF IInv
<1>2. CASE SyncFails
  <2>1. phase = "sync" /\ phase' = "exited"
        /\ UNCHANGED <<work, tmpl, mode, viol, handled, found, claim, runs>>
    BY <1>2 DEF SyncFails
  <2>. QED
    BY <1>0, <1>r, <2>1 DEF IInv
<1>3. CASE VisitDir
  <2>1. phase = "walk" /\ tmpl = Remote
        /\ UNCHANGED <<work, tmpl, mode, phase, handled, found, claim, runs>>
    BY <1>3 DEF VisitDir, IInv
  <2>2. viol' \subseteq DOMAIN Remote
    BY <1>3, <2>1 DEF VisitDir, IsViolation, IInv
  <2>. QED
    BY <1>0, <1>r, <2>1, <2>2 DEF IInv
<1>4. CASE EndWalk
  <2>1. phase = "walk" /\ phase' = "handle" /\ handled' = {}
        /\ UNCHANGED <<work, tmpl, mode, viol, found, claim, runs>>
    BY <1>4 DEF EndWalk
  <2>2. handled = {}
    BY <2>1 DEF IInv
  <2>. QED
    BY <1>0, <1>r, <2>1, <2>2 DEF IInv
<1>5. CASE Handle
    BY <1>0, <1>5, HandleStep
<1>6. CASE RestoreFails
  <2>1. phase' = "exited" /\ phase = "handle"
        /\ UNCHANGED <<work, tmpl, mode, viol, handled, found, claim, runs>>
    BY <1>6 DEF RestoreFails
  <2>. QED
    BY <1>0, <1>r, <2>1 DEF IInv
<1>7. CASE EndDir
    BY <1>0, <1>7, EndDirStep
<1>8. CASE Summary
  <2>1. phase = "summary" /\ phase' = "done"
        /\ claim' = (found[runs] # {} /\ mode # "warn")
        /\ UNCHANGED <<work, tmpl, mode, viol, handled, found, runs>>
    BY <1>8 DEF Summary
  <2>. QED
    BY <1>0, <1>r, <2>1 DEF IInv
<1>9. CASE Rerun
    BY <1>0, <1>9, RerunStep
<1>10. CASE Finished \/ UNCHANGED vars
  <2>1. UNCHANGED vars
    BY <1>10 DEF Finished
  <2>. QED
    BY <1>0, <1>r, <2>1 DEF IInv, vars
<1>. QED
    BY <1>1, <1>2, <1>3, <1>4, <1>5, <1>6, <1>7, <1>8, <1>9, <1>10 DEF Next

(* The integrity check keeps the working tree, the template, the pending   *)
(* directories and the per-invocation findings in their types.            *)
THEOREM TypeCorrect == Spec => []TypeOK
<1>1. IInv => TypeOK
    BY DEF IInv
<1>. QED
    BY <1>1, InitIInv, NextIInv, PTL DEF Spec

(* Spec section 5: whatever the trees, the stage and the mode, the check   *)
(* changes a working file only in 'override' mode, only after reporting it *)
(* in this or an earlier invocation, and only to its contents at           *)
(* origin/main: shutil.copy2 runs after ensure_template_freshness and      *)
(* copies from the template to the tree (lines 231-240).                   *)
THEOREM RestoresOnlyViolationsInvariant == Spec => []RestoresOnlyViolations
<1>1. IInv => RestoresOnlyViolations
    BY DEF IInv
<1>. QED
    BY <1>1, InitIInv, NextIInv, PTL DEF Spec

-----------------------------------------------------------------------------
(***************************************************************************)
(* What a second 'override' invocation finds.  The argument does not need *)
(* to know which directories os.walk prunes or which files are ignored or  *)
(* whitelisted: it treats KeepDir and IsViolation as given predicates.    *)
(* Both depend on the directory being checked through di, so they are     *)
(* restated here for the k-th checked directory.                           *)
(***************************************************************************)
DirAt(k) == CHECKED_DIRECTORIES[k]
StageAt(k) == IF DirAt(k) = "keos-projects" THEN Stage ELSE 0
WhitelistAt(k) == IF DirAt(k) = "keos-projects" THEN CumulativeWhitelist(Stage) ELSE {}

(* KeepDir and IsViolation with DirAt(k) for Dir.                          *)
KeepDirAt(k, sd) ==
    LET name == sd[Len(sd)]
        num  == ReplaceAllStr(name, "keos-project", "")
    IN  /\ ~IsIgnored(AbsStr(sd))
        /\ (DirAt(k) = "keos-projects" /\ StageAt(k) > 0 /\ StartsWith(name, "keos-project"))
              => (IsDecimal(num) /\ DecimalValue(num) <= StageAt(k))

WhitelistedAt(k, p) ==
    /\ DirAt(k) = "keos-projects"
    /\ \E j \in 1..StageAt(k) :
         LET prefix == "keos-project" \o ToString(j) \o "/"
         IN  /\ StartsWith(RelStr(p), prefix)
             /\ ReplaceAllStr(RelStr(p), prefix, "") \in WhitelistAt(k)

ViolationAt(k, p) ==
    /\ ~IsIgnored(AbsStr(p))
    /\ ~WhitelistedAt(k, p)
    /\ p \in DOMAIN tmpl
    /\ work[p] # tmpl[p]

(* d is a directory of the k-th checked directory that os.walk descends  *)
(* into: every directory from the top down to d is kept.                   *)
KeptPath(k, d) ==
    /\ Len(d) >= 1 /\ d[1] = DirAt(k)
    /\ \A i \in 2..Len(d) : KeepDirAt(k, SubSeq(d, 1, i))

(* p is a file the walk of the k-th checked directory reaches.             *)
Reach(k, p) ==
    /\ p[1] = DirAt(k) /\ Len(p) >= 2
    /\ \A i \in 2..(Len(p) - 1) : KeepDirAt(k, SubSeq(p, 1, i))

(* No file the walk of the k-th directory reaches is a violation.          *)
Clean(k) == \A p \in Files : Reach(k, p) => ~ViolationAt(k, p)

(* The pending set a walk of the k-th checked directory starts from.       *)
StartPending(k) == IF \E p \in Files : p[1] = DirAt(k) THEN {<<DirAt(k)>>} ELSE {}

(* At di, the restated predicates are the model's own.                      *)
LEMMA AtCurrentDir ==
    /\ \A sd : KeepDir(sd) <=> KeepDirAt(di, sd)
    /\ \A p : IsViolation(p) <=> ViolationAt(di, p)
BY DEF KeepDir, KeepDirAt, IsViolation, ViolationAt, Whitelisted, WhitelistedAt,
       Dir, DirAt, ScanStage, StageAt, ScanWhitelist, WhitelistAt

(* A prefix of a prefix of q is a prefix of q.                             *)
LEMMA PrefixOfPrefix ==
    ASSUME NEW S, NEW q \in Seq(S), NEW m \in 0..Len(q), NEW i \in 1..m
    PROVE  /\ SubSeq(SubSeq(q, 1, m), 1, i) = SubSeq(q, 1, i)
           /\ SubSeq(q, 1, m)[i] = q[i]
<1>1. SubSeq(q, 1, m) \in Seq(S) /\ Len(SubSeq(q, 1, m)) = m
      /\ \A j \in 1..m : SubSeq(q, 1, m)[j] = q[j]
    BY SubSeqProperties
<1>2. SubSeq(SubSeq(q, 1, m), 1, i) \in Seq(S) /\ Len(SubSeq(SubSeq(q, 1, m), 1, i)) = i
      /\ \A j \in 1..i : SubSeq(SubSeq(q, 1, m), 1, i)[j] = q[j]
    BY <1>1, SubSeqProperties
<1>3. SubSeq(q, 1, i) \in Seq(S) /\ Len(SubSeq(q, 1, i)) = i
      /\ \A j \in 1..i : SubSeq(q, 1, i)[j] = q[j]
    BY SubSeqProperties
<1>. QED
    BY <1>1, <1>2, <1>3, SeqEqual

(* A walk starts from the top of the checked directory: it is kept, and   *)
(* every file the walk reaches lies below it.                              *)
LEMMA StartPendingKept ==
    ASSUME NEW k \in 1..Len(CHECKED_DIRECTORIES)
    PROVE  /\ \A d \in StartPending(k) : KeptPath(k, d)
           /\ \A p \in Files : Reach(k, p) => \E d \in StartPending(k) : IsPrefixOf(d, p)
<1>1. \A d \in StartPending(k) : KeptPath(k, d)
  <2> SUFFICES ASSUME NEW d \in StartPending(k) PROVE KeptPath(k, d)
    OBVIOUS
  <2>1. d = <<DirAt(k)>>
    BY DEF StartPending
  <2>2. Len(d) = 1 /\ d[1] = DirAt(k)
    BY <2>1
  <2>. QED
    BY <2>2 DEF KeptPath
<1>2. ASSUME NEW p \in Files, Reach(k, p)
      PROVE  \E d \in StartPending(k) : IsPrefixOf(d, p)
  <2>1. p \in Seq(STRING) /\ Len(p) >= 2 /\ p[1] = DirAt(k)
    BY <1>2, IntegrityScannerAssumption DEF Reach
  <2>2. StartPending(k) = {<<DirAt(k)>>}
    BY <2>1 DEF StartPending
  <2>3. SubSeq(p, 1, 1) = <<DirAt(k)>>
    BY <2>1, FirstSegment
  <2>4. IsPrefixOf(<<DirAt(k)>>, p)
    BY <2>1, <2>3 DEF IsPrefixOf
  <2>. QED
    BY <2>2, <2>4
<1>. QED
    BY <1>1, <1>2

(* A file directly in a kept directory is reached.                         *)
LEMMA FileInKept ==
    ASSUME NEW k, NEW d \in Seq(STRING), KeptPath(k, d),
           NEW p \in Files, IsPrefixOf(d, p), Len(p) = Len(d) + 1
    PROVE  Reach(k, p)
<1>1. p \in Seq(STRING) /\ Len(d) \in 0..Len(p) /\ Len(d) >= 1
    BY IntegrityScannerAssumption DEF KeptPath, IsPrefixOf
<1>2. d = SubSeq(p, 1, Len(d))
    BY DEF IsPrefixOf
<1>3. p[1] = DirAt(k)
    BY <1>1, <1>2, PrefixOfPrefix DEF KeptPath
<1>4. \A i \in 2..(Len(p) - 1) : KeepDirAt(k, SubSeq(p, 1, i))
  <2> SUFFICES ASSUME NEW i \in 2..(Len(p) - 1) PROVE KeepDirAt(k, SubSeq(p, 1, i))
    OBVIOUS
  <2>1. i \in 1..Len(d) /\ i \in 2..Len(d)
    BY <1>1
  <2>2. SubSeq(d, 1, i) = SubSeq(p, 1, i)
    BY <1>1, <1>2, <2>1, PrefixOfPrefix
  <2>. QED
    BY <2>1, <2>2 DEF KeptPath
<1>. QED
    BY <1>1, <1>3, <1>4 DEF Reach

(* A subdirectory os.walk keeps below a kept directory is kept.            *)
LEMMA SubdirKept ==
    ASSUME NEW k, NEW d \in Seq(STRING), KeptPath(k, d),
           NEW q \in Files, IsPrefixOf(d, q), Len(q) > Len(d) + 1,
           KeepDirAt(k, SubSeq(q, 1, Len(d) + 1))
    PROVE  KeptPath(k, SubSeq(q, 1, Len(d) + 1))
<1> DEFINE sd == SubSeq(q, 1, Len(d) + 1)
<1>1. q \in Seq(STRING) /\ Len(d) \in Nat /\ Len(d) >= 1 /\ Len(d) + 1 \in 0..Len(q)
    BY IntegrityScannerAssumption DEF KeptPath, IsPrefixOf
<1>2. d = SubSeq(q, 1, Len(d))
    BY DEF IsPrefixOf
<1>3. Len(sd) = Len(d) + 1 /\ sd[1] = q[1] /\ d[1] = q[1]
    BY <1>1, <1>2, PrefixOfPrefix, SubSeqProperties
<1>4. \A i \in 2..Len(sd) : KeepDirAt(k, SubSeq(sd, 1, i))
  <2> SUFFICES ASSUME NEW i \in 2..Len(sd) PROVE KeepDirAt(k, SubSeq(sd, 1, i))
    OBVIOUS
  <2>1. SubSeq(sd, 1, i) = SubSeq(q, 1, i)
    BY <1>1, <1>3, PrefixOfPrefix
  <2>2. CASE i <= Len(d)
    <3>1. SubSeq(d, 1, i) = SubSeq(q, 1, i)
      BY <1>1, <1>2, <2>2, PrefixOfPrefix
    <3>2. i \in 2..Len(d)
      BY <1>1, <1>3, <2>2
    <3>. QED
      BY <2>1, <3>1, <3>2 DEF KeptPath
  <2>3. CASE i = Len(d) + 1
    BY <2>1, <2>3
  <2>. QED
    BY <1>1, <1>3, <2>2, <2>3
<1>. QED
    BY <1>3, <1>4 DEF KeptPath

(* A reached file below a kept directory d but not directly in it lies     *)
(* below the subdirectory of d on its path, which os.walk keeps.          *)
LEMMA ReachBelow ==
    ASSUME NEW k, NEW d \in Seq(STRING), Len(d) >= 1,
           NEW p \in Files, Reach(k, p), IsPrefixOf(d, p), Len(p) > Len(d) + 1
    PROVE  /\ SubSeq(p, 1, Len(d) + 1) \in SubdirsOf(d)
           /\ KeepDirAt(k, SubSeq(p, 1, Len(d) + 1))
           /\ IsPrefixOf(SubSeq(p, 1, Len(d) + 1), p)
<1>1. p \in Seq(STRING) /\ Len(d) + 1 \in 0..Len(p)
    BY IntegrityScannerAssumption DEF IsPrefixOf
<1>2. Len(SubSeq(p, 1, Len(d) + 1)) = Len(d) + 1
    BY <1>1, SubSeqProperties
<1>3. SubSeq(p, 1, Len(d) + 1) \in SubdirsOf(d)
    BY DEF SubdirsOf
<1>4. KeepDirAt(k, SubSeq(p, 1, Len(d) + 1))
    BY DEF Reach
<1>. QED
    BY <1>2, <1>3, <1>4 DEF IsPrefixOf

(* The walk invariant.  The pending directories are kept ones; every       *)
(* reached violation is listed or lies below a pending directory (so at   *)
(* the end of the walk it is listed) and, before any is handled, every    *)
(* listed file is a reached violation; outside a directory's check nothing *)
(* is listed; once the template is refreshed it stays the remote tree.     *)
(* In 'override' mode each checked directory is clean once handled, all    *)
(* of them after the summary, and so a later invocation finds nothing.     *)
PendingKept ==
    phase \in {"walk", "handle"} => \A d \in pending : KeptPath(di, d)
ViolationsCovered ==
    phase \in {"walk", "handle"} =>
        \A p \in Files : Reach(di, p) /\ ViolationAt(di, p) =>
            p \in viol \/ \E d \in pending : IsPrefixOf(d, p)
WalkSound ==
    phase \in {"walk", "handle"} /\ handled = {} =>
        \A p \in viol : Reach(di, p) /\ ViolationAt(di, p)
NoPendingInHandle == phase = "handle" => pending = {}
NoViolOutside == phase \in {"sync", "summary", "done"} => viol = {}
TemplateStays == runs >= 2 => tmpl = Remote
HandledDirsClean ==
    mode = "override" /\ phase \in {"walk", "handle"} =>
        \A k \in 1..(di - 1) : Clean(k)
AllDirsClean ==
    mode = "override" /\ (runs >= 2 \/ phase \in {"summary", "done"}) =>
        \A k \in 1..Len(CHECKED_DIRECTORIES) : Clean(k)
RerunFindsNothing ==
    mode = "override" /\ runs >= 2 => viol = {} /\ found[runs] = {}

WInv ==
    /\ PendingKept /\ ViolationsCovered /\ WalkSound /\ NoPendingInHandle /\ NoViolOutside
    /\ TemplateStays /\ HandledDirsClean /\ AllDirsClean /\ RerunFindsNothing

(* A step that changes neither the working tree nor the template leaves    *)
(* every directory as clean as it was.                                     *)
LEMMA CleanUnchanged ==
    ASSUME NEW k, UNCHANGED <<work, tmpl>>
    PROVE  Clean(k)' <=> Clean(k)
BY DEF Clean, Reach, ViolationAt

(* Restoring a file to its template contents makes no directory less       *)
(* clean.                                                                  *)
LEMMA CleanRestore ==
    ASSUME NEW k, NEW q \in Files, work \in [Files -> STRING], tmpl' = tmpl,
           work' = [work EXCEPT ![q] = tmpl[q]], Clean(k)
    PROVE  Clean(k)'
<1> SUFFICES ASSUME NEW p \in Files, Reach(k, p), ViolationAt(k, p)'
             PROVE  FALSE
    BY DEF Clean
<1>1. CASE p = q
    BY <1>1 DEF ViolationAt
<1>2. CASE p # q
    <2>1. work'[p] = work[p]
      BY <1>2
    <2>. QED
      BY <2>1 DEF Clean, ViolationAt
<1>. QED
    BY <1>1, <1>2
(* VisitDir: the yielded directory leaves the pending set; the kept        *)
(* subdirectories join it and the violations directly in it join the     *)
(* list, so every reached violation below it stays covered.  In a later   *)
(* 'override' invocation none of those files is a violation.               *)
LEMMA VisitDirWInv ==
    ASSUME IInv, WInv, VisitDir
    PROVE  WInv'
<1>1. PICK d \in pending :
        /\ pending' = (pending \ {d}) \cup {sd \in SubdirsOf(d) : KeepDir(sd)}
        /\ viol' = viol \cup {p \in FilesIn(d) : IsViolation(p)}
    BY DEF VisitDir
<1>2. phase = "walk" /\ UNCHANGED <<work, tmpl, mode, phase, di, handled, found, claim, runs>>
    BY DEF VisitDir
<1>3. d \in Seq(STRING) /\ Len(d) >= 1 /\ KeptPath(di, d)
    <2>1. d \in Prefixes
      BY DEF IInv, TypeOK, Prefixes
    <2>. QED
      BY <2>1, <1>2, PrefixSeq DEF WInv, PendingKept
<1>4. \A k : Clean(k)' <=> Clean(k)
    BY <1>2, CleanUnchanged
<1>5. \A p : ViolationAt(di, p)' <=> ViolationAt(di, p)
    BY <1>2 DEF ViolationAt
<1>6. PendingKept'
  <2> SUFFICES ASSUME NEW e \in pending' PROVE KeptPath(di, e)
    BY <1>2 DEF PendingKept
  <2>1. CASE e \in pending
    BY <1>2, <2>1 DEF WInv, PendingKept
  <2>2. CASE e \in SubdirsOf(d) /\ KeepDir(e)
    <3>1. PICK q \in Files : IsPrefixOf(d, q) /\ Len(q) > Len(d) + 1 /\ e = SubSeq(q, 1, Len(d) + 1)
      BY <2>2 DEF SubdirsOf
    <3>2. KeepDirAt(di, e)
      BY <2>2, AtCurrentDir
    <3>. QED
      BY <1>3, <3>1, <3>2, SubdirKept
  <2>. QED
    BY <1>1, <2>1, <2>2
<1>7. ViolationsCovered'
  <2> SUFFICES ASSUME NEW p \in Files, Reach(di, p), ViolationAt(di, p)
               PROVE  p \in viol' \/ \E e \in pending' : IsPrefixOf(e, p)
    BY <1>2, <1>5 DEF ViolationsCovered
  <2>1. p \in viol \/ \E e \in pending : IsPrefixOf(e, p)
    BY <1>2 DEF WInv, ViolationsCovered
  <2>2. CASE p \in viol
    BY <1>1, <2>2
  <2>3. CASE \E e \in pending \ {d} : IsPrefixOf(e, p)
    BY <1>1, <2>3
  <2>4. CASE IsPrefixOf(d, p)
    <3>1. Len(d) \in Nat /\ Len(p) \in Nat /\ Len(d) < Len(p)
      BY <1>3, <2>4, IntegrityScannerAssumption DEF IsPrefixOf
    <3>2. CASE Len(p) = Len(d) + 1
      <4>1. p \in FilesIn(d) /\ IsViolation(p)
        BY <2>4, <3>2, AtCurrentDir DEF FilesIn
      <4>. QED
        BY <1>1, <4>1
    <3>3. CASE Len(p) > Len(d) + 1
      <4>1. SubSeq(p, 1, Len(d) + 1) \in SubdirsOf(d)
            /\ KeepDirAt(di, SubSeq(p, 1, Len(d) + 1))
            /\ IsPrefixOf(SubSeq(p, 1, Len(d) + 1), p)
        BY <1>3, <2>4, <3>3, ReachBelow
      <4>2. SubSeq(p, 1, Len(d) + 1) \in pending'
        BY <1>1, <4>1, AtCurrentDir
      <4>. QED
        BY <4>1, <4>2
    <3>. QED
      BY <3>1, <3>2, <3>3
  <2>. QED
    BY <2>1, <2>2, <2>3, <2>4
<1>8. RerunFindsNothing'
  <2> SUFFICES ASSUME mode = "override", runs >= 2
               PROVE  viol' = {} /\ found'[runs'] = {}
    BY <1>2 DEF RerunFindsNothing
  <2>1. viol = {} /\ found[runs] = {}
    BY DEF WInv, RerunFindsNothing
  <2>2. Clean(di)
    BY DEF WInv, AllDirsClean, IInv, TypeOK
  <2>3. ASSUME NEW p \in FilesIn(d), IsViolation(p) PROVE FALSE
    <3>1. Reach(di, p)
      BY <1>3, FileInKept DEF FilesIn
    <3>. QED
      BY <2>2, <2>3, <3>1, AtCurrentDir DEF Clean, FilesIn
  <2>. QED
    BY <1>1, <1>2, <2>1, <2>3
<1>9. WalkSound'
  <2>0. handled = {}
    BY <1>2 DEF IInv
  <2>1. ASSUME NEW p \in viol' PROVE Reach(di, p) /\ ViolationAt(di, p)
    <3>1. CASE p \in viol
      BY <1>2, <2>0, <3>1 DEF WInv, WalkSound
    <3>2. CASE p \in FilesIn(d) /\ IsViolation(p)
      BY <1>3, <3>2, FileInKept, AtCurrentDir DEF FilesIn
    <3>. QED
      BY <1>1, <3>1, <3>2
  <2>. QED
    BY <1>2, <2>1 DEF WalkSound, ViolationAt, Reach
<1>. QED
    BY <1>2, <1>4, <1>6, <1>7, <1>8, <1>9
       DEF WInv, NoPendingInHandle, NoViolOutside, TemplateStays, HandledDirsClean, AllDirsClean
(* EndDir: in 'override' mode the directory just handled is clean: every  *)
(* violation the walk reached was listed, and each listed file was        *)
(* restored.  The next directory's walk starts from its top.               *)
LEMMA EndDirWInv ==
    ASSUME IInv, WInv, EndDir
    PROVE  WInv'
<1>1. /\ phase = "handle" /\ handled = viol /\ pending = {}
      /\ found' = [found EXCEPT ![runs] = found[runs] \cup viol]
      /\ viol' = {} /\ handled' = {}
      /\ UNCHANGED <<work, tmpl, mode, claim, runs>>
    BY DEF EndDir, WInv, NoPendingInHandle
<1>2. found \in [1..runs -> SUBSET Files] /\ runs \in 1..MaxInvocations
      /\ di \in 1..Len(CHECKED_DIRECTORIES) /\ Len(CHECKED_DIRECTORIES) = 3
    BY DEF IInv, TypeOK, CHECKED_DIRECTORIES
<1>3. \A k : Clean(k)' <=> Clean(k)
    BY <1>1, CleanUnchanged
<1>4. mode = "override" => Clean(di)
  <2> SUFFICES ASSUME mode = "override", NEW p \in Files, Reach(di, p), ViolationAt(di, p)
               PROVE  FALSE
    BY DEF Clean
  <2>1. p \in handled
    BY <1>1 DEF WInv, ViolationsCovered
  <2>2. work[p] = tmpl[p]
    BY <2>1 DEF IInv
  <2>. QED
    BY <2>2 DEF ViolationAt
<1>5. TemplateStays' /\ NoPendingInHandle'
    BY <1>1 DEF WInv, TemplateStays, NoPendingInHandle, EndDir
<1>6. RerunFindsNothing'
  <2> SUFFICES ASSUME mode = "override", runs >= 2 PROVE found'[runs] = {}
    BY <1>1 DEF RerunFindsNothing
  <2>. QED
    BY <1>1, <1>2 DEF WInv, RerunFindsNothing
<1>7. CASE di < Len(CHECKED_DIRECTORIES)
  <2>1. di' = di + 1 /\ phase' = "walk" /\ pending' = StartPending(di + 1)
    BY <1>7 DEF EndDir, StartPending, DirAt
  <2>2. di + 1 \in 1..Len(CHECKED_DIRECTORIES)
    BY <1>2, <1>7
  <2>3. PendingKept' /\ ViolationsCovered'
    BY <2>1, <2>2, StartPendingKept DEF PendingKept, ViolationsCovered
  <2>4. HandledDirsClean'
    <3> SUFFICES ASSUME mode = "override", NEW k \in 1..di PROVE Clean(k)
      BY <1>1, <1>2, <1>3, <2>1 DEF HandledDirsClean
    <3>1. CASE k = di
      BY <1>4, <3>1
    <3>2. CASE k < di
      BY <1>1, <1>2, <3>2 DEF WInv, HandledDirsClean
    <3>. QED
      BY <1>2, <3>1, <3>2
  <2>5. AllDirsClean'
    BY <1>1, <1>3, <2>1 DEF WInv, AllDirsClean
  <2>. QED
    BY <1>1, <1>5, <1>6, <2>1, <2>3, <2>4, <2>5 DEF WInv, NoViolOutside, WalkSound
<1>8. CASE ~(di < Len(CHECKED_DIRECTORIES))
  <2>1. phase' = "summary" /\ UNCHANGED <<di, pending>>
    BY <1>8 DEF EndDir
  <2>2. di = Len(CHECKED_DIRECTORIES)
    BY <1>2, <1>8
  <2>3. AllDirsClean'
    <3> SUFFICES ASSUME mode = "override", NEW k \in 1..Len(CHECKED_DIRECTORIES) PROVE Clean(k)
      BY <1>1, <1>3 DEF AllDirsClean
    <3>1. CASE k = di
      BY <1>4, <3>1
    <3>2. CASE k < di
      BY <1>1, <1>2, <3>2 DEF WInv, HandledDirsClean
    <3>. QED
      BY <1>2, <2>2, <3>1, <3>2
  <2>. QED
    BY <1>1, <1>5, <1>6, <2>1, <2>3
       DEF WInv, PendingKept, ViolationsCovered, WalkSound, NoViolOutside, HandledDirsClean
<1>. QED
    BY <1>7, <1>8
(* Handle: the file handled is listed already; restoring it in 'override' *)
(* mode makes no directory less clean.                                     *)
LEMMA HandleWInv ==
    ASSUME IInv, WInv, Handle
    PROVE  WInv'
<1>1. PICK q \in viol \ handled :
        /\ work' = IF mode = "override" THEN [work EXCEPT ![q] = tmpl[q]] ELSE work
        /\ handled' = handled \cup {q}
    BY DEF Handle
<1>2. phase = "handle" /\ pending = {}
      /\ UNCHANGED <<tmpl, mode, phase, di, pending, viol, found, claim, runs>>
    BY DEF Handle, WInv, NoPendingInHandle
<1>3. work \in [Files -> STRING] /\ q \in Files
    BY DEF IInv, TypeOK
<1>4. \A k : Clean(k) => Clean(k)'
  <2>1. CASE mode = "override"
    BY <1>1, <1>2, <1>3, <2>1, CleanRestore
  <2>2. CASE mode # "override"
    BY <1>1, <1>2, <2>2, CleanUnchanged
  <2>. QED
    BY <2>1, <2>2
<1>5. ViolationsCovered'
  <2> SUFFICES ASSUME NEW p \in Files, Reach(di, p), ViolationAt(di, p)'
               PROVE  p \in viol
    BY <1>2 DEF ViolationsCovered
  <2>1. CASE p = q
    BY <2>1
  <2>2. CASE p # q
    <3>1. work'[p] = work[p]
      BY <1>1, <1>3, <2>2
    <3>2. ViolationAt(di, p)
      BY <1>2, <3>1 DEF ViolationAt
    <3>. QED
      BY <1>2, <3>2 DEF WInv, ViolationsCovered
  <2>. QED
    BY <2>1, <2>2
<1>. QED
    BY <1>1, <1>2, <1>4, <1>5
       DEF WInv, PendingKept, WalkSound, NoPendingInHandle, NoViolOutside, TemplateStays,
           HandledDirsClean, AllDirsClean, RerunFindsNothing

(* Rerun: the finished invocation left every directory clean and its list  *)
(* empty; the new one starts with nothing found and the same template.     *)
LEMMA RerunWInv ==
    ASSUME IInv, WInv, Rerun
    PROVE  WInv'
<1>1. /\ phase = "done" /\ runs' = runs + 1 /\ found' = Append(found, {})
      /\ phase' = "sync"
      /\ UNCHANGED <<work, tmpl, mode, di, pending, viol, handled>>
    BY DEF Rerun
<1>2. runs \in Nat /\ found \in [1..runs -> SUBSET Files] /\ tmpl = Remote /\ viol = {}
    BY <1>1 DEF IInv, TypeOK, WInv, NoViolOutside
<1>3. found'[runs'] = {} /\ runs' >= 2
    BY <1>1, <1>2, FoundAppend DEF IInv, TypeOK
<1>4. \A k : Clean(k)' <=> Clean(k)
    BY <1>1, CleanUnchanged
<1>5. AllDirsClean'
    BY <1>1, <1>4 DEF WInv, AllDirsClean
<1>. QED
    BY <1>1, <1>2, <1>3, <1>5
       DEF WInv, PendingKept, ViolationsCovered, WalkSound, NoPendingInHandle, NoViolOutside,
           TemplateStays, HandledDirsClean, RerunFindsNothing

(* Sync: the walk of the first directory starts from its top; in a later  *)
(* invocation the template it installs is the one already there.          *)
LEMMA SyncWInv ==
    ASSUME IInv, WInv, Sync
    PROVE  WInv'
<1>1. /\ phase = "sync" /\ phase' = "walk" /\ tmpl' = Remote /\ di' = 1
      /\ pending' = StartPending(1)
      /\ UNCHANGED <<work, mode, viol, handled, found, claim, runs>>
    BY DEF Sync, StartPending, DirAt
<1>2. 1 \in 1..Len(CHECKED_DIRECTORIES)
    BY DEF CHECKED_DIRECTORIES
<1>3. PendingKept' /\ ViolationsCovered'
    BY <1>1, <1>2, StartPendingKept DEF PendingKept, ViolationsCovered
<1>4. AllDirsClean'
  <2> SUFFICES ASSUME mode = "override", runs >= 2,
                      NEW k \in 1..Len(CHECKED_DIRECTORIES)
               PROVE  Clean(k)'
    BY <1>1 DEF AllDirsClean
  <2>1. tmpl' = tmpl
    BY <1>1 DEF WInv, TemplateStays
  <2>. QED
    BY <1>1, <2>1, CleanUnchanged DEF WInv, AllDirsClean
<1>5. viol = {}
    BY <1>1 DEF WInv, NoViolOutside
<1>. QED
    BY <1>1, <1>3, <1>4, <1>5
       DEF WInv, WalkSound, NoPendingInHandle, NoViolOutside, TemplateStays, HandledDirsClean,
           RerunFindsNothing

(* Every step of the check keeps the walk invariant.                       *)
LEMMA NextWInv == IInv /\ WInv /\ [Next]_vars => WInv'
<1> SUFFICES ASSUME IInv, WInv, [Next]_vars PROVE WInv'
    OBVIOUS
<1>u. ASSUME UNCHANGED <<work, tmpl, mode, di, pending, viol, handled, found, runs>>,
             phase' \in {phase, "exited"}
      PROVE  WInv'
  <2>1. \A k : Clean(k)' <=> Clean(k)
    BY <1>u, CleanUnchanged
  <2>2. \A p : ViolationAt(di, p)' <=> ViolationAt(di, p)
    BY <1>u DEF ViolationAt
  <2>. QED
    BY <1>u, <2>1, <2>2
       DEF WInv, PendingKept, ViolationsCovered, WalkSound, NoPendingInHandle, NoViolOutside,
           TemplateStays, HandledDirsClean, AllDirsClean, RerunFindsNothing
<1>1. CASE Sync
    BY <1>1, SyncWInv
<1>2. CASE SyncFails
    BY <1>2, <1>u DEF SyncFails
<1>3. CASE VisitDir
    BY <1>3, VisitDirWInv
<1>4. CASE EndWalk
  <2>1. phase = "walk" /\ phase' = "handle" /\ pending = {} /\ handled' = {}
        /\ UNCHANGED <<work, tmpl, mode, di, pending, viol, found, runs>>
    BY <1>4 DEF EndWalk
  <2>4. handled = {}
    BY <2>1 DEF IInv
  <2>2. \A k : Clean(k)' <=> Clean(k)
    BY <2>1, CleanUnchanged
  <2>3. \A p : ViolationAt(di, p)' <=> ViolationAt(di, p)
    BY <2>1 DEF ViolationAt
  <2>. QED
    BY <2>1, <2>2, <2>3, <2>4
       DEF WInv, PendingKept, ViolationsCovered, WalkSound, NoPendingInHandle, NoViolOutside,
           TemplateStays, HandledDirsClean, AllDirsClean, RerunFindsNothing
<1>5. CASE Handle
    BY <1>5, HandleWInv
<1>6. CASE RestoreFails
    BY <1>6, <1>u DEF RestoreFails
<1>7. CASE EndDir
    BY <1>7, EndDirWInv
<1>8. CASE Summary
  <2>1. phase = "summary" /\ phase' = "done"
        /\ UNCHANGED <<work, tmpl, mode, di, pending, viol, found, runs>>
    BY <1>8 DEF Summary
  <2>2. \A k : Clean(k)' <=> Clean(k)
    BY <2>1, CleanUnchanged
  <2>. QED
    BY <2>1, <2>2
       DEF WInv, PendingKept, ViolationsCovered, WalkSound, NoPendingInHandle, NoViolOutside,
           TemplateStays, HandledDirsClean, AllDirsClean, RerunFindsNothing
<1>9. CASE Rerun
    BY <1>9, RerunWInv
<1>10. CASE Finished \/ UNCHANGED vars
    BY <1>10, <1>u DEF Finished, vars
<1>. QED
    BY <1>1, <1>2, <1>3, <1>4, <1>5, <1>6, <1>7, <1>8, <1>9, <1>10 DEF Next

(* Before the first step: one invocation, nothing listed, no walk begun.  *)
LEMMA InitWInv == Init => WInv
BY DEF Init, WInv, PendingKept, ViolationsCovered, WalkSound, NoPendingInHandle, NoViolOutside,
       TemplateStays, HandledDirsClean, AllDirsClean, RerunFindsNothing

(* Spec section 8: after a completed 'override' check, running the grader  *)
(* again finds no violation, whatever the trees, the stage, the ignore     *)
(* rules and the whitelist: os.walk prunes the same directories both      *)
(* times, every violation the first walk reached was listed and restored  *)
(* with shutil.copy2 (lines 227-240), and restored files match the         *)
(* refreshed template, which the second ensure_template_freshness leaves   *)
(* as it was.                                                              *)
THEOREM RestoreIdempotentInvariant == Spec => []RestoreIdempotent
<1>1. Init => IInv /\ WInv
    BY InitIInv, InitWInv
<1>2. IInv /\ WInv /\ [Next]_vars => IInv' /\ WInv'
    BY NextIInv, NextWInv
<1>3. WInv => RestoreIdempotent
    BY DEF WInv, RerunFindsNothing, RestoreIdempotent
<1>. QED
    BY <1>1, <1>2, <1>3, PTL DEF Spec
(* At di, the reached files of the model are those of Reach.               *)
LEMMA ReachedAtCurrentDir == \A p : Reached(p) <=> Reach(di, p)
BY AtCurrentDir DEF Reached, Reach, Dir, DirAt

(* os.walk with the in-place pruning dirs[:] = ... (lines 165-185) lists,  *)
(* for every tree, ignore rule, stage and whitelist, exactly the           *)
(* violations among the files below the directories it keeps: the        *)
(* pending directories are always kept ones, and every reached violation  *)
(* is listed or lies below a pending directory until the walk ends.        *)
THEOREM WalkListsReachedInvariant == Spec => []WalkListsReached
<1>1. IInv /\ WInv => WalkListsReached
  <2> SUFFICES ASSUME IInv, WInv, phase = "handle", handled = {}
               PROVE  viol = {p \in Files : Reached(p) /\ IsViolation(p)}
    BY DEF WalkListsReached
  <2>1. viol \subseteq Files
    BY DEF IInv, TypeOK
  <2>2. \A p \in viol : Reach(di, p) /\ ViolationAt(di, p)
    BY DEF WInv, WalkSound
  <2>3. \A p \in Files : Reach(di, p) /\ ViolationAt(di, p) => p \in viol
    BY DEF WInv, ViolationsCovered, NoPendingInHandle
  <2>. QED
    BY <2>1, <2>2, <2>3, ReachedAtCurrentDir, AtCurrentDir
<1>. QED
    BY <1>1, InitIInv, InitWInv, NextIInv, NextWInv, PTL DEF Spec
====
