--------------------------- MODULE LauncherProofs ---------------------------
(***************************************************************************)
(* Proofs about main() and its boot files (Launcher.tla), for any set of   *)
(* graders and tests: the type invariant, and that a grader boots another  *)
(* test's arguments only when its boot files were disturbed.               *)
(***************************************************************************)
EXTENDS Launcher, TLAPS

(* Each test's arguments are among the arguments the graders use.          *)
LEMMA WorkInArgs ==
    ASSUME NEW g \in Graders, NEW i \in 1..Len(Work[g])
    PROVE  Work[g][i] \in Args
<1>1. Work[g] \in Seq(STRING)
    BY LauncherAssumption
<1>2. i \in DOMAIN Work[g]
    BY <1>1
<1>. QED
    BY <1>2 DEF Args

(* Every grader has at least one run.                                      *)
LEMMA WorkLength ==
    ASSUME NEW g \in Graders
    PROVE  Len(Work[g]) \in Nat \ {0}
<1>1. Work[g] \in Seq(STRING)
    BY LauncherAssumption
<1>2. Len(Work[g]) \in Nat
    BY <1>1
<1>. QED
    BY <1>2, LauncherAssumption

LEMMA InitTypeOK == Init => TypeOK
<1> SUFFICES ASSUME Init PROVE TypeOK
    OBVIOUS
<1>1. ASSUME NEW g \in Graders PROVE tix[g] \in 1..Len(Work[g])
    <2>1. Len(Work[g]) \in Nat \ {0}
        BY WorkLength
    <2>. QED
        BY <2>1 DEF Init
<1>2. /\ gpc \in [Graders -> {"start", "checked", "cfg", "mkrescue", "boot",
                              "running", "done", "refused"}]
      /\ tix \in [Graders -> Nat]
      /\ grubcfg \in Args \cup {NoFile}
      /\ iso \in Args \cup {NoFile}
      /\ qemu \in [Graders -> Args \cup {NoFile}]
      /\ foreign \in BOOLEAN
      /\ disturbed \in [Graders -> BOOLEAN]
    BY DEF Init
<1>. QED
    BY <1>1, <1>2, Zenon DEF TypeOK

LEMMA NextTypeOK == TypeOK /\ [Next]_vars => TypeOK'
<1> SUFFICES ASSUME TypeOK, [Next]_vars PROVE TypeOK'
    OBVIOUS
<1>. USE DEF TypeOK
<1>1. ASSUME NEW g \in Graders, Grader(g) PROVE TypeOK'
    <2>1. CASE CheckQemu(g)
        BY <2>1 DEF CheckQemu
    <2>2. CASE Prepare(g)
        BY <2>2 DEF Prepare, Step, Disturb
    <2>3. CASE WriteCfg(g)
        BY <2>3, WorkInArgs DEF WriteCfg, Step, Disturb
    <2>4. CASE MkRescue(g)
        BY <2>4 DEF MkRescue, Step, Disturb
    <2>5. CASE MkRescueFails(g)
        BY <2>5 DEF MkRescueFails, Step
    <2>6. CASE Boot(g)
        BY <2>6 DEF Boot, Step
    <2>7. CASE Finish(g)
        <3>0. Len(Work[g]) \in Nat \ {0} /\ tix[g] \in 1..Len(Work[g])
            BY WorkLength
        <3>1. /\ gpc' \in [Graders -> {"start", "checked", "cfg", "mkrescue", "boot",
                                       "running", "done", "refused"}]
              /\ UNCHANGED <<grubcfg, iso, foreign, disturbed>>
              /\ qemu' \in [Graders -> Args \cup {NoFile}]
            BY <2>7 DEF Finish
        <3>2. CASE tix[g] < Len(Work[g])
            <4>1. tix' = [tix EXCEPT ![g] = tix[g] + 1]
                BY <2>7, <3>2 DEF Finish
            <4>2. tix' \in [Graders -> Nat]
                BY <4>1
            <4>3. ASSUME NEW h \in Graders PROVE tix'[h] \in 1..Len(Work[h])
                <5>1. Len(Work[h]) \in Nat \ {0}
                    BY WorkLength
                <5>. QED
                    BY <3>0, <3>2, <4>1, <5>1
            <4>. QED
                BY <3>1, <4>2, <4>3, Zenon
        <3>3. CASE ~(tix[g] < Len(Work[g]))
            <4>1. tix' = tix
                BY <2>7, <3>3 DEF Finish
            <4>. QED
                BY <3>1, <4>1, Zenon
        <3>. QED
            BY <3>2, <3>3
    <2>. QED
        BY <1>1, <2>1, <2>2, <2>3, <2>4, <2>5, <2>6, <2>7 DEF Grader
<1>2. CASE ForeignStart \/ ForeignStop
    BY <1>2 DEF ForeignStart, ForeignStop
<1>3. CASE Halt \/ UNCHANGED vars
    BY <1>3 DEF Halt, vars
<1>. QED
    BY <1>1, <1>2, <1>3 DEF Next

(* main() keeps every grader's state, the boot files and the emulators in  *)
(* their types, whatever the graders and their tests.                      *)
THEOREM TypeCorrect == Spec => []TypeOK
BY InitTypeOK, NextTypeOK, PTL DEF Spec

(* What each undisturbed grader can rely on at each point of its run:     *)
(* grub.cfg holds its current test's arguments until grub-mkrescue runs,   *)
(* then kernel.iso does, then its emulator booted them.                    *)
OwnFiles ==
    \A g \in Graders : ~disturbed[g] =>
        /\ gpc[g] = "mkrescue" => grubcfg = Work[g][tix[g]]
        /\ gpc[g] = "boot" => iso = Work[g][tix[g]]
        /\ gpc[g] = "running" => qemu[g] = Work[g][tix[g]]

LEMMA InitOwnFiles == Init => OwnFiles
BY DEF Init, OwnFiles

(* A step that leaves the boot files, the states, the indexes and the      *)
(* disturbed flags of every grader but g alone, and takes g to a state     *)
(* outside the three of OwnFiles, keeps OwnFiles.                          *)
LEMMA OwnFilesOthers ==
    ASSUME NEW g \in Graders, TypeOK, OwnFiles,
           gpc'[g] \notin {"mkrescue", "boot", "running"},
           \A h \in Graders \ {g} : /\ gpc'[h] = gpc[h] /\ tix'[h] = tix[h]
                                   /\ qemu'[h] = qemu[h] /\ disturbed'[h] = disturbed[h],
           UNCHANGED <<grubcfg, iso>>
    PROVE  OwnFiles'
BY DEF OwnFiles

LEMMA NextOwnFiles == TypeOK /\ OwnFiles /\ [Next]_vars => OwnFiles'
<1> SUFFICES ASSUME TypeOK, OwnFiles, [Next]_vars PROVE OwnFiles'
    OBVIOUS
<1>1. ASSUME NEW g \in Graders, Grader(g) PROVE OwnFiles'
    <2>1. CASE CheckQemu(g)
        BY <2>1, OwnFilesOthers DEF CheckQemu, TypeOK
    <2>2. CASE Prepare(g)
        <3>1. ASSUME NEW h \in Graders, ~disturbed'[h], gpc'[h] = "mkrescue"
              PROVE  grubcfg' = Work[h][tix'[h]]
            BY <2>2, <3>1 DEF Prepare, Step, Disturb, TypeOK
        <3>. QED
            BY <2>2, <3>1 DEF Prepare, Step, Disturb, OwnFiles, TypeOK
    <2>3. CASE WriteCfg(g)
        BY <2>3 DEF WriteCfg, Step, Disturb, OwnFiles, TypeOK
    <2>4. CASE MkRescue(g)
        BY <2>4 DEF MkRescue, Step, Disturb, OwnFiles, TypeOK
    <2>5. CASE MkRescueFails(g)
        BY <2>5 DEF MkRescueFails, Step, OwnFiles, TypeOK
    <2>6. CASE Boot(g)
        BY <2>6 DEF Boot, Step, OwnFiles, TypeOK
    <2>7. CASE Finish(g)
        <3>1. gpc'[g] \in {"cfg", "done"}
            BY <2>7 DEF Finish, TypeOK
        <3>2. \A h \in Graders \ {g} : /\ gpc'[h] = gpc[h] /\ tix'[h] = tix[h]
                                      /\ qemu'[h] = qemu[h] /\ disturbed'[h] = disturbed[h]
            BY <2>7 DEF Finish, TypeOK
        <3>. QED
            BY <2>7, <3>1, <3>2, OwnFilesOthers DEF Finish
    <2>. QED
        BY <1>1, <2>1, <2>2, <2>3, <2>4, <2>5, <2>6, <2>7 DEF Grader
<1>2. CASE ForeignStart \/ ForeignStop
    BY <1>2 DEF ForeignStart, ForeignStop, OwnFiles
<1>3. CASE Halt \/ UNCHANGED vars
    BY <1>3 DEF Halt, vars, OwnFiles
<1>. QED
    BY <1>1, <1>2, <1>3 DEF Next

(* For any graders, tests and grub-mkrescue failures, an emulator boots    *)
(* its grader's current test unless another grader replaced the boot      *)
(* files between that grader's write of grub.cfg and its boot, or its own *)
(* grub-mkrescue failed (lines 359-378, 564-578): these are the only two   *)
(* ways behind the violations of BootsOwnTest.                             *)
THEOREM OwnTestUnlessDisturbedInvariant == Spec => []OwnTestUnlessDisturbed
<1>1. Spec => [](TypeOK /\ OwnFiles)
    BY InitTypeOK, NextTypeOK, InitOwnFiles, NextOwnFiles, PTL DEF Spec
<1>2. TypeOK /\ OwnFiles => OwnTestUnlessDisturbed
    BY DEF OwnFiles, OwnTestUnlessDisturbed
<1>. QED
    BY <1>1, <1>2, PTL
=============================================================================
