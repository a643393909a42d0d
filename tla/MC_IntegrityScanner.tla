------------------------ MODULE MC_IntegrityScanner ------------------------
(* A working tree of project 2 with: a drifted file in fs and one under an  *)
(* ignored build directory; a drifted keos file and an unmodified one; in   *)
(* keos-projects a drifted file whitelisted by project 1, a drifted one    *)
(* that is not, a drifted file of project 3 (beyond the stage), a new file *)
(* absent from the template, and the drifted harness script itself.  The  *)
(* local template is stale in one file.                                    *)
EXTENDS IntegrityScanner

F1 == <<"fs", "src", "lib.rs">>
F2 == <<"fs", "target", "lib.rs">>
K1 == <<"keos", "src", "mm.rs">>
K2 == <<"keos", "src", "lib.rs">>
P1 == <<"keos-projects", "keos-project1", "src", "a.rs">>
P2 == <<"keos-projects", "keos-project2", "src", "b.rs">>
P3 == <<"keos-projects", "keos-project3", "src", "a.rs">>
P4 == <<"keos-projects", "keos-project2", "new.rs">>
P5 == <<"keos-projects", ".cargo", "run.py">>

MCFiles == {F1, F2, K1, K2, P1, P2, P3, P4, P5}
MCWorkInit == [p \in MCFiles |-> IF p \in {K2} THEN "v0" ELSE "v1"]
MCRemote == [p \in MCFiles \ {P4} |-> "v0"]
MCTmplLocal == [p \in MCFiles \ {P4} |-> IF p = K2 THEN "v1" ELSE "v0"]
MCDeclared == [k \in {1, 2} |-> IF k = 1 THEN {"src/a.rs"} ELSE {"README.md"}]

(* The same tree with a drifted file in keos-projects/keos-project-common, *)
(* a directory whose stage suffix does not parse.                          *)
C1 == <<"keos-projects", "keos-project-common", "lib.rs">>
MCFilesCommon == MCFiles \cup {C1}
MCWorkInitCommon == [p \in MCFilesCommon |-> IF p \in {K2} THEN "v0" ELSE "v1"]
MCRemoteCommon == [p \in MCFilesCommon \ {P4} |-> "v0"]
MCTmplLocalCommon == MCRemoteCommon
=============================================================================
