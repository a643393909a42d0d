------------------------------ MODULE Launcher ------------------------------
(***************************************************************************)
(* main() of .cargo/run.py as one grader process among several started in *)
(* the same keos-project<N>/grader directory.  They share the boot files   *)
(* under output_dir (lines 17-20): target/grub_files/boot/grub/grub.cfg,   *)
(* which setup_kernel_arguments() rewrites before every emulator run, and  *)
(* target/kernel.iso, which grub-mkrescue rebuilds from it.  The only      *)
(* guard against a second grader is the check of find_qemu_pids() at       *)
(* start-up (lines 564-570): a precondition, not a lock.                   *)
(*                                                                         *)
(* Work[g] is the sequence of kernel argument strings grader g boots with: *)
(* one '--quite <test>' per selected test in grade mode (line 410), or the *)
(* single argv string of 'cargo run' (line 406).  The contents of grub.cfg *)
(* and kernel.iso are abstracted to the argument they carry.               *)
(***************************************************************************)
EXTENDS Naturals, Sequences

CONSTANTS
    Graders,          \* the grader processes started
    Work,             \* Work[g]: the kernel arguments g boots with, in order
    MkRescueMayFail,  \* whether grub-mkrescue can exit non-zero (no xorriso, disk full)
    NoFile            \* grub.cfg or kernel.iso absent

(* The kernel argument strings the graders use.                          *)
Args == UNION {{Work[g][i] : i \in DOMAIN Work[g]} : g \in Graders}

ASSUME LauncherAssumption ==
    /\ Graders # {}
    /\ Work \in [Graders -> Seq(STRING)]
    /\ \A g \in Graders : Len(Work[g]) > 0
    /\ MkRescueMayFail \in BOOLEAN
    /\ NoFile \notin Args

VARIABLES
    gpc,      \* gpc[g]: "start" | "checked" | "cfg" | "mkrescue" | "boot" | "running" | "done" | "refused"
    tix,      \* tix[g]: index in Work[g] of the run g is preparing or running
    grubcfg,  \* the kernel argument written in the shared grub.cfg, or NoFile
    iso,      \* the kernel argument built into the shared kernel.iso, or NoFile
    qemu,     \* qemu[g]: the argument in the image g's emulator booted, NoFile if none
    foreign,  \* an emulator of another checkout or project is running
    disturbed \* observation: since g wrote grub.cfg, another grader replaced
              \* the boot files g was about to use, or g's grub-mkrescue failed

vars == <<gpc, tix, grubcfg, iso, qemu, foreign, disturbed>>

(* A kernel.iso left from an earlier session may be on disk.               *)
Init ==
    /\ gpc = [g \in Graders |-> "start"]
    /\ tix = [g \in Graders |-> 1]
    /\ grubcfg = NoFile
    /\ iso \in Args \cup {NoFile}
    /\ qemu = [g \in Graders |-> NoFile]
    /\ foreign \in BOOLEAN
    /\ disturbed = [g \in Graders |-> FALSE]

(* find_qemu_pids(), lines 39-63: some process, of any checkout, runs     *)
(* qemu-system-x86_64 on a kernel.iso.                                     *)
EmulatorRunning == foreign \/ \E h \in Graders : gpc[h] = "running"

Step(g, from, to) == gpc[g] = from /\ gpc' = [gpc EXCEPT ![g] = to]

(* Observation: a step of g replaces a boot file, grub.cfg for the graders *)
(* about to run grub-mkrescue ("mkrescue"), kernel.iso for those about to  *)
(* boot it ("boot"); the other graders at that point are disturbed.        *)
Disturb(g, at) == [h \in Graders |-> disturbed[h] \/ (h # g /\ gpc[h] = at)]

(* Lines 564-570: refuse to start while an emulator runs.                  *)
CheckQemu(g) ==
    /\ gpc[g] = "start"
    /\ gpc' = [gpc EXCEPT ![g] = IF EmulatorRunning THEN "refused" ELSE "checked"]
    /\ UNCHANGED <<tix, grubcfg, iso, qemu, foreign, disturbed>>

(* Lines 572-578: grub_files is removed and re-created, which deletes      *)
(* grub.cfg; kernel.iso lies outside it and stays.                         *)
Prepare(g) ==
    /\ Step(g, "checked", "cfg")
    /\ grubcfg' = NoFile
    /\ disturbed' = Disturb(g, "mkrescue")
    /\ UNCHANGED <<tix, iso, qemu, foreign>>

(* setup_kernel_arguments(), lines 359-372: grub.cfg is written.           *)
WriteCfg(g) ==
    /\ Step(g, "cfg", "mkrescue")
    /\ grubcfg' = Work[g][tix[g]]
    /\ disturbed' = [Disturb(g, "mkrescue") EXCEPT ![g] = FALSE]
    /\ UNCHANGED <<tix, iso, qemu, foreign>>

(* Mutant: grub-mkrescue started with Popen and not waited for, so the    *)
(* emulator may open kernel.iso before it is rewritten.                    *)
MkRescueDetached(g) ==
    /\ Step(g, "mkrescue", "boot")
    /\ iso' \in {iso, grubcfg}
    /\ disturbed' = Disturb(g, "boot")
    /\ UNCHANGED <<tix, grubcfg, qemu, foreign>>

(* Lines 374-378: grub-mkrescue builds kernel.iso from grub_files.         *)
MkRescue(g) ==
    /\ Step(g, "mkrescue", "boot")
    /\ iso' = grubcfg
    /\ disturbed' = Disturb(g, "boot")
    /\ UNCHANGED <<tix, grubcfg, qemu, foreign>>

(* Lines 374-378: grub-mkrescue fails; its exit status is not checked and  *)
(* its stderr is discarded, so the old kernel.iso stays.                   *)
MkRescueFails(g) ==
    /\ MkRescueMayFail
    /\ Step(g, "mkrescue", "boot")
    /\ disturbed' = [disturbed EXCEPT ![g] = TRUE]
    /\ UNCHANGED <<tix, grubcfg, iso, qemu, foreign>>

(* Lines 407, 413-421 and 436-446: the emulator is started on kernel.iso.  *)
Boot(g) ==
    /\ Step(g, "boot", "running")
    /\ qemu' = [qemu EXCEPT ![g] = iso]
    /\ UNCHANGED <<tix, grubcfg, iso, foreign, disturbed>>

(* Lines 458-471: the emulator exits; grade() goes on to its next test, or *)
(* the grader ends.                                                        *)
Finish(g) ==
    /\ gpc[g] = "running"
    /\ qemu' = [qemu EXCEPT ![g] = NoFile]
    /\ IF tix[g] < Len(Work[g])
          THEN /\ tix' = [tix EXCEPT ![g] = @ + 1]
               /\ gpc' = [gpc EXCEPT ![g] = "cfg"]
          ELSE /\ gpc' = [gpc EXCEPT ![g] = "done"]
               /\ UNCHANGED tix
    /\ UNCHANGED <<grubcfg, iso, foreign, disturbed>>

(* Another checkout's emulator starts or stops; it shares no files with    *)
(* this directory's graders.                                               *)
ForeignStart == ~foreign /\ foreign' = TRUE /\ UNCHANGED <<gpc, tix, grubcfg, iso, qemu, disturbed>>
ForeignStop == foreign /\ foreign' = FALSE /\ UNCHANGED <<gpc, tix, grubcfg, iso, qemu, disturbed>>

Terminated == \A g \in Graders : gpc[g] \in {"done", "refused"}
Halt == Terminated /\ UNCHANGED vars

Grader(g) ==
    CheckQemu(g) \/ Prepare(g) \/ WriteCfg(g) \/ MkRescue(g)
    \/ MkRescueFails(g) \/ Boot(g) \/ Finish(g)

Next == (\E g \in Graders : Grader(g)) \/ ForeignStart \/ ForeignStop \/ Halt

Spec == Init /\ [][Next]_vars

-----------------------------------------------------------------------------
(* Type invariant.                                                          *)
TypeOK ==
    /\ gpc \in [Graders -> {"start", "checked", "cfg", "mkrescue", "boot",
                            "running", "done", "refused"}]
    /\ tix \in [Graders -> Nat]
    /\ \A g \in Graders : tix[g] \in 1..Len(Work[g])
    /\ grubcfg \in Args \cup {NoFile}
    /\ iso \in Args \cup {NoFile}
    /\ qemu \in [Graders -> Args \cup {NoFile}]
    /\ foreign \in BOOLEAN
    /\ disturbed \in [Graders -> BOOLEAN]

(* setup_kernel_arguments() rebuilds kernel.iso from the grub.cfg it has   *)
(* just written and the emulator boots it (lines 359-378, 407-446), so a   *)
(* grader boots another test's arguments only if, between its write of    *)
(* grub.cfg and its boot, another grader of the directory removed or       *)
(* rewrote grub.cfg or rebuilt kernel.iso, or its own grub-mkrescue failed *)
(* unnoticed: no stale image of an earlier session or test, no emulator   *)
(* of another checkout and no finished run can make it boot the wrong one. *)
OwnTestUnlessDisturbed ==
    \A g \in Graders :
        (gpc[g] = "running" /\ ~disturbed[g]) => qemu[g] = Work[g][tix[g]]

(* Spec 4.5 and 5: the boot configuration is regenerated before every     *)
(* invocation and the emulator is exclusive, so every running emulator     *)
(* boots the kernel with the arguments of the run its grader is at.        *)
BootsOwnTest ==
    \A g \in Graders : gpc[g] = "running" => qemu[g] = Work[g][tix[g]]
=============================================================================
