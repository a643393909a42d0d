---------------------------- MODULE LiveCapture ----------------------------
(***************************************************************************)
(* The live branch of grade_single() in .cargo/run.py (lines 412-434),    *)
(* run when grade() has a filter: the emulator is started with its stdout *)
(* on a pipe, and the harness loops                                        *)
(*     while p.poll() == None: out = p.stdout.readline(); ...              *)
(* resetting the accumulated output on a line holding the clear-screen    *)
(* sequence ESC c, and mirroring every other line to the console and       *)
(* accumulating it (a line holding ESC c is not mirrored, line 428, where  *)
(* spec section 8 says everything is mirrored unconditionally).  The      *)
(* emulator runs concurrently: it writes lines into the pipe (blocking     *)
(* when the pipe is full) and may exit at any moment.                      *)
(*                                                                         *)
(* A line is abstracted to its kind: one holding ESC c, one holding the    *)
(* success marker, any other text, and one whose bytes are not UTF-8.      *)
(***************************************************************************)
EXTENDS Naturals, Sequences

CONSTANTS
    MaxLines,       \* bound on the number of lines the emulator writes
    PipeCapacity    \* lines the OS pipe buffers before the writer blocks

ASSUME LiveCaptureAssumption ==
    /\ MaxLines \in Nat
    /\ PipeCapacity \in Nat \ {0}

ClearLine  == "clear"     \* contains b'\x1bc'
MarkerLine == "marker"    \* contains the success marker
PlainLine  == "plain"
BinaryLine == "binary"    \* not valid UTF-8
Lines == {ClearLine, MarkerLine, PlainLine, BinaryLine}

(* Contains of SequencesExt, restated: that module reaches recursive      *)
(* operators, which the proofs of LiveCaptureProofs cannot use.            *)
Contains(s, e) == \E i \in 1..Len(s) : s[i] = e

(* grade_single()'s return value: not yet returned, the sentinel         *)
(* 'timeout' of line 449, or the decoded transcript.                       *)
NoReturn == [kind |-> "none", text |-> <<>>]
Timeout  == [kind |-> "timeout", text |-> <<>>]
Text(s)  == [kind |-> "text", text |-> s]

VARIABLES
    emitted,   \* every line the emulator has written (history)
    pipe,      \* lines written and not yet read
    alive,     \* the emulator process has not exited (p.poll() is None)
    hpc,       \* harness: "launch" | "poll" | "read" | "done"
    console,   \* lines written to sys.stdout
    output,    \* the accumulated bytes, as lines
    ret        \* grade_single()'s return value

vars == <<emitted, pipe, alive, hpc, console, output, ret>>

Init ==
    /\ emitted = <<>>
    /\ pipe = <<>>
    /\ alive = FALSE
    /\ hpc = "launch"
    /\ console = <<>>
    /\ output = <<>>
    /\ ret = NoReturn

-----------------------------------------------------------------------------
(* Harness.                                                                 *)

(* Lines 413-421: subprocess.Popen starts the emulator.                    *)
Launch ==
    /\ hpc = "launch"
    /\ alive' = TRUE
    /\ hpc' = "poll"
    /\ UNCHANGED <<emitted, pipe, console, output, ret>>

(* Lines 447-449: Popen raises (e.g. no emulator binary): 'timeout'.       *)
LaunchFails ==
    /\ hpc = "launch"
    /\ ret' = Timeout
    /\ hpc' = "done"
    /\ UNCHANGED <<emitted, pipe, alive, console, output>>

(* Mutant: the loop does not consult p.poll() (a "while True" reader).    *)
PollIgnoringExit ==
    /\ hpc = "poll"
    /\ hpc' = "read"
    /\ UNCHANGED <<emitted, pipe, alive, console, output, ret>>

(* Line 424: p.poll() finds the emulator still running.                    *)
PollRunning ==
    /\ hpc = "poll"
    /\ alive
    /\ hpc' = "read"
    /\ UNCHANGED <<emitted, pipe, alive, console, output, ret>>

(* Mutant: the raw bytes are returned without being decoded.             *)
PollExitedUndecoded ==
    /\ hpc = "poll"
    /\ ~alive
    /\ ret' = output
    /\ hpc' = "done"
    /\ UNCHANGED <<emitted, pipe, alive, console, output>>

(* Mutant: the loop ends at the first poll, running or not.               *)
PollExitedAnyTime ==
    /\ hpc = "poll"
    /\ ret' = IF Contains(output, BinaryLine) THEN Timeout ELSE Text(output)
    /\ hpc' = "done"
    /\ UNCHANGED <<emitted, pipe, alive, console, output>>

(* Lines 424, 432-434 and 447-449: p.poll() finds the emulator exited; the *)
(* loop ends and the accumulated bytes are decoded, which raises for bytes *)
(* that are not UTF-8, turning the result into 'timeout'.                  *)
PollExited ==
    /\ hpc = "poll"
    /\ ~alive
    /\ ret' = IF Contains(output, BinaryLine) THEN Timeout ELSE Text(output)
    /\ hpc' = "done"
    /\ UNCHANGED <<emitted, pipe, alive, console, output>>

(* Mutant: the output is not reset on ESC c (line 427 missing).          *)
ReadLineNoReset ==
    /\ hpc = "read"
    /\ pipe # <<>>
    /\ LET l == Head(pipe) IN
         IF l = ClearLine
            THEN UNCHANGED <<output, console>>
            ELSE /\ console' = Append(console, l)
                 /\ output' = Append(output, l)
    /\ pipe' = Tail(pipe)
    /\ hpc' = "poll"
    /\ UNCHANGED <<emitted, alive, ret>>

(* Lines 425-431: readline() returns the next line; a line holding ESC c   *)
(* empties the output and is not echoed ('continue'); any other line is    *)
(* echoed and appended.                                                    *)
ReadLine ==
    /\ hpc = "read"
    /\ pipe # <<>>
    /\ LET l == Head(pipe) IN
         IF l = ClearLine
            THEN /\ output' = <<>>
                 /\ UNCHANGED console
            ELSE /\ console' = Append(console, l)
                 /\ output' = Append(output, l)
    /\ pipe' = Tail(pipe)
    /\ hpc' = "poll"
    /\ UNCHANGED <<emitted, alive, ret>>

(* Line 425: at end of file (emulator exited, pipe drained) readline()     *)
(* returns b'', which changes nothing.                                     *)
ReadEOF ==
    /\ hpc = "read"
    /\ pipe = <<>>
    /\ ~alive
    /\ hpc' = "poll"
    /\ UNCHANGED <<emitted, pipe, alive, console, output, ret>>

-----------------------------------------------------------------------------
(* Emulator.                                                                *)

(* The emulator writes a line; it blocks while the pipe is full.           *)
Emit(l) ==
    /\ alive
    /\ Len(emitted) < MaxLines
    /\ Len(pipe) < PipeCapacity
    /\ emitted' = Append(emitted, l)
    /\ pipe' = Append(pipe, l)
    /\ UNCHANGED <<alive, hpc, console, output, ret>>

(* The emulator exits (-no-reboot: the kernel shut down or crashed).       *)
(* Whatever it wrote stays in the pipe.                                    *)
Exit ==
    /\ alive
    /\ alive' = FALSE
    /\ UNCHANGED <<emitted, pipe, hpc, console, output, ret>>

Done == hpc = "done" /\ UNCHANGED vars

Harness == Launch \/ LaunchFails \/ PollRunning \/ PollExited \/ ReadLine \/ ReadEOF

Next == Harness \/ (\E l \in Lines : Emit(l)) \/ Exit \/ Done

(* The harness is a single thread that always takes its next step when it *)
(* can; the emulator gets no fairness: it may hang, and live mode has no   *)
(* timeout.                                                                 *)
Spec == Init /\ [][Next]_vars /\ WF_vars(Harness)

-----------------------------------------------------------------------------
(* Lines the harness has read so far.                                      *)
Read == SubSeq(emitted, 1, Len(emitted) - Len(pipe))

(* i is the position of the last line of s holding ESC c, 0 if none.      *)
IsLastClear(s, i) ==
    /\ i = 0 \/ s[i] = ClearLine
    /\ \A j \in i + 1..Len(s) : s[j] # ClearLine
LastClear(s) == CHOOSE i \in 0..Len(s) : IsLastClear(s, i)
(* The lines after the last line holding ESC c.                            *)
AfterLastClear(s) == SubSeq(s, LastClear(s) + 1, Len(s))

(* Type invariant.                                                          *)
TypeOK ==
    /\ emitted \in Seq(Lines) /\ Len(emitted) <= MaxLines
    /\ pipe \in Seq(Lines) /\ Len(pipe) <= PipeCapacity
    /\ alive \in BOOLEAN
    /\ hpc \in {"launch", "poll", "read", "done"}
    /\ console \in Seq(Lines)
    /\ output \in Seq(Lines)
    /\ ret \in [kind : {"none", "timeout", "text"}, text : Seq(Lines)]

(* The pipe delivers in order: what the harness has read, followed by what *)
(* is still in the pipe, is what the emulator wrote; the accumulated       *)
(* output, and a decoded return value, are the lines read since the last   *)
(* clear screen (spec 4.5: the portion after the most recent clear).       *)
CaptureAfterLastClear ==
    /\ Read \o pipe = emitted
    /\ output = AfterLastClear(Read)
    /\ ret.kind = "text" => ret.text = output

(* Once the emulator has exited, grade_single() returns.                   *)
ExitedReturns == (~alive /\ hpc # "launch") ~> (hpc = "done")

(* The harness's phase in the abstract stream.                            *)
Phase == CASE hpc = "launch" -> "idle"
           [] hpc = "done"   -> "returned"
           [] OTHER          -> "live"

Abstract == INSTANCE LiveStream WITH consumed <- Read, phase <- Phase

(* The poll/readline loop over the pipe implements the abstract stream:    *)
(* every harness step is a delivery of the next written line, a return     *)
(* after the emulator exited, or no visible step, and the harness returns  *)
(* whenever the abstract one must.                                         *)
ImplementsLiveStream == Abstract!Spec

(* Spec 4.5: the harness "copies output line-by-line ... as it arrives": *)
(* a success marker the emulator wrote after its last clear screen is in  *)
(* the transcript grade_single() returns.                                  *)
MarkerNotLost ==
    (hpc = "done" /\ ret.kind = "text" /\ Contains(AfterLastClear(emitted), MarkerLine))
        => Contains(ret.text, MarkerLine)

(* Spec 4.5: live mode returns 'timeout' only when the launch fails: a     *)
(* captured transcript holding the marker is returned.                     *)
MarkerReturned ==
    (hpc = "done" /\ Contains(AfterLastClear(Read), MarkerLine)) => ret # Timeout
=============================================================================
