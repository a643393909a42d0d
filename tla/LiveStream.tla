----------------------------- MODULE LiveStream -----------------------------
(***************************************************************************)
(* What the live capture of grade_single() promises (spec 4.5), without   *)
(* the pipe and the poll/readline loop: the emulator's lines reach the     *)
(* harness one at a time and in order; the accumulation restarts at a     *)
(* clear screen, and every other line delivered is mirrored to the console *)
(* and accumulated.  The console is stated as the code keeps it (a clear   *)
(* screen is not mirrored, run.py line 428), not as spec section 8 puts it *)
(* ("everything is still mirrored").  The harness returns only after the  *)
(* emulator has exited, with the decoded accumulation, or 'timeout' when   *)
(* it cannot be decoded or the launch fails.  Lines still undelivered at   *)
(* the return are not promised.                                            *)
(***************************************************************************)
EXTENDS Naturals, Sequences

CONSTANT MaxLines

ClearLine  == "clear"
MarkerLine == "marker"
PlainLine  == "plain"
BinaryLine == "binary"
Lines == {ClearLine, MarkerLine, PlainLine, BinaryLine}

NoReturn == [kind |-> "none", text |-> <<>>]
Timeout  == [kind |-> "timeout", text |-> <<>>]
Text(s)  == [kind |-> "text", text |-> s]

Contains(s, e) == \E i \in 1..Len(s) : s[i] = e

VARIABLES
    emitted,   \* the lines the emulator has written
    consumed,  \* the lines delivered to the harness, a prefix of emitted
    alive,     \* the emulator runs
    phase,     \* "idle" | "live" | "returned"
    console,
    output,
    ret

avars == <<emitted, consumed, alive, phase, console, output, ret>>

Init ==
    /\ emitted = <<>> /\ consumed = <<>> /\ alive = FALSE
    /\ phase = "idle" /\ console = <<>> /\ output = <<>> /\ ret = NoReturn

Start ==
    /\ phase = "idle" /\ phase' = "live" /\ alive' = TRUE
    /\ UNCHANGED <<emitted, consumed, console, output, ret>>

StartFails ==
    /\ phase = "idle" /\ phase' = "returned" /\ ret' = Timeout
    /\ UNCHANGED <<emitted, consumed, alive, console, output>>

Write(l) ==
    /\ alive /\ Len(emitted) < MaxLines
    /\ emitted' = Append(emitted, l)
    /\ UNCHANGED <<consumed, alive, phase, console, output, ret>>

Stop ==
    /\ alive /\ alive' = FALSE
    /\ UNCHANGED <<emitted, consumed, phase, console, output, ret>>

(* The next undelivered line reaches the harness.                          *)
Deliver ==
    /\ phase = "live"
    /\ Len(consumed) < Len(emitted)
    /\ LET l == emitted[Len(consumed) + 1] IN
         /\ consumed' = Append(consumed, l)
         /\ IF l = ClearLine
               THEN output' = <<>> /\ UNCHANGED console
               ELSE output' = Append(output, l) /\ console' = Append(console, l)
    /\ UNCHANGED <<emitted, alive, phase, ret>>

Return ==
    /\ phase = "live" /\ ~alive
    /\ phase' = "returned"
    /\ ret' = IF Contains(output, BinaryLine) THEN Timeout ELSE Text(output)
    /\ UNCHANGED <<emitted, consumed, alive, console, output>>

Next ==
    \/ Start \/ StartFails \/ (\E l \in Lines : Write(l)) \/ Stop
    \/ Deliver \/ Return

(* The harness does not stop for ever before it returns.                   *)
Spec == Init /\ [][Next]_avars /\ WF_avars(Start \/ StartFails \/ Return)
=============================================================================
