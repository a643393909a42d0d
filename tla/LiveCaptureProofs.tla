------------------------- MODULE LiveCaptureProofs -------------------------
(***************************************************************************)
(* Proofs about the live branch of grade_single() (LiveCapture.tla), for  *)
(* every bound on the lines and every pipe capacity: the type invariant,  *)
(* that the captured output is the lines read since the last clear        *)
(* screen, and that the poll/readline loop refines the abstract stream    *)
(* LiveStream step by step.                                                *)
(***************************************************************************)
EXTENDS LiveCapture, SequenceTheorems, TLAPS

(* The inductive invariant: the pipe is the unread suffix of what the      *)
(* emulator wrote, the last clear of what was read exists, and the output  *)
(* and a returned text are what was read after it; nothing is returned    *)
(* before the harness is done.                                             *)
IInv ==
    /\ TypeOK
    /\ Len(pipe) <= Len(emitted)
    /\ Read \o pipe = emitted
    /\ LastClear(Read) \in 0..Len(Read) /\ IsLastClear(Read, LastClear(Read))
    /\ output = AfterLastClear(Read)
    /\ ret.kind = "text" => ret.text = output
    /\ hpc # "done" => ret.kind = "none"

(* Appending to the second part of a concatenation appends to the whole.   *)
LEMMA ConcatAppend ==
    ASSUME NEW a \in Seq(Lines), NEW q \in Seq(Lines), NEW l \in Lines
    PROVE  a \o Append(q, l) = Append(a \o q, l)
BY ConcatProperties, AppendProperties, SeqEqual

(* Moving the head of the second part to the end of the first.            *)
LEMMA ConcatShift ==
    ASSUME NEW a \in Seq(Lines), NEW q \in Seq(Lines), q # <<>>
    PROVE  Append(a, Head(q)) \o Tail(q) = a \o q
<1>1. Len(q) \in Nat \ {0} /\ Tail(q) \in Seq(Lines) /\ Head(q) \in Lines
          /\ Len(Tail(q)) = Len(q) - 1
          /\ \A i \in 1..Len(q) - 1 : Tail(q)[i] = q[i + 1]
    BY EmptySeq, LenProperties, HeadTailProperties
<1>. QED
    BY <1>1, ConcatProperties, AppendProperties, SeqEqual

(* The part after position k of a sequence grown by one line.             *)
LEMMA SuffixAppend ==
    ASSUME NEW s \in Seq(Lines), NEW l \in Lines, NEW k \in 0..Len(s)
    PROVE  SubSeq(Append(s, l), k + 1, Len(s) + 1) = Append(SubSeq(s, k + 1, Len(s)), l)
<1> DEFINE u == SubSeq(s, k + 1, Len(s))
            t == Append(s, l)
<1>1. u \in Seq(Lines) /\ Len(u) = Len(s) - k
      /\ \A i \in 1..Len(s) - k : u[i] = s[k + i]
    BY SubSeqProperties
<1>2. t \in Seq(Lines) /\ Len(t) = Len(s) + 1 /\ t[Len(s) + 1] = l
      /\ \A i \in 1..Len(s) : t[i] = s[i]
    BY AppendProperties
<1>3. SubSeq(t, k + 1, Len(s) + 1) \in Seq(Lines)
      /\ Len(SubSeq(t, k + 1, Len(s) + 1)) = Len(s) + 1 - k
      /\ \A i \in 1..Len(s) + 1 - k : SubSeq(t, k + 1, Len(s) + 1)[i] = t[k + i]
    BY <1>2, SubSeqProperties
<1>4. Append(u, l) \in Seq(Lines) /\ Len(Append(u, l)) = Len(s) - k + 1
      /\ Append(u, l)[Len(s) - k + 1] = l
      /\ \A i \in 1..Len(s) - k : Append(u, l)[i] = u[i]
    BY <1>1, AppendProperties
<1>5. \A i \in 1..Len(s) + 1 - k : SubSeq(t, k + 1, Len(s) + 1)[i] = Append(u, l)[i]
    BY <1>1, <1>2, <1>3, <1>4
<1>6. Len(SubSeq(t, k + 1, Len(s) + 1)) = Len(Append(u, l))
      /\ \A i \in 1..Len(SubSeq(t, k + 1, Len(s) + 1)) :
            SubSeq(t, k + 1, Len(s) + 1)[i] = Append(u, l)[i]
    BY <1>3, <1>4, <1>5
<1>7. SubSeq(t, k + 1, Len(s) + 1) = Append(u, l)
    BY <1>3, <1>4, <1>6, SeqEqual
<1>. QED
    BY <1>7

(* The lines read are a prefix of those written: the emulator's write     *)
(* appends to both the history and the pipe and leaves the prefix alone.   *)
LEMMA PrefixAfterWrite ==
    ASSUME NEW e \in Seq(Lines), NEW q \in Seq(Lines), NEW l \in Lines,
           Len(q) <= Len(e)
    PROVE  SubSeq(Append(e, l), 1, Len(Append(e, l)) - Len(Append(q, l)))
             = SubSeq(e, 1, Len(e) - Len(q))
<1>1. Len(Append(e, l)) - Len(Append(q, l)) = Len(e) - Len(q)
    OBVIOUS
<1>2. Len(e) - Len(q) \in 0..Len(e)
    OBVIOUS
<1>. QED
    BY <1>1, <1>2, SeqEqual

(* The line after a prefix a of a \o q is the head of q.                  *)
LEMMA ConcatNext ==
    ASSUME NEW a \in Seq(Lines), NEW q \in Seq(Lines), q # <<>>
    PROVE  (a \o q)[Len(a) + 1] = Head(q)
<1>1. Len(q) \in Nat \ {0}
    BY EmptySeq, LenProperties
<1>2. \A i \in 1..Len(a) + Len(q) :
          (a \o q)[i] = IF i <= Len(a) THEN a[i] ELSE q[i - Len(a)]
    BY ConcatProperties
<1>. QED
    BY <1>1, <1>2

(* readline() moves the head of the pipe to the end of the lines read.    *)
LEMMA PrefixAfterRead ==
    ASSUME NEW e \in Seq(Lines), NEW q \in Seq(Lines), q # <<>>,
           Len(q) <= Len(e),
           SubSeq(e, 1, Len(e) - Len(q)) \o q = e
    PROVE  SubSeq(e, 1, Len(e) - Len(Tail(q)))
             = Append(SubSeq(e, 1, Len(e) - Len(q)), Head(q))
<1> DEFINE n == Len(e) - Len(q)
           a == SubSeq(e, 1, n)
<1>0. Len(e) \in Nat /\ Len(q) \in Nat /\ Len(q) # 0
    BY EmptySeq, LenProperties
<1>1. n \in 0..Len(e) - 1 /\ Len(Tail(q)) = Len(q) - 1
    BY <1>0, HeadTailProperties
<1>2. a \in Seq(Lines) /\ Len(a) = n
    BY <1>1, SubSeqProperties
<1>3. e[n + 1] = Head(q)
    <2>1. (a \o q)[Len(a) + 1] = Head(q)
        BY <1>2, ConcatNext
    <2>. QED
        BY <1>2, <2>1
<1>. QED
    BY <1>1, <1>3, SeqEqual

(* The last clear of a sequence grown by one line: the new line if it      *)
(* holds ESC c, the old last clear otherwise.                              *)
LEMMA LastClearAppend ==
    ASSUME NEW s \in Seq(Lines), NEW l \in Lines,
           IsLastClear(s, LastClear(s)), LastClear(s) \in 0..Len(s)
    PROVE  /\ LastClear(Append(s, l)) = IF l = ClearLine THEN Len(s) + 1 ELSE LastClear(s)
           /\ IsLastClear(Append(s, l), LastClear(Append(s, l)))
           /\ LastClear(Append(s, l)) \in 0..Len(Append(s, l))
<1> DEFINE t == Append(s, l)
           k == IF l = ClearLine THEN Len(s) + 1 ELSE LastClear(s)
<1>1. k \in 0..Len(t) /\ IsLastClear(t, k)
    BY DEF IsLastClear
<1>2. ASSUME NEW i \in 0..Len(t), IsLastClear(t, i) PROVE i = k
    BY <1>2 DEF IsLastClear
<1>3. LastClear(t) = k
    BY <1>1, <1>2 DEF LastClear
<1>. QED
    BY <1>1, <1>3

(* What was read is a sequence of lines as long as the unread part is      *)
(* shorter than the history.                                               *)
LEMMA ReadType ==
    ASSUME emitted \in Seq(Lines), pipe \in Seq(Lines), Len(pipe) <= Len(emitted)
    PROVE  Read \in Seq(Lines) /\ Len(Read) = Len(emitted) - Len(pipe)
BY SubSeqProperties DEF Read

(* Before the launch nothing is written, read or captured.                 *)
LEMMA InitIInv == Init => IInv
<1> SUFFICES ASSUME Init PROVE IInv
    OBVIOUS
<1>0. <<>> \in Seq(Lines) /\ Len(<<>>) = 0
    BY EmptySeq
<1>1. TypeOK
  <2>1. ret \in [kind : {"none", "timeout", "text"}, text : Seq(Lines)]
    BY <1>0 DEF Init, NoReturn
  <2>2. alive \in BOOLEAN /\ hpc \in {"launch", "poll", "read", "done"}
    BY DEF Init
  <2>3. Len(emitted) <= MaxLines /\ Len(pipe) <= PipeCapacity
    BY <1>0, LiveCaptureAssumption DEF Init
  <2>. QED
    BY <1>0, <2>1, <2>2, <2>3 DEF Init, TypeOK
<1>2. Read = <<>>
    BY DEF Init, Read
<1>3. IsLastClear(<<>>, 0) /\ LastClear(<<>>) = 0
    BY DEF IsLastClear, LastClear
<1>4. AfterLastClear(<<>>) = <<>>
    BY <1>3 DEF AfterLastClear
<1>. QED
    BY <1>1, <1>2, <1>3, <1>4 DEF Init, IInv, NoReturn

(* A step that moves no line between the emulator, the pipe and the        *)
(* output keeps the invariant, provided the returned text is the output.   *)
LEMMA QuietStep ==
    ASSUME IInv, TypeOK',
           UNCHANGED <<emitted, pipe, output>>,
           ret'.kind = "text" => ret'.text = output,
           hpc' # "done" => ret'.kind = "none"
    PROVE  IInv'
<1>1. Read' = Read
    BY DEF Read
<1>. QED
    BY <1>1 DEF IInv

(* The emulator's print() appends one line to the history and to the pipe: *)
(* the lines read stay the same, and the pipe stays their unread suffix.   *)
LEMMA EmitStep ==
    ASSUME IInv, NEW l \in Lines, Emit(l)
    PROVE  IInv'
<1>0. TypeOK
    BY DEF IInv
<1>1. Read \in Seq(Lines) /\ Len(Read) = Len(emitted) - Len(pipe)
    BY ReadType DEF IInv, TypeOK
<1>2. TypeOK'
  <2>1. emitted' \in Seq(Lines) /\ Len(emitted') <= MaxLines
    BY <1>0, AppendProperties, LiveCaptureAssumption DEF TypeOK, Emit
  <2>2. pipe' \in Seq(Lines) /\ Len(pipe') <= PipeCapacity
    BY <1>0, AppendProperties, LiveCaptureAssumption DEF TypeOK, Emit
  <2>3. UNCHANGED <<alive, hpc, console, output, ret>>
    BY DEF Emit
  <2>. QED
    BY <2>1, <2>2, <2>3 DEF IInv, TypeOK
<1>3. Len(pipe') <= Len(emitted')
    BY AppendProperties DEF IInv, TypeOK, Emit
<1>4. Read' = Read
    BY PrefixAfterWrite DEF IInv, TypeOK, Emit, Read
<1>5. Read \o pipe' = emitted'
  <2>1. Read \o Append(pipe, l) = Append(Read \o pipe, l)
    BY <1>1, ConcatAppend DEF IInv, TypeOK
  <2>. QED
    BY <2>1 DEF IInv, Emit
<1>. QED
    BY <1>2, <1>3, <1>4, <1>5 DEF IInv, Emit

(* An empty run of positions is the empty sequence.                       *)
LEMMA EmptySuffix ==
    ASSUME NEW s \in Seq(Lines), NEW k \in Nat, k = Len(s) + 1
    PROVE  SubSeq(s, k + 1, Len(s)) = <<>>
<1>1. SubSeq(s, k + 1, Len(s)) \in Seq(Lines) /\ Len(SubSeq(s, k + 1, Len(s))) = 0
    BY SubSeqProperties
<1>. QED
    BY <1>1, EmptySeq

(* readline() moves the head of the pipe to the end of what was read, and  *)
(* that head is the line after what was read in the emulator's history.    *)
LEMMA ReadLineRead ==
    ASSUME IInv, ReadLine
    PROVE  /\ Read' = Append(Read, Head(pipe))
           /\ Len(Read) < Len(emitted)
           /\ emitted[Len(Read) + 1] = Head(pipe)
<1>0. TypeOK /\ pipe # <<>> /\ Read \o pipe = emitted
    BY DEF IInv, ReadLine
<1>1. Read \in Seq(Lines) /\ Len(Read) = Len(emitted) - Len(pipe)
    BY ReadType DEF IInv, TypeOK
<1>2. Read' = Append(Read, Head(pipe))
    BY PrefixAfterRead DEF IInv, TypeOK, ReadLine, Read
<1>3. Len(Read) < Len(emitted)
    BY <1>0, <1>1, EmptySeq DEF TypeOK
<1>4. (Read \o pipe)[Len(Read) + 1] = Head(pipe)
    BY <1>0, <1>1, ConcatNext DEF TypeOK
<1>. QED
    BY <1>0, <1>2, <1>3, <1>4

(* readline() takes the head of the pipe: it becomes the last line read;  *)
(* a clear screen empties the output, any other line is appended to it.   *)
LEMMA ReadLineStep ==
    ASSUME IInv, ReadLine
    PROVE  IInv'
<1> DEFINE h == Head(pipe)
<1>0. TypeOK /\ pipe # <<>>
    BY DEF IInv, ReadLine
<1>1. Read \in Seq(Lines) /\ Len(Read) = Len(emitted) - Len(pipe)
    BY ReadType DEF IInv, TypeOK
<1>2. h \in Lines /\ Tail(pipe) \in Seq(Lines) /\ Len(Tail(pipe)) = Len(pipe) - 1
    BY HeadTailProperties DEF IInv, TypeOK, ReadLine
<1>3. Read' = Append(Read, h)
    BY ReadLineRead
<1>4. TypeOK'
  <2>1. pipe' \in Seq(Lines) /\ Len(pipe') <= PipeCapacity
    BY <1>0, <1>2, LiveCaptureAssumption DEF TypeOK, ReadLine
  <2>2. console' \in Seq(Lines) /\ output' \in Seq(Lines)
    <3>1. CASE h = ClearLine
      <4>1. output' = <<>> /\ console' = console
        BY <3>1 DEF ReadLine
      <4>. QED
        BY <1>0, <4>1, EmptySeq DEF TypeOK
    <3>2. CASE h # ClearLine
      <4>1. output' = Append(output, h) /\ console' = Append(console, h)
        BY <3>2 DEF ReadLine
      <4>. QED
        BY <1>0, <1>2, <4>1, AppendProperties DEF TypeOK
    <3>. QED
      BY <3>1, <3>2
  <2>3. UNCHANGED <<emitted, alive, ret>> /\ hpc' = "poll"
    BY DEF ReadLine
  <2>. QED
    BY <2>1, <2>2, <2>3 DEF IInv, TypeOK
<1>5. Len(pipe') <= Len(emitted')
    BY <1>2 DEF IInv, TypeOK, ReadLine
<1>6. Read' \o pipe' = emitted'
  <2>1. Append(Read, h) \o Tail(pipe) = Read \o pipe
    BY <1>1, ConcatShift DEF IInv, TypeOK, ReadLine
  <2>. QED
    BY <1>3, <2>1 DEF IInv, ReadLine
<1>7. /\ LastClear(Read') = IF h = ClearLine THEN Len(Read) + 1 ELSE LastClear(Read)
      /\ LastClear(Read') \in 0..Len(Read') /\ IsLastClear(Read', LastClear(Read'))
    BY <1>1, <1>2, <1>3, LastClearAppend DEF IInv
<1>8. output' = AfterLastClear(Read')
  <2>1. CASE h = ClearLine
    <3>1. AfterLastClear(Read') = SubSeq(Read', Len(Read) + 2, Len(Read) + 1)
      BY <1>3, <1>7, <2>1, AppendProperties, <1>1, <1>2 DEF AfterLastClear
    <3>2. SubSeq(Read', Len(Read) + 2, Len(Read) + 1) = <<>>
      BY <1>1, <1>2, <1>3, AppendProperties, EmptySuffix
    <3>. QED
      BY <2>1, <3>1, <3>2 DEF ReadLine
  <2>2. CASE h # ClearLine
    <3>1. AfterLastClear(Read')
            = SubSeq(Append(Read, h), LastClear(Read) + 1, Len(Read) + 1)
      BY <1>1, <1>2, <1>3, <1>7, <2>2, AppendProperties DEF AfterLastClear
    <3>2. SubSeq(Append(Read, h), LastClear(Read) + 1, Len(Read) + 1)
            = Append(AfterLastClear(Read), h)
      BY <1>1, <1>2, SuffixAppend DEF IInv, AfterLastClear
    <3>. QED
      BY <2>2, <3>1, <3>2 DEF IInv, ReadLine
  <2>. QED
    BY <2>1, <2>2
<1>9. /\ ret'.kind = "text" => ret'.text = output'
      /\ hpc' # "done" => ret'.kind = "none"
    BY DEF IInv, ReadLine
<1>. QED
    BY <1>4, <1>5, <1>6, <1>7, <1>8, <1>9 DEF IInv

(* Every step of the harness and of the emulator keeps the invariant.      *)
LEMMA NextIInv == IInv /\ [Next]_vars => IInv'
<1> SUFFICES ASSUME IInv, [Next]_vars PROVE IInv'
    OBVIOUS
<1>0. TypeOK
    BY DEF IInv
<1>1. CASE Launch
  <2>1. TypeOK'
    BY <1>0, <1>1 DEF TypeOK, Launch
  <2>. QED
    BY <1>1, <2>1, QuietStep DEF IInv, Launch
<1>2. CASE LaunchFails
  <2>1. TypeOK'
    BY <1>0, <1>2, EmptySeq DEF TypeOK, LaunchFails, Timeout
  <2>. QED
    BY <1>2, <2>1, QuietStep DEF LaunchFails, Timeout
<1>3. CASE PollRunning
  <2>1. TypeOK'
    BY <1>0, <1>3 DEF TypeOK, PollRunning
  <2>. QED
    BY <1>3, <2>1, QuietStep DEF IInv, PollRunning
<1>4. CASE PollExited
  <2>1. CASE Contains(output, BinaryLine)
    <3>1. ret' = Timeout
      BY <1>4, <2>1 DEF PollExited
    <3>2. ret' \in [kind : {"none", "timeout", "text"}, text : Seq(Lines)]
      BY <3>1, EmptySeq DEF Timeout
    <3>3. TypeOK'
      BY <1>0, <1>4, <3>2 DEF TypeOK, PollExited
    <3>. QED
      BY <1>4, <3>1, <3>3, QuietStep DEF PollExited, Timeout
  <2>2. CASE ~Contains(output, BinaryLine)
    <3>1. ret' = Text(output)
      BY <1>4, <2>2 DEF PollExited
    <3>2. TypeOK'
      BY <1>0, <1>4, <3>1 DEF TypeOK, PollExited, Text
    <3>. QED
      BY <1>4, <3>1, <3>2, QuietStep DEF PollExited, Text
  <2>. QED
    BY <2>1, <2>2
<1>5. CASE ReadLine
    BY <1>5, ReadLineStep
<1>6. CASE ReadEOF
  <2>1. TypeOK'
    BY <1>0, <1>6 DEF TypeOK, ReadEOF
  <2>. QED
    BY <1>6, <2>1, QuietStep DEF IInv, ReadEOF
<1>7. CASE \E l \in Lines : Emit(l)
    BY <1>7, EmitStep
<1>8. CASE Exit
  <2>1. TypeOK'
    BY <1>0, <1>8 DEF TypeOK, Exit
  <2>. QED
    BY <1>8, <2>1, QuietStep DEF IInv, Exit
<1>9. CASE Done \/ UNCHANGED vars
  <2>1. UNCHANGED vars
    BY <1>9 DEF Done
  <2>2. TypeOK'
    BY <1>0, <2>1 DEF TypeOK, vars
  <2>. QED
    BY <2>1, <2>2, QuietStep DEF IInv, vars
<1>. QED
    BY <1>1, <1>2, <1>3, <1>4, <1>5, <1>6, <1>7, <1>8, <1>9 DEF Next, Harness

(* The live branch of grade_single() keeps its variables in their types.   *)
THEOREM TypeCorrect == Spec => []TypeOK
<1>1. IInv => TypeOK
    BY DEF IInv
<1>. QED
    BY <1>1, InitIInv, NextIInv, PTL DEF Spec

(* Reading the pipe one line at a time, restarting the accumulation at a  *)
(* clear screen, leaves grade_single() with the lines read after the last  *)
(* ESC c, in the order the emulator wrote them, and returns exactly those. *)
THEOREM CaptureAfterLastClearInvariant == Spec => []CaptureAfterLastClear
<1>1. IInv => CaptureAfterLastClear
    BY DEF IInv, CaptureAfterLastClear
<1>. QED
    BY <1>1, InitIInv, NextIInv, PTL DEF Spec

-----------------------------------------------------------------------------
(* Refinement of LiveStream under consumed <- Read, phase <- Phase.        *)

(* Before the launch the abstract stream is idle and has delivered nothing. *)
LEMMA InitRefines == Init => Abstract!Init
<1> SUFFICES ASSUME Init PROVE Abstract!Init
    OBVIOUS
<1>1. Read = <<>>
    BY DEF Init, Read
<1>2. Phase = "idle"
    BY DEF Init, Phase
<1>. QED
    BY <1>1, <1>2 DEF Init, Abstract!Init, NoReturn, Abstract!NoReturn

(* readline() of a line in the pipe delivers the next undelivered line.   *)
LEMMA ReadLineDelivers ==
    ASSUME IInv, ReadLine
    PROVE  Abstract!Deliver
<1>1. /\ Read' = Append(Read, Head(pipe))
      /\ Len(Read) < Len(emitted)
      /\ emitted[Len(Read) + 1] = Head(pipe)
    BY ReadLineRead
<1>2. Phase = "live" /\ Phase' = "live"
    BY DEF ReadLine, Phase
<1>3. CASE Head(pipe) = ClearLine
    <2>1. output' = <<>> /\ console' = console
      BY <1>3 DEF ReadLine
    <2>. QED
      BY <1>1, <1>2, <1>3, <2>1 DEF ReadLine, Abstract!Deliver, Abstract!ClearLine, ClearLine
<1>4. CASE Head(pipe) # ClearLine
    <2>1. output' = Append(output, Head(pipe)) /\ console' = Append(console, Head(pipe))
      BY <1>4 DEF ReadLine
    <2>. QED
      BY <1>1, <1>2, <1>4, <2>1 DEF ReadLine, Abstract!Deliver, Abstract!ClearLine, ClearLine
<1>. QED
    BY <1>3, <1>4

(* poll() seeing the exit returns the decoded accumulation, or 'timeout'.  *)
LEMMA PollExitedReturns ==
    ASSUME IInv, PollExited
    PROVE  Abstract!Return
<1>1. Phase = "live" /\ Phase' = "returned" /\ Read' = Read
    BY DEF PollExited, Phase, Read
<1>. QED
    BY <1>1 DEF PollExited, Abstract!Return, Abstract!Contains, Contains,
               Abstract!Timeout, Timeout, Abstract!Text, Text, Abstract!BinaryLine, BinaryLine

(* A line printed by the emulator is written to the abstract stream.      *)
LEMMA EmitWrites ==
    ASSUME IInv, NEW l \in Lines, Emit(l)
    PROVE  Abstract!Write(l)
<1>1. Read' = Read
    BY PrefixAfterWrite DEF IInv, TypeOK, Emit, Read
<1>2. Phase' = Phase
    BY DEF Emit, Phase
<1>. QED
    BY <1>1, <1>2 DEF Emit, Abstract!Write

(* The harness's other steps are launches, stops, or invisible.            *)
LEMMA OtherStepsRefine ==
    ASSUME IInv,
           Launch \/ LaunchFails \/ PollRunning \/ ReadEOF \/ Exit \/ Done \/ UNCHANGED vars
    PROVE  Abstract!Start \/ Abstract!StartFails \/ Abstract!Stop
             \/ UNCHANGED Abstract!avars
<1>1. UNCHANGED <<emitted, pipe>>
    BY DEF Launch, LaunchFails, PollRunning, ReadEOF, Exit, Done, vars
<1>2. Read' = Read
    BY <1>1 DEF Read
<1>3. CASE Launch
    BY <1>2, <1>3 DEF Launch, Phase, Abstract!Start
<1>4. CASE LaunchFails
    BY <1>2, <1>4 DEF LaunchFails, Phase, Abstract!StartFails, Timeout, Abstract!Timeout
<1>5. CASE PollRunning \/ ReadEOF
    BY <1>2, <1>5 DEF PollRunning, ReadEOF, Phase, Abstract!avars
<1>6. CASE Exit
    BY <1>2, <1>6 DEF Exit, Phase, Abstract!Stop
<1>7. CASE Done \/ UNCHANGED vars
    BY <1>2, <1>7 DEF Done, vars, Phase, Abstract!avars
<1>. QED
    BY <1>3, <1>4, <1>5, <1>6, <1>7

(* Every step of the live branch is a step of the abstract stream or       *)
(* leaves it as it is.                                                     *)
LEMMA StepRefines == IInv /\ [Next]_vars => [Abstract!Next]_Abstract!avars
<1> SUFFICES ASSUME IInv, [Next]_vars PROVE [Abstract!Next]_Abstract!avars
    OBVIOUS
<1>1. CASE ReadLine
    BY <1>1, ReadLineDelivers DEF Abstract!Next
<1>2. CASE PollExited
    BY <1>2, PollExitedReturns DEF Abstract!Next
<1>3. CASE \E l \in Lines : Emit(l)
  <2>1. PICK l \in Lines : Emit(l)
    BY <1>3
  <2>2. Abstract!Write(l)
    BY <2>1, EmitWrites
  <2>3. l \in Abstract!Lines
    BY <2>1 DEF Abstract!Lines, Lines, Abstract!ClearLine, ClearLine,
              Abstract!MarkerLine, MarkerLine, Abstract!PlainLine, PlainLine,
              Abstract!BinaryLine, BinaryLine
  <2>. QED
    BY <2>2, <2>3 DEF Abstract!Next
<1>4. CASE Launch \/ LaunchFails \/ PollRunning \/ ReadEOF \/ Exit \/ Done \/ UNCHANGED vars
    BY <1>4, OtherStepsRefine DEF Abstract!Next
<1>. QED
    BY <1>1, <1>2, <1>3, <1>4 DEF Next, Harness

(* The poll/readline loop over the pipe implements the safety part of the  *)
(* abstract stream: the harness delivers the emulator's lines one at a     *)
(* time and in order, mirrors and accumulates them as Deliver does, and    *)
(* returns only as Return does, after the emulator exited.                 *)
THEOREM ImplementsLiveStreamSafety ==
    Spec => Abstract!Init /\ [][Abstract!Next]_Abstract!avars
<1>1. Spec => []IInv
    BY InitIInv, NextIInv, PTL DEF Spec
<1>. QED
    BY <1>1, InitIInv, InitRefines, StepRefines, PTL DEF Spec
====
