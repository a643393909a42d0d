---------------------------- MODULE IgnoreFilter ----------------------------
(***************************************************************************)
(* is_ignored() of .cargo/run.py (lines 65-105), on the path string the   *)
(* integrity check passes it, and the Python string operations it rests   *)
(* on: 'x in s', s.startswith, s.endswith, Path(s).name.                  *)
(***************************************************************************)
EXTENDS Naturals, Sequences

(* Python 'pat in s' for a non-empty pat.                                   *)
IsSubstr(pat, s) ==
    \E i \in 1..(Len(s) - Len(pat) + 1) : SubSeq(s, i, i + Len(pat) - 1) = pat

StartsWith(s, pre) == Len(pre) <= Len(s) /\ SubSeq(s, 1, Len(pre)) = pre
EndsWith(s, suf) == Len(suf) <= Len(s) /\ SubSeq(s, Len(s) - Len(suf) + 1, Len(s)) = suf

(* Path(s).name: the text after the last '/'.                              *)
BaseName(s) ==
    LET slashes == {i \in 1..Len(s) : SubSeq(s, i, i) = "/"}
        last == IF slashes = {} THEN 0
                ELSE CHOOSE i \in slashes : \A j \in slashes : j <= i
    IN  SubSeq(s, last + 1, Len(s))

(* '/'.join of a non-empty sequence of path segments.                      *)
JoinPath(segs) ==
    LET J[i \in 1..Len(segs)] == IF i = 1 THEN segs[1] ELSE J[i - 1] \o "/" \o segs[i]
    IN  J[Len(segs)]

(* Python s.replace(old, new): every non-overlapping occurrence of old,   *)
(* left to right, replaced by new.                                         *)
ReplaceAllStr(s, old, new) ==
    LET n == Len(s)
        m == Len(old)
        F[i \in 1..n + 1] ==
            IF i > n THEN ""
            ELSE IF i + m - 1 <= n /\ SubSeq(s, i, i + m - 1) = old
                    THEN new \o F[i + m]
                    ELSE SubSeq(s, i, i) \o F[i + 1]
    IN  F[1]

DigitValue == [c \in {"0", "1", "2", "3", "4", "5", "6", "7", "8", "9"} |->
                 CHOOSE d \in 0..9 : SubSeq("0123456789", d + 1, d + 1) = c]
(* Python int(s) succeeds on a non-empty string of decimal digits (the     *)
(* directory names modelled have no sign, blank or underscore).            *)
IsDecimal(s) == Len(s) > 0 /\ \A i \in 1..Len(s) : SubSeq(s, i, i) \in DOMAIN DigitValue
DecimalValue(s) ==
    LET V[i \in 0..Len(s)] == IF i = 0 THEN 0 ELSE 10 * V[i - 1] + DigitValue[SubSeq(s, i, i)]
    IN  V[Len(s)]

(* IGNORED_PATTERNS of line 66: the entries ending in '/' are matched as a *)
(* directory ('/d/' inside, or '/d' at the end), the others as a substring *)
(* of the whole path.  No entry contains '*', so the fnmatch branch of     *)
(* lines 98-101 never runs.                                                *)
DirPatterns == {"target", "build", "build_objects", ".cargo/template"}
SubstrPatterns == {"keos_kernel", "ffs.bin", "sfs.bin", ".o", "kelibc.a", "Cargo.lock"}
ROOTFS_EXCEPTIONS == {"hello", "os-release", "simple_fs.tar"}

InDir(s, d) == IsSubstr("/" \o d \o "/", s) \/ EndsWith(s, "/" \o d)

(* Lines 77-91: a path inside a rootfs directory is ignored unless its     *)
(* name starts with 'hello' or is another exception; the rootfs directory  *)
(* itself is always ignored.                                               *)
RootfsIgnored(s) ==
    \/ EndsWith(s, "/rootfs")
    \/ /\ ~StartsWith(BaseName(s), "hello")
       /\ BaseName(s) \notin ROOTFS_EXCEPTIONS

(* is_ignored(file_path), lines 65-105.                                    *)
IsIgnored(s) ==
    IF InDir(s, "rootfs")
       THEN RootfsIgnored(s)
       ELSE \/ \E d \in DirPatterns : InDir(s, d)
            \/ \E p \in SubstrPatterns : IsSubstr(p, s)
=============================================================================
