--------------------------- MODULE MC_IgnoreFilter ---------------------------
(* is_ignored() on every path of up to three segments below the repository *)
(* root, built from directory names of the KeOS tree and file names of its *)
(* rootfs.                                                                  *)
EXTENDS IgnoreFilter

Root == "/home/student/KeOS"
DirNames == {"keos", "rootfs", "src", "target"}
FileNames == {"hello", "hello_world", "os-release", "init", "main.rs"}
Paths == {<<d, f>> : d \in DirNames, f \in FileNames}
           \cup {<<d1, d2, f>> : d1 \in DirNames, d2 \in DirNames, f \in FileNames}

VARIABLE path
Init == path \in Paths
Next == UNCHANGED path

Str(segs) == Root \o "/" \o JoinPath(segs)

(* os.walk prunes every directory is_ignored() accepts (lines 171 and 185) *)
(* and never looks below it, so the filter only means what it says if a    *)
(* file below an ignored directory is itself ignored; line 71 promises the *)
(* opposite for the rootfs exceptions ('ignore rootfs/ but keep specific   *)
(* files').                                                                 *)
PruningLosesNothing ==
    \A i \in 1..(Len(path) - 1) :
        IsIgnored(Str(SubSeq(path, 1, i))) => IsIgnored(Str(path))
=============================================================================
