CONSTANTS
    RootPath = "/home/student/KeOS"
    Files <- MCFiles
    WorkInit <- MCWorkInit
    TmplLocal <- MCTmplLocal
    Remote <- MCRemote
    Declared <- MCDeclared
    Stage = 2
    Modes = {"warn", "override", "restore"}
    MaxInvocations = 2

SPECIFICATION Spec

INVARIANT ScanFindsExactlyDrift
INVARIANT WalkListsReached
INVARIANT RestoresOnlyViolations
INVARIANT RestoreIdempotent
