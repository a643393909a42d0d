CONSTANTS
    RootPath = "/srv/build/KeOS"
    Files <- MCFiles
    WorkInit <- MCWorkInit
    TmplLocal <- MCTmplLocal
    Remote <- MCRemote
    Declared <- MCDeclared
    Stage = 2
    Modes = {"warn", "override"}
    MaxInvocations = 2

SPECIFICATION Spec

INVARIANT ScanFindsExactlyDrift
