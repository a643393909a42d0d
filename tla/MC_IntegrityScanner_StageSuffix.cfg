CONSTANTS
    RootPath = "/home/student/KeOS"
    Files <- MCFilesCommon
    WorkInit <- MCWorkInitCommon
    TmplLocal <- MCTmplLocalCommon
    Remote <- MCRemoteCommon
    Declared <- MCDeclared
    Stage = 2
    Modes = {"warn", "override"}
    MaxInvocations = 2

SPECIFICATION Spec

INVARIANT ScanFindsExactlyDrift
