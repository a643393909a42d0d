CONSTANTS
    NoFile = NoFile
    Graders <- MCGradersTwo
    Work <- MCWorkTwo
    MkRescueMayFail = TRUE

SPECIFICATION Spec

INVARIANT OwnTestUnlessDisturbed
