CONSTANTS
    NoFile = NoFile
    Graders <- MCGradersTwo
    Work <- MCWorkTwo
    MkRescueMayFail = FALSE

SPECIFICATION Spec

INVARIANT BootsOwnTest
