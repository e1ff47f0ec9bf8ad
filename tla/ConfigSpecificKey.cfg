SPECIFICATION Spec
CONSTANTS
    Inputs <- MCInputs
    BuiltinSize = 3
    BuiltinOverlap = 1
    MinSize = 2
    MaxLen = 6
    Blank = Blank
    Malformed = Malformed
    NoFile = NoFile
    BadFile = BadFile
INVARIANT SpecificKeyWins
\* A process that refused its configuration has exited; one text is cut.
CHECK_DEADLOCK FALSE
