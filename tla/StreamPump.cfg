SPECIFICATION Spec
CONSTANTS
    MaxPieces = 4
    Window = 2
CHECK_DEADLOCK FALSE
INVARIANTS
    TypeOK
    DoneMeansComplete
    SeenIsPrefix
PROPERTIES
    DeliversText
    UpstreamReleased
