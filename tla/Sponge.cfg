SPECIFICATION SpongeSpec
CONSTANTS
    Element <- Elements
    ZeroElement <- None
    Plus <- Sum
    IV <- LengthIV
    PermuteLane <- LaneOf
    MaxLength = 7
INVARIANTS SpongesAgree HashesDistinct
CHECK_DEADLOCK FALSE
