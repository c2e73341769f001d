CONSTANTS
    MaxStatus = 3
    RestartMax = 3
SPECIFICATION Spec
INVARIANTS
    HaltListens
    RestartsBounded
    FastlinkIsTrue
PROPERTIES
    NoPhantomWake
    SleepEnds
    CommandTaken
