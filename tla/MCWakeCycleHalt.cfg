CONSTANTS
    MaxStatus = 3
    RestartMax = 3
SPECIFICATION Spec
INVARIANT HaltIsWoken
