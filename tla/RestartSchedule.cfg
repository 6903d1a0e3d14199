CONSTANTS
    lubyNumbersMultiplier = 75
    MaxRestarts = 20
SPECIFICATION Spec
INVARIANT LubyRestarts
CHECK_DEADLOCK FALSE
