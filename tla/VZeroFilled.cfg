SPECIFICATION Spec
CONSTANT Plans <- BothFaults
INVARIANT PublishedIsWhole
CHECK_DEADLOCK FALSE
