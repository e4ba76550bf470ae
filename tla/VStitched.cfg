SPECIFICATION Spec
CONSTANT Plans <- OnlyChange
INVARIANT PublishedIsOneVersion
CHECK_DEADLOCK FALSE
