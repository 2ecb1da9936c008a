CONSTANT MAX_RESOURCES <- MC_MAX_RESOURCES
SPECIFICATION Spec
INVARIANT IdZeroNeverIssued
CHECK_DEADLOCK FALSE
