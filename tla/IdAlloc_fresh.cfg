CONSTANT MAX_RESOURCES <- MC_MAX_RESOURCES
SPECIFICATION Spec
INVARIANT TypeOK
 
\* halt() stops the machine: a halted state has no successor.
CHECK_DEADLOCK FALSE
