CONSTANTS
    ARENA <- MC_ARENA
    Requests <- MC_Requests
SPECIFICATION Spec
PROPERTY BestFitChoice
