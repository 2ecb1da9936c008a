\* The shell on a 6 x 3 VGA page: the echo of the command line stays what cmd holds.
CONSTANTS
    COLS = 6
    ROWS = 2
    TABW = 2
    BootText = BootText
    Glyphs <- MC_Glyphs
    MAXCMDLEN = 3
    MAXARGS = 2
    ShCmds <- MC_ShCmds
    Progs <- MC_Progs
    Keys <- MC_Keys
    Txt = "t"
    ProgOutputs <- MC_ProgOutputs
SPECIFICATION Spec
INVARIANTS
    TypeOK
    EchoShowsCommand
\* quit and exit return from shell (): nothing runs after that
CHECK_DEADLOCK FALSE
