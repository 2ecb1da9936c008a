\* A <tab> with several matching names discards the typed line.
CONSTANTS
    COLS = 6
    ROWS = 2
    TABW = 2
    BootText = BootText
    Glyphs <- MC_Glyphs
    MAXCMDLEN = 3
    MAXARGS = 2
    ShCmds <- MC_ShCmds
    Progs <- MC_Progs
    Keys <- MC_Keys
    Txt = "t"
    ProgOutputs <- MC_ProgOutputs
SPECIFICATION Spec
INVARIANTS
PROPERTY
    TabKeepsTypedText
CHECK_DEADLOCK FALSE
