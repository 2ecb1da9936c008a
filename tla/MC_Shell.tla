------------------------------- MODULE MC_Shell -------------------------------
(* A 6 x 2 text page, a 3-character command line, and command names over a *)
(* few letters: help "h" shares its first letter with the program "hc",    *)
(* clear "cl" is the only name starting with "c", quit "q" is a prefix of  *)
(* sysinfo "qc".                                                           *)
EXTENDS Shell

MC_Glyphs == {"h", "c", "l", "q", "x", ">", " ", "t"}
MC_ShCmds == << <<"h">>, <<"c", "l">>, <<"q", "c">>, <<"x">>, <<"q">> >>
MC_Progs == << <<"h", "c">> >>
MC_Keys == {"h", "c", "q", " "}
MC_ProgOutputs == {<<>>, <<"t", "LF">>}
=============================================================================
