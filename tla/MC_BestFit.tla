------------------------------ MODULE MC_BestFit ------------------------------
EXTENDS BestFit

\* a pool of 24 words; requests of 2, 4 and 6 words need chunks of 4, 6 and 8
MC_ARENA == 24
MC_Requests == {2, 4, 6}
=============================================================================
