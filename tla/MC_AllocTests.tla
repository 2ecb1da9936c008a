---------------------------- MODULE MC_AllocTests ----------------------------
(* dmem and labos2test on a pool of 24 words, requests of 2, 4 and 6      *)
(* words.  dmem: three table entries so that the table fills up, two     *)
(* first allocations, and enough test iterations to fill, empty and      *)
(* refill it.  labos2test: three pointers and eight passes, enough to    *)
(* fill the pool until an allocation fails and to free and reuse blocks. *)
EXTENDS AllocTests

MC_ARENA == 24
MC_Requests == {2, 4, 6}
MC_REQS == 3
MC_INIT_REQS == 2
MC_ITERS == 10
MC_PTRS == 3
MC_ROUNDS == 8
=============================================================================
