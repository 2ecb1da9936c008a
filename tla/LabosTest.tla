----------------------------- MODULE LabosTest -----------------------------
(***************************************************************************)
(* The allocator test program of Chapter_04_Timer/03_GMA/programs/        *)
(* labos2test (labos2test.c) built with MEM_ALLOCATOR == BF, driving the  *)
(* best-fit allocator (BestFit) through MEM_ALLOC and MEM_FREE.            *)
(*                                                                         *)
(* The program keeps broj_kazaljki pointers p[], all NULL at first, and  *)
(* repeats 20 times: draw an index i; free p[i] and set it to NULL if it  *)
(* is set, otherwise allocate a block of a drawn size into it (NULL when  *)
(* bf_alloc fails).  rand ( &rseed ) is a choice of index and of size.    *)
(* The malloc and memset of the pool and the prints are left out; a       *)
(* failed malloc returns before anything is allocated.  The pool is never *)
(* freed and the blocks still held at the end are never freed either.     *)
(***************************************************************************)
EXTENDS BestFit

CONSTANTS
    PTRS,        \* broj_kazaljki, the entries of p[] (20)
    ROUNDS       \* passes of the while ( n < 20 ) loop

ASSUME PTRS \in Nat \ {0} /\ ROUNDS \in Nat

LNULL == NOCHUNK  \* p[i] == NULL

VARIABLES
    ptab,        \* p[0 .. PTRS-1]: the chunk of each pointer, or LNULL
    n            \* passes of the loop so far

lvars == <<ptab, n>>

Ptrs == 0 .. PTRS - 1

LInit ==
    /\ Init
    /\ ptab = [k \in Ptrs |-> LNULL]
    /\ n = 0

(* Variant for checking: the pointer is not reset after the free *)
LFree_noclear(i) ==
    /\ n < ROUNDS
    /\ ptab[i] # LNULL
    /\ Free(ptab[i])
    /\ n' = n + 1
    /\ UNCHANGED ptab

(* p[i] set: MEM_FREE ( mpool, p[i] ); p[i] = NULL *)
LFree(i) ==
    /\ n < ROUNDS
    /\ ptab[i] # LNULL
    /\ Free(ptab[i])
    /\ ptab' = [ptab EXCEPT ![i] = LNULL]
    /\ n' = n + 1

(* p[i] NULL: p[i] = MEM_ALLOC ( mpool, velicina_bloka ), NULL on failure *)
LAlloc(i, r) ==
    /\ n < ROUNDS
    /\ ptab[i] = LNULL
    /\ Alloc(r)
    /\ ptab' = [ptab EXCEPT ![i] = AllocResult(r)]
    /\ n' = n + 1

LNext ==
    \E i \in Ptrs :
        \/ LFree(i)
        \/ \E r \in Requests : LAlloc(i, r)

LSpec == LInit /\ [][LNext]_<<vars, lvars>>
-----------------------------------------------------------------------------
LTypeOK ==
    /\ ptab \in [Ptrs -> {LNULL} \cup DOMAIN hdr]
    /\ n \in 0 .. ROUNDS

(***************************************************************************)
(* What labos2test relies on when it frees p[i] only because it is not  *)
(* NULL: the pointers bf_alloc returned into p[] and that are still set  *)
(* are exactly the chunks bf_alloc has marked used and bf_free has not    *)
(* freed, and no two share a chunk.  A bf_alloc that returns a chunk     *)
(* still handed out, or one it did not mark, makes a later pass free a   *)
(* block twice, which bf_free does not detect.                           *)
(***************************************************************************)
PointersMatchPool ==
    LET set == {k \in Ptrs : ptab[k] # LNULL}
    IN  /\ {ptab[k] : k \in set} = held
        /\ \A k1, k2 \in set : ptab[k1] = ptab[k2] => k1 = k2
=============================================================================
