-------------------------------- MODULE DMem --------------------------------
(***************************************************************************)
(* The allocator test program of Chapter_04_Timer/03_GMA/programs/dmem    *)
(* (dmem.c) built with MEM_ALLOCATOR == BF, driving the best-fit          *)
(* allocator (BestFit) through MEM_ALLOC and MEM_FREE.                     *)
(*                                                                         *)
(* The table m[] of requests holds, per entry, the pointer bf_alloc        *)
(* returned (here the chunk it belongs to, the pointer minus one word) and *)
(* the size asked for.  The test first allocates until init_requests      *)
(* entries are filled or an allocation fails, then, requests times,       *)
(* either allocates into the first empty entry or frees a random used     *)
(* entry.  rand ( &rseed ) is a choice: which branch, which size and      *)
(* which entry.  The malloc of pool and m, the memsets and the prints are *)
(* left out; a failed malloc returns before anything is allocated.       *)
(***************************************************************************)
EXTENDS BestFit

CONSTANTS
    REQS,        \* entries of m[] (requests, 100000)
    INIT_REQS,   \* allocations of the first loop (init_requests, 1500)
    ITERS        \* iterations of the test loop (requests, 100000)

ASSUME INIT_REQS \in 1 .. REQS /\ ITERS \in Nat

NULLP == NOCHUNK  \* m[j].ptr == NULL

VARIABLES
    m,           \* m[0 .. REQS-1]: [ptr, size]
    used,        \* blocks the test counts as allocated
    inuse,       \* sum of their sizes
    fail,        \* failed allocations of the current loop
    j,           \* index of the first loop
    i,           \* index of the test loop
    phase        \* "init" (first loop), "test" (test loop), "free" (in its
                 \* free branch) or "end"

dvars == <<m, used, inuse, fail, j, i, phase>>
allvars == <<vars, dvars>>

Entries == 0 .. REQS - 1

(* Variant for checking: used++ also when the allocation failed *)
AllocInto_countfail(e, r) ==
    /\ Alloc(r)
    /\ m' = [m EXCEPT ![e] = [ptr |-> AllocResult(r), size |-> r]]
    /\ used' = used + 1
    /\ inuse' = IF AllocResult(r) # NULLP THEN inuse + r ELSE inuse

(* m[e].size = r; m[e].ptr = MEM_ALLOC (...); used++ and inuse += r if it succeeded *)
AllocInto(e, r) ==
    /\ Alloc(r)
    /\ m' = [m EXCEPT ![e] = [ptr |-> AllocResult(r), size |-> r]]
    /\ used' = IF AllocResult(r) # NULLP THEN used + 1 ELSE used
    /\ inuse' = IF AllocResult(r) # NULLP THEN inuse + r ELSE inuse

DInit ==
    /\ Init
    /\ m = [e \in Entries |-> [ptr |-> NULLP, size |-> 0]]
    /\ used = 0 /\ inuse = 0 /\ fail = 0
    /\ j = 0 /\ i = 0
    /\ phase = "init"

(***************************************************************************)
(* One pass of the first loop: allocate into m[j].  A failure breaks out *)
(* before j++; leaving the loop, for either reason, prints and sets       *)
(* fail = 0.                                                               *)
(***************************************************************************)
InitAlloc(r) ==
    /\ phase = "init"
    /\ AllocInto(j, r)
    /\ j' = IF AllocResult(r) = NULLP THEN j ELSE j + 1
    /\ IF AllocResult(r) = NULLP \/ j + 1 = INIT_REQS
       THEN phase' = "test" /\ fail' = 0
       ELSE UNCHANGED <<phase, fail>>
    /\ UNCHANGED i

(* the first empty entry of m[], REQS when there is none *)
FirstEmpty == IF \E e \in Entries : m[e].ptr = NULLP
              THEN CHOOSE e \in Entries : m[e].ptr = NULLP /\ \A e2 \in 0 .. e - 1 : m[e2].ptr # NULLP
              ELSE REQS

(* rand & 1: allocate into the first empty entry *)
TestAlloc(r) ==
    /\ phase = "test" /\ i < ITERS
    /\ FirstEmpty < REQS
    /\ AllocInto(FirstEmpty, r)
    /\ fail' = IF AllocResult(r) = NULLP THEN fail + 1 ELSE fail
    /\ i' = i + 1
    /\ UNCHANGED <<j, phase>>

(* no empty entry: "No free element in m[]!" and break *)
TableFull ==
    /\ phase = "test" /\ i < ITERS
    /\ FirstEmpty = REQS
    /\ phase' = "end"
    /\ UNCHANGED <<vars, m, used, inuse, fail, j, i>>

(***************************************************************************)
(* otherwise free: "while ( used > 0 )" draws k until m[k].ptr is not     *)
(* NULL.  With used == 0 the loop is not entered; otherwise the program   *)
(* is in the loop until a draw hits a set entry, which it frees: the      *)
(* entry is cleared, used-- and inuse -= its size.  The draws that hit an *)
(* empty entry change nothing.                                             *)
(***************************************************************************)
NoFree ==
    /\ phase = "test" /\ i < ITERS
    /\ used = 0
    /\ i' = i + 1
    /\ UNCHANGED <<vars, m, used, inuse, fail, j, phase>>

EnterFree ==
    /\ phase = "test" /\ i < ITERS
    /\ used > 0
    /\ phase' = "free"
    /\ UNCHANGED <<vars, m, used, inuse, fail, j, i>>

TestFree(k) ==
    /\ phase = "free"
    /\ m[k].ptr # NULLP
    /\ Free(m[k].ptr)
    /\ m' = [m EXCEPT ![k].ptr = NULLP]
    /\ used' = used - 1
    /\ inuse' = inuse - m[k].size
    /\ i' = i + 1
    /\ phase' = "test"
    /\ UNCHANGED <<fail, j>>

(* the loop is done: print, free ( m ), free ( mpool ) and return *)
Finish ==
    /\ phase = "test" /\ i = ITERS
    /\ phase' = "end"
    /\ UNCHANGED <<vars, m, used, inuse, fail, j, i>>

DNext ==
    \/ \E r \in Requests : InitAlloc(r) \/ TestAlloc(r)
    \/ TableFull
    \/ NoFree
    \/ EnterFree
    \/ \E k \in Entries : TestFree(k)
    \/ Finish

DSpec == DInit /\ [][DNext]_allvars
-----------------------------------------------------------------------------
DTypeOK ==
    /\ TypeOK
    /\ m \in [Entries -> [ptr : {NULLP} \cup DOMAIN hdr, size : {0} \cup Requests]]
    /\ used \in 0 .. REQS /\ fail \in 0 .. ITERS
    /\ j \in 0 .. INIT_REQS /\ i \in 0 .. ITERS
    /\ phase \in {"init", "test", "free", "end"}

(***************************************************************************)
(* What the test relies on, and what bf_alloc promises its caller: the    *)
(* entries of m[] with a pointer are exactly the blocks bf_alloc handed   *)
(* out and bf_free has not taken back, no two entries share a block, each *)
(* block has room for its request between its header and its tail, and  *)
(* used and inuse count and sum those entries.  Otherwise the free loop   *)
(* "while ( used > 0 )" spins for ever, or frees a block twice, or the   *)
(* memset of a block writes over its neighbour.                           *)
(***************************************************************************)
TableMatchesPool ==
    LET full == {e \in Entries : m[e].ptr # NULLP}
    IN  /\ {m[e].ptr : e \in full} = held
        /\ \A e1, e2 \in full : m[e1].ptr = m[e2].ptr => e1 = e2
        /\ \A e \in full : hdr[m[e].ptr].size - 2 >= m[e].size
        /\ used = Cardinality(full)
        /\ inuse = FoldSet(LAMBDA e, acc : acc + m[e].size, 0, full)
=============================================================================
