------------------------------- MODULE IdAlloc -------------------------------
(***************************************************************************)
(* The system-wide unique-id allocator of kernel/memory.c                  *)
(* (k_new_unique_id, k_free_unique_id).  Ids name threads and global       *)
(* message queues; a thread handle is valid only while the id stored in    *)
(* it equals the id of the descriptor it points at.                        *)
(*                                                                         *)
(* The bit array idmask[MAX_RESOURCES / WBITS] is modelled by the set of   *)
(* ids whose bit is set: the word/bit split (id / WBITS, id % WBITS) is an *)
(* exact encoding of that set.  halt() is the variable halted; the model   *)
(* is of the DEBUG build, where ASSERT halts the machine.                  *)
(***************************************************************************)
EXTENDS Integers

CONSTANT MAX_RESOURCES   \* size of the id space, ids are 0 .. MAX_RESOURCES-1

ASSUME MAX_RESOURCES \in Nat /\ MAX_RESOURCES >= 2

VARIABLES
    last_id,   \* static uint last_id: the id issued last
    idmask,    \* ids whose bit is set in idmask[]
    halted     \* NONE, or why the machine executed halt()

vars == <<last_id, idmask, halted>>

Ids == 0 .. MAX_RESOURCES - 1

NOT_FOUND == -1

NONE == "none"
NO_FREE_ID == "no_free_id"      \* LOG ( ERROR, "Don't have free unique id!" )
ASSERT_FAILED == "assert"       \* ASSERT in k_free_unique_id

RECURSIVE SearchFrom_nowrap(_, _, _)
SearchFrom_nowrap(l, starting, mask) ==
    LET n == l + 1
    IN  IF n = starting THEN NOT_FOUND
        ELSE IF n \in mask THEN SearchFrom_nowrap(n, starting, mask)
        ELSE n

RECURSIVE SearchFrom(_, _, _)
SearchFrom(l, starting, mask) ==
    LET n == (l + 1) % MAX_RESOURCES
    IN  IF n = starting THEN NOT_FOUND
        ELSE IF n \in mask THEN SearchFrom(n, starting, mask)
        ELSE n

(* Variant for checking: the search without the wrap-around modulo *)
NewUniqueId_nowrap(l, mask) == SearchFrom_nowrap(l, l, mask)

(***************************************************************************)
(* The id k_new_unique_id returns in state (l, mask).                     *)
(***************************************************************************)
NewUniqueId(l, mask) == SearchFrom(l, l, mask)

Init ==
    /\ last_id = 0
    /\ idmask = {}
    /\ halted = NONE

(* k_new_unique_id: issue the next free id, or halt *)
NewId ==
    /\ halted = NONE
    /\ LET id == NewUniqueId(last_id, idmask)
       IN  IF id = NOT_FOUND
           THEN /\ halted' = NO_FREE_ID
                /\ UNCHANGED <<last_id, idmask>>
           ELSE /\ last_id' = id
                /\ idmask' = idmask \cup {id}
                /\ UNCHANGED halted

(***************************************************************************)
(* k_free_unique_id: the ASSERT requires 0 < id < MAX_RESOURCES and the    *)
(* bit set; callers free only ids they were given, so id ranges over the  *)
(* ids in use, and only the id > 0 part of the ASSERT can fail.            *)
(***************************************************************************)
FreeId(id) ==
    /\ halted = NONE
    /\ IF id > 0
       THEN /\ idmask' = idmask \ {id}
            /\ UNCHANGED <<last_id, halted>>
       ELSE /\ halted' = ASSERT_FAILED
            /\ UNCHANGED <<last_id, idmask>>

Next ==
    \/ NewId
    \/ \E id \in idmask : FreeId(id)

Spec == Init /\ [][Next]_vars

-----------------------------------------------------------------------------
TypeOK ==
    /\ last_id \in Ids
    /\ idmask \subseteq Ids
    /\ halted \in {NONE, NO_FREE_ID, ASSERT_FAILED}

(* Reference for the search: the free id reached first going round from  *)
(* l, l itself excluded, or NOT_FOUND; written without the loop.          *)
RoundRobinNext(l, mask) ==
    LET dist == {k \in 1 .. MAX_RESOURCES - 1 : (l + k) % MAX_RESOURCES \notin mask}
    IN  IF dist = {} THEN NOT_FOUND
        ELSE (l + CHOOSE k \in dist : \A k2 \in dist : k <= k2) % MAX_RESOURCES

IdZeroNeverIssued == 0 \notin idmask

(***************************************************************************)
(* spec 4.1: k_new_unique_id halts only "if the pool is exhausted", that  *)
(* is when every issuable id 1 .. MAX_RESOURCES-1 is in use.              *)
(***************************************************************************)
HaltsOnlyWhenExhausted ==
    halted = NO_FREE_ID => (1 .. MAX_RESOURCES - 1) \subseteq idmask
=============================================================================
