------------------------------- MODULE BestFit -------------------------------
(***************************************************************************)
(* The best-fit dynamic memory allocator of Chapter_04_Timer/03_GMA/lib/mm *)
(* (bf.h, bf.c): bf_init, bf_alloc, bf_free and the free-list helpers     *)
(* bf_remove_chunk, bf_insert_chunk and sort.                              *)
(*                                                                         *)
(* Sizes and addresses are counted in words of sizeof (size_t) from the   *)
(* first border of the pool, so ALIGN and ALIGN_FW are the identity and    *)
(* HEADER_SIZE (prev, next, size and tail) is 4.  A chunk is its header:  *)
(* hdr[a] is the size word at address a, its LSB (MARK_USED) the 'used'   *)
(* field.  CLONE_SIZE_TO_TAIL keeps the tail equal to the header, so the  *)
(* tail read by CHECK_FREE ( before ) in bf_free is the header of the     *)
(* chunk that ends at the freed one.  The doubly linked free list is the  *)
(* sequence 'list' of chunk addresses from mpool->first onwards.  The     *)
(* print loop of bf_free is output only and left out.                     *)
(***************************************************************************)
EXTENDS Integers, Sequences, SequencesExt, FiniteSets, Functions, TLC

CONSTANTS
    ARENA,     \* words between the two borders: the size of bf_init's one free chunk
    Requests   \* sizes programs pass to bf_alloc, in words

HEADER_SIZE == 4

ASSUME ARENA \in Nat /\ ARENA >= HEADER_SIZE /\ Requests \subseteq Nat \ {0}

END == ARENA + 1            \* address of the closing border

VARIABLES
    hdr,       \* chunk address -> [size, used]: the size words of the pool
    list,      \* the free list, mpool->first first
    held,      \* chunks bf_alloc has returned and the program has not freed
    request    \* size passed to the last bf_alloc (0 before the first)

vars == <<hdr, list, held, request>>

(* Set the header at a, and remove the header at a (it becomes the inside of a chunk) *)
SetHdr(h, a, v) == (a :> v) @@ h
DropHdr(h, a) == Restrict(h, DOMAIN h \ {a})

(* GET_AFTER, and the chunk whose tail sits just before a *)
After(h, a) == a + h[a].size
Before(h, a) == CHOOSE b \in DOMAIN h : After(h, b) = a

(***************************************************************************)
(* sort: insertion sort of the free list by size.  For each element after *)
(* the first, walk back over the predecessors that are strictly larger    *)
(* and, if there are any, unlink it and link it in after the first one    *)
(* that is not larger, or at the front when there is none.                *)
(***************************************************************************)
(* Variant for checking: the walk back never moves an element before the first *)
RECURSIVE Ins_skipfirst(_, _, _)
Ins_skipfirst(p, x, h) ==
    IF Len(p) > 1 /\ h[Last(p)].size > h[x].size
    THEN Append(Ins_skipfirst(Front(p), x, h), Last(p))
    ELSE Append(p, x)

(* the inner while loop and the relinking: insert x into the sorted prefix p *)
RECURSIVE Ins(_, _, _)
Ins(p, x, h) ==
    IF p # <<>> /\ h[Last(p)].size > h[x].size
    THEN Append(Ins(Front(p), x, h), Last(p))
    ELSE Append(p, x)

(* the outer while loop over cur *)
RECURSIVE SortFrom(_, _, _)
SortFrom(p, rest, h) ==
    IF rest = <<>> THEN p ELSE SortFrom(Ins(p, Head(rest), h), Tail(rest), h)

(* sort is only called with a non-empty list; one element is returned as is *)
sort(l, h) == IF Len(l) = 1 THEN l ELSE SortFrom(<<Head(l)>>, Tail(l), h)

(* bf_remove_chunk: unlink chunk c *)
bf_remove_chunk(l, c) == Remove(l, c)

(* bf_insert_chunk: link c in at the front, then sort *)
bf_insert_chunk(l, c, h) == sort(<<c>> \o l, h)

(***************************************************************************)
(* bf_init: a used border word, one free chunk of the whole pool, a used  *)
(* border word; the free chunk is the only element of the list.          *)
(***************************************************************************)
Init ==
    /\ hdr = (0 :> [size |-> 1, used |-> TRUE]) @@ (1 :> [size |-> ARENA, used |-> FALSE])
             @@ (END :> [size |-> 1, used |-> TRUE])
    /\ list = <<1>>
    /\ held = {}
    /\ request = 0

(* Variant for checking: only the header word is added, not the tail *)
ChunkSize_notail(r) == IF r + 1 < HEADER_SIZE THEN HEADER_SIZE ELSE r + 1

(* the chunk size bf_alloc needs for r words: header and tail added, at least HEADER_SIZE *)
ChunkSize(r) == IF r + 2 < HEADER_SIZE THEN HEADER_SIZE ELSE r + 2

NOCHUNK == -1    \* bf_alloc's NULL (chunk addresses are never negative)

(***************************************************************************)
(* What bf_alloc(r) returns in the current state, from its own return     *)
(* statements: NULL when no chunk of the list is large enough, else      *)
(* 'chunk', GET_AFTER ( iter ) after a split and iter itself when it is   *)
(* given whole (the pointer is chunk + one word; here the chunk).         *)
(***************************************************************************)
AllocResult(r) ==
    LET size == ChunkSize(r)
        i == SelectInSeq(list, LAMBDA c : hdr[c].size >= size)
    IN  IF i = 0 THEN NOCHUNK
        ELSE IF hdr[list[i]].size >= size + HEADER_SIZE
             THEN list[i] + hdr[list[i]].size - size
             ELSE list[i]

(* Variant for checking: a chunk given whole is not unlinked *)
Alloc_keeplisted(r) ==
    LET size == ChunkSize(r)
        i == SelectInSeq(list, LAMBDA c : hdr[c].size >= size)
    IN  /\ request' = r
        /\ IF i = 0
           THEN UNCHANGED <<hdr, list, held>>
           ELSE LET iter == list[i]
                    rest == hdr[iter].size - size
                IN  IF hdr[iter].size >= size + HEADER_SIZE
                    THEN /\ hdr' = SetHdr(SetHdr(hdr, iter, [size |-> rest, used |-> FALSE]),
                                          iter + rest, [size |-> size, used |-> TRUE])
                         /\ held' = held \cup {iter + rest}
                         /\ UNCHANGED list
                    ELSE /\ hdr' = [hdr EXCEPT ![iter].used = TRUE]
                         /\ held' = held \cup {iter}
                         /\ UNCHANGED list

(* Variant for checking: split whenever the chunk is at least as large *)
Alloc_splitall(r) ==
    LET size == ChunkSize(r)
        i == SelectInSeq(list, LAMBDA c : hdr[c].size >= size)
    IN  /\ request' = r
        /\ IF i = 0
           THEN UNCHANGED <<hdr, list, held>>
           ELSE LET iter == list[i]
                    rest == hdr[iter].size - size
                IN  IF hdr[iter].size >= size
                    THEN /\ hdr' = SetHdr(SetHdr(hdr, iter, [size |-> rest, used |-> FALSE]),
                                          iter + rest, [size |-> size, used |-> TRUE])
                         /\ held' = held \cup {iter + rest}
                         /\ UNCHANGED list
                    ELSE /\ hdr' = [hdr EXCEPT ![iter].used = TRUE]
                         /\ list' = bf_remove_chunk(list, iter)
                         /\ held' = held \cup {iter}

(***************************************************************************)
(* bf_alloc(r): the first chunk of the list that is large enough; split   *)
(* it when the rest can hold a free header (the front part stays in the   *)
(* list with its size reduced, the back part is returned), otherwise      *)
(* unlink and return it whole.  No chunk large enough: return NULL.      *)
(***************************************************************************)
Alloc(r) ==
    LET size == ChunkSize(r)
        i == SelectInSeq(list, LAMBDA c : hdr[c].size >= size)
    IN  /\ request' = r
        /\ IF i = 0
           THEN UNCHANGED <<hdr, list, held>>
           ELSE LET iter == list[i]
                    rest == hdr[iter].size - size
                IN  IF hdr[iter].size >= size + HEADER_SIZE
                    THEN /\ hdr' = SetHdr(SetHdr(hdr, iter, [size |-> rest, used |-> FALSE]),
                                          iter + rest, [size |-> size, used |-> TRUE])
                         /\ held' = held \cup {iter + rest}
                         /\ UNCHANGED list
                    ELSE /\ hdr' = [hdr EXCEPT ![iter].used = TRUE]
                         /\ list' = bf_remove_chunk(list, iter)
                         /\ held' = held \cup {iter}

(* Variant for checking: the left neighbour is joined but stays in the list *)
JoinLeft_keep(s, c) ==
    LET b == Before(s.hdr, c)
    IN  IF s.hdr[b].used THEN [s EXCEPT !.c = c]
        ELSE [hdr |-> DropHdr([s.hdr EXCEPT ![b].size = @ + s.hdr[c].size], c),
              list |-> s.list, c |-> b]

(* join with left: s.c becomes the joined chunk *)
JoinLeft(s, c) ==
    LET b == Before(s.hdr, c)
    IN  IF s.hdr[b].used THEN [s EXCEPT !.c = c]
        ELSE [hdr |-> DropHdr([s.hdr EXCEPT ![b].size = @ + s.hdr[c].size], c),
              list |-> bf_remove_chunk(s.list, b), c |-> b]

(* Variant for checking: the right neighbour is never joined *)
JoinRight_none(s) == s

(* join with right *)
JoinRight(s) ==
    LET a == After(s.hdr, s.c)
    IN  IF s.hdr[a].used THEN s
        ELSE [s EXCEPT !.hdr = DropHdr([@ EXCEPT ![s.c].size = @ + s.hdr[a].size], a),
                       !.list = bf_remove_chunk(@, a)]

(***************************************************************************)
(* bf_free(c): mark c free, join it with a free left and a free right     *)
(* neighbour (each unlinked from the list first), then insert the result *)
(* (bf_insert_chunk sorts the list).                                      *)
(***************************************************************************)
Free(c) ==
    LET s0 == [hdr |-> [hdr EXCEPT ![c].used = FALSE], list |-> list, c |-> c]
        s2 == JoinRight(JoinLeft(s0, c))
    IN  /\ hdr' = s2.hdr
        /\ list' = bf_insert_chunk(s2.list, s2.c, s2.hdr)
        /\ held' = held \ {c}
        /\ UNCHANGED request

Next ==
    \/ \E r \in Requests : Alloc(r)
    \/ \E c \in held : Free(c)

Spec == Init /\ [][Next]_vars
-----------------------------------------------------------------------------
FreeChunks == {a \in DOMAIN hdr : ~hdr[a].used}

TypeOK ==
    /\ DOMAIN hdr \subseteq 0 .. END
    /\ \A a \in DOMAIN hdr : hdr[a].used \in BOOLEAN
    \* a border is one word; every other chunk can hold a free header
    /\ \A a \in DOMAIN hdr : hdr[a].size \in IF a \in {0, END} THEN {1} ELSE HEADER_SIZE .. ARENA
    /\ list \in Seq(DOMAIN hdr)
    /\ held \subseteq DOMAIN hdr
    /\ request \in {0} \cup Requests

(***************************************************************************)
(* The pool stays well formed across any sequence of bf_alloc and bf_free: *)
(* the chunks tile it from border to border, the free list holds every     *)
(* free chunk exactly once and nothing else, and the used chunks are the   *)
(* program's blocks and the two borders.  A slip in the joining or        *)
(* unlinking of bf_free loses memory or links a chunk twice.              *)
(***************************************************************************)
HeapConsistent ==
    /\ {0, END} \subseteq DOMAIN hdr
    /\ \A a \in DOMAIN hdr \ {END} :
         /\ After(hdr, a) \in DOMAIN hdr
         /\ \A x \in a + 1 .. After(hdr, a) - 1 : x \notin DOMAIN hdr
    /\ IsInjective(list) /\ ToSet(list) = FreeChunks
    /\ {a \in DOMAIN hdr : hdr[a].used} = held \cup {0, END}

(***************************************************************************)
(* bf_free joins a freed chunk with both free neighbours, so no two free  *)
(* chunks are ever adjacent (bf.h: "first join is tried with left and     *)
(* right neighbor chunk").                                                *)
(***************************************************************************)
Coalesced == \A a \in FreeChunks : hdr[After(hdr, a)].used

IsSortedList(l, h) == \A i \in 1 .. Len(l) - 1 : h[l[i]].size <= h[l[i + 1]].size

(***************************************************************************)
(* Every bf_free leaves the free list sorted by size, smallest first: the *)
(* insertion sort of bf_insert_chunk puts the new chunk, and any element  *)
(* an earlier split left out of place, where it belongs.                  *)
(***************************************************************************)
SortedAfterFree == [][held' # held /\ held' \subseteq held => IsSortedList(list', hdr')]_vars

(***************************************************************************)
(* bf.c's header: best fit gives "the smallest free block that is large   *)
(* enough for the request".  Stated for every successful bf_alloc: no free *)
(* chunk that could have served the request is smaller than the one the   *)
(* block was taken from.                                                  *)
(***************************************************************************)
Source(c) == CHOOSE a \in DOMAIN hdr : a <= c /\ c < After(hdr, a)

BestFitChoice ==
    [][\A c \in held' \ held :
         \A f \in FreeChunks :
            hdr[f].size >= ChunkSize(request') => hdr[f].size >= hdr[Source(c)].size]_vars
=============================================================================
