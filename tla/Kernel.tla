------------------------------- MODULE Kernel -------------------------------
(***************************************************************************)
(* The thread core of the kernel: thread descriptors, the thread queues    *)
(* (kthread_q), the multi-level ready list with its bitmap, the scheduler  *)
(* k_schedule_threads, and the syscalls that block and wake threads:       *)
(* create/exit/wait_for_thread/cancel (kernel/thread.c), semaphores        *)
(* (kernel/semaphore.c), device locks (kernel/devices.c) and, in a build  *)
(* with MESSAGES, message queues and signals (kernel/messages.c).          *)
(*                                                                         *)
(* Every syscall runs with interrupts disabled on a single core, so each   *)
(* is one atomic step, its trailing k_schedule_threads included.  The     *)
(* step is taken by the active thread; what that thread's program asks    *)
(* for is a nondeterministic choice.  The idle thread only executes       *)
(* SUSPEND (halt until an interrupt), which changes no kernel state.       *)
(*                                                                         *)
(* All kernel state is gathered in the record K so that the helpers of    *)
(* thread.c can be written as functions from a kernel state to a kernel   *)
(* state, composed in the order the C code calls them.                    *)
(***************************************************************************)
EXTENDS Integers, Sequences, SequencesExt, FiniteSets, Bitwise

CONSTANTS
    Slots,          \* addresses kmalloc can return for a kthread_t
    IdleSlot,       \* descriptor of the idle thread
    InitSlot,       \* descriptor of the first program thread (pi.init)
    PRIO_LEVELS,    \* number of priority levels, 0 is the lowest
    WORD_SIZE,      \* sizeof (word_t): the ready bitmap uses this many bits per word
    INIT_PRIO,      \* priority of the first program thread (pi.prio)
    CreatePrios,    \* priorities programs pass to create_thread
    Statuses,       \* exit statuses programs pass to thread_exit
    Sems,           \* semaphores (already initialised by sem_init)
    SEM_INIT,       \* their initial value
    Devs,           \* lockable devices
    MAX_RESOURCES,  \* size of the unique-id space
    MaxCreates,     \* bound: ids issued (threads and message queues) in one behaviour
    MaxSemValue,    \* bound: value a sem_post may raise a semaphore to
    MESSAGES,       \* the build defines MESSAGES
    GQueues,        \* addresses kmalloc can return for a kgmsg_q
    UQs,            \* msg_q structures of the programs
    MsgTypes,       \* message types (msg->type) programs send, all > 0
    MsgSizes,       \* message sizes programs send
    BufSizes,       \* buffer sizes programs pass to receive_message
    MinPrios,       \* thresholds programs pass as min_prio
    SigTypes,       \* signal types programs set a handler for
    SigPrios,       \* thresholds programs pass as min_sig_prio
    MaxPosts        \* bound: messages accepted into queues in one behaviour

ASSUME /\ IdleSlot \in Slots /\ InitSlot \in Slots /\ IdleSlot # InitSlot
       /\ PRIO_LEVELS \in Nat \ {0} /\ WORD_SIZE \in Nat \ {0}
       /\ INIT_PRIO \in 1 .. PRIO_LEVELS - 1
       \* ids never wrap around within the bound, see IdAlloc for what wrapping does
       /\ MaxCreates + 2 < MAX_RESOURCES - 1
       /\ MESSAGES \in BOOLEAN /\ 0 \notin MsgTypes /\ SigTypes \subseteq MsgTypes

NULL == "null"                 \* no thread
NONE == <<>>                   \* no pending retry
PASSIVE == "passive"           \* THR_STATE_PASSIVE
READY == "ready"               \* THR_STATE_READY
ACTIVE == "active"             \* THR_STATE_ACTIVE
WAIT == "wait"                 \* THR_STATE_WAIT

NOSEM == -1                    \* sem->ptr == NULL: destroyed (values are never negative)

CANCEL_STATUS == -1            \* ret_value of sys__cancel_thread, the victim's exit status

(* Every kthread_q of the system, named by what owns it *)
ReadyQ(p) == <<"ready", p>>    \* ready_q[p]
SemQ(s) == <<"sem", s>>        \* ksem->queue
OldSemQ(s) == <<"oldsem", s>>  \* queues of ksem_t blocks a second sem_init left behind
DevQ(d) == <<"dev", d>>        \* kdev->thrq
JoinQ(t) == <<"join", t>>      \* kthr->join_queue
ThrMsgQ(t) == <<"thrmsg", t>>  \* kthr->msg.msgq
GMsgQ(g) == <<"gmsg", g>>      \* kgmsgq->mq
NOQ == <<"none">>              \* kthr->queue == NULL
(* every kmsg_q: its messages are msgs[MQ], its blocked receivers q[MQ] *)
MsgQIds == {ThrMsgQ(t) : t \in Slots} \cup {GMsgQ(g) : g \in GQueues}
QueueIds ==
    {ReadyQ(p) : p \in 0 .. PRIO_LEVELS - 1} \cup {SemQ(s) : s \in Sems}
    \cup {OldSemQ(s) : s \in Sems} \cup {DevQ(d) : d \in Devs} \cup {JoinQ(t) : t \in Slots} \cup MsgQIds

SELF == "self"                 \* src_type MSG_THREAD: the caller's own queue
NOH == [handle |-> NULL, id |-> 0]   \* a msg_q with no queue behind it

RDY_MASKS == (PRIO_LEVELS + WORD_SIZE - 1) \div WORD_SIZE
WORD_ONES == 2^WORD_SIZE - 1

VARIABLES
    active,      \* active_thread
    alloc,       \* slots holding a live (not yet freed) kthread_t
    tid,         \* kthr->id (0 once k_remove_thread_descriptor ran)
    tstate,      \* kthr->state
    prio,        \* kthr->sched.prio
    tqueue,      \* kthr->queue
    refcnt,      \* kthr->ref_cnt
    exitStatus,  \* kthr->exit_status
    q,           \* contents of every kthread_q, in FIFO order
    rdyMask,     \* rdy_mask[RDY_MASKS]
    last_id,     \* kernel/memory.c last_id
    idmask,      \* kernel/memory.c idmask, as the set of ids in use
    semVal,      \* ksem->sem_value
    devLocked,   \* kdev->locked
    msgs,        \* kmsgq->msgs: the messages of every kmsg_q, in list order
    minPrio,     \* kmsgq->min_prio
    sigPrio,     \* kthr->msg.sig_prio
    sigHandler,  \* message types whose kthr->msg.signal_handler is not NULL
    galloc,      \* kgmsg_q blocks that are allocated
    gid,         \* kgmsgq->id (kfree leaves it in the freed block)
    kmsg_qs,     \* the list of all global message queues
    \* state of the programs above the syscall boundary
    handles,     \* thread_t descriptors filled by create_thread: <<thread, thr_id>>
    retry,       \* handle a thread's wait_for_thread loop will re-issue after -E_RETRY
    holds,       \* devices for which the thread's device_lock returned 0
    created,     \* ids issued on the programs' requests so far
    uq,          \* msg_q: [handle |-> kgmsg_q, id |-> its id]
    recvRetry,   \* receive a thread's receive_message loop re-issues after E_RETRY
    posted,      \* messages accepted so far, also the payload of the next one
    \* history, read only by properties
    exited,      \* handles of threads that have exited
    collected,   \* handles whose exit status wait_for_thread returned
    delivered,   \* payloads receive_message returned
    discarded    \* payloads deleted by k_msgq_clean

kvars == <<active, alloc, tid, tstate, prio, tqueue, refcnt, exitStatus, q,
           rdyMask, last_id, idmask, semVal, devLocked, msgs, minPrio,
           sigPrio, sigHandler, galloc, gid, kmsg_qs>>
mpvars == <<uq, recvRetry, posted>>
pvars == <<handles, retry, holds, created, mpvars>>
mhvars == <<delivered, discarded>>
hvars == <<exited, collected, mhvars>>
vars == <<kvars, pvars, hvars>>

(* the id allocator of kernel/memory.c works on last_id and idmask *)
Id == INSTANCE IdAlloc WITH halted <- "none"

K == [active |-> active, alloc |-> alloc, tid |-> tid, tstate |-> tstate,
      prio |-> prio, tqueue |-> tqueue, refcnt |-> refcnt,
      exitStatus |-> exitStatus, q |-> q, rdyMask |-> rdyMask,
      last_id |-> last_id, idmask |-> idmask, semVal |-> semVal,
      devLocked |-> devLocked, msgs |-> msgs, minPrio |-> minPrio,
      sigPrio |-> sigPrio, sigHandler |-> sigHandler, galloc |-> galloc,
      gid |-> gid, kmsg_qs |-> kmsg_qs]

Commit(k) ==
    /\ active' = k.active /\ alloc' = k.alloc /\ tid' = k.tid
    /\ tstate' = k.tstate /\ prio' = k.prio /\ tqueue' = k.tqueue
    /\ refcnt' = k.refcnt /\ exitStatus' = k.exitStatus /\ q' = k.q
    /\ rdyMask' = k.rdyMask /\ last_id' = k.last_id /\ idmask' = k.idmask
    /\ semVal' = k.semVal /\ devLocked' = k.devLocked /\ msgs' = k.msgs
    /\ minPrio' = k.minPrio /\ sigPrio' = k.sigPrio
    /\ sigHandler' = k.sigHandler /\ galloc' = k.galloc /\ gid' = k.gid
    /\ kmsg_qs' = k.kmsg_qs
-----------------------------------------------------------------------------
(***************************************************************************)
(* Ready list bitmap (thread.c set_got_ready, clear_got_ready,            *)
(* get_top_ready).  Level 'index' is bit index % WORD_SIZE of word        *)
(* index / WORD_SIZE.  ~((word_t)(1 << j)) is taken within WORD_SIZE     *)
(* bits: the higher bits of a word are never set.                         *)
(***************************************************************************)
SetGotReady(m, index) ==
    [m EXCEPT ![index \div WORD_SIZE] = @ | 2^(index % WORD_SIZE)]

ClearGotReady(m, index) ==
    [m EXCEPT ![index \div WORD_SIZE] = @ & (WORD_ONES - 2^(index % WORD_SIZE))]

(* msb_index of lib/bits: position of the most significant set bit of x > 0 *)
RECURSIVE msb_index(_)
msb_index(x) == IF x = 1 THEN 0 ELSE 1 + msb_index(x \div 2)

(* Variant for checking: the words are scanned from the first one up *)
get_top_ready_lowword(m) ==
    LET nonzero == {i \in 0 .. RDY_MASKS - 1 : m[i] # 0}
        i == CHOOSE w \in nonzero : \A v \in nonzero : w <= v
    IN  IF nonzero = {} THEN -1 ELSE i * WORD_SIZE + msb_index(m[i])

(* Scan the words from the last one down; the first non-zero word gives  *)
(* the level of its most significant bit.  -1 when no level is set.      *)
get_top_ready(m) ==
    LET nonzero == {i \in 0 .. RDY_MASKS - 1 : m[i] # 0}
        i == CHOOSE w \in nonzero : \A v \in nonzero : v <= w
    IN  IF nonzero = {} THEN -1 ELSE i * WORD_SIZE + msb_index(m[i])

-----------------------------------------------------------------------------
(* Thread queue operations and the helpers of thread.c, on a kernel state *)

(* move_to_ready: append to ready_q[prio] and mark the level non-empty *)
move_to_ready(k, t) ==
    [k EXCEPT !.tstate[t] = READY,
              !.tqueue[t] = ReadyQ(k.prio[t]),
              !.q[ReadyQ(k.prio[t])] = Append(@, t),
              !.rdyMask = SetGotReady(@, k.prio[t])]

(* Variant for checking: kthr->queue is not recorded *)
k_enqueue_thread_noqueue(k, Q) ==
    [k EXCEPT !.tstate[k.active] = WAIT, !.q[Q] = Append(@, k.active)]

(* k_enqueue_thread ( NULL, q ): the active thread blocks in queue Q *)
k_enqueue_thread(k, Q) ==
    [k EXCEPT !.tstate[k.active] = WAIT,
              !.tqueue[k.active] = Q,
              !.q[Q] = Append(@, k.active)]

(* k_release_thread: the first thread of Q, if any, becomes ready *)
k_release_thread(k, Q) ==
    IF k.q[Q] = <<>> THEN k
    ELSE move_to_ready([k EXCEPT !.q[Q] = Tail(@)], Head(k.q[Q]))

(* k_release_all_threads: every thread of Q becomes ready, in queue order *)
RECURSIVE k_release_all_threads(_, _)
k_release_all_threads(k, Q) ==
    IF k.q[Q] = <<>> THEN k
    ELSE k_release_all_threads(k_release_thread(k, Q), Q)

(* Variant for checking: the emptied level is not cleared in the bitmap *)
k_schedule_threads_noclear(k) ==
    LET curr == k.active
        first == get_top_ready(k.rdyMask)
        keep == curr # NULL /\ k.tstate[curr] = ACTIVE
    IN  IF keep /\ first < k.prio[curr] THEN k
        ELSE LET k1 == IF keep THEN move_to_ready(k, curr) ELSE k
                 next == Head(k1.q[ReadyQ(first)])
                 k2 == [k1 EXCEPT !.q[ReadyQ(first)] = Tail(@)]
             IN  [k2 EXCEPT !.active = next, !.tstate[next] = ACTIVE,
                            !.tqueue[next] = NOQ]

(***************************************************************************)
(* k_schedule_threads.  The current thread keeps the processor unless it  *)
(* is no longer ACTIVE or a ready level at least as high as its own is    *)
(* non-empty ("first >= curr->sched.prio"); the ASSERT that some thread   *)
(* can run always holds because the idle thread never blocks.             *)
(***************************************************************************)
k_schedule_threads(k) ==
    LET curr == k.active
        first == get_top_ready(k.rdyMask)
        keep == curr # NULL /\ k.tstate[curr] = ACTIVE
    IN  IF keep /\ first < k.prio[curr] THEN k
        ELSE LET k1 == IF keep THEN move_to_ready(k, curr) ELSE k
                 next == Head(k1.q[ReadyQ(first)])
                 k2 == [k1 EXCEPT !.q[ReadyQ(first)] = Tail(@)]
                 k3 == IF k2.q[ReadyQ(first)] = <<>>
                       THEN [k2 EXCEPT !.rdyMask = ClearGotReady(@, first)]
                       ELSE k2
             IN  [k3 EXCEPT !.active = next,
                            !.tstate[next] = ACTIVE,
                            !.tqueue[next] = NOQ]

(* k_thr_msg_init: empty message queue, thresholds 0, no signal handlers *)
k_thr_msg_init(k, s) ==
    [k EXCEPT !.msgs[ThrMsgQ(s)] = <<>>, !.q[ThrMsgQ(s)] = <<>>,
              !.minPrio[ThrMsgQ(s)] = 0, !.sigPrio[s] = 0, !.sigHandler[s] = {}]

(* k_create_thread at descriptor s; priority clamped into 0..PRIO_LEVELS-1 *)
k_create_thread(k, s, p, run) ==
    LET id == Id!NewUniqueId(k.last_id, k.idmask)
        clamped == IF p < 0 THEN 0 ELSE IF p >= PRIO_LEVELS THEN PRIO_LEVELS - 1 ELSE p
        k1 == [k EXCEPT !.alloc = @ \cup {s},
                        !.last_id = id, !.idmask = @ \cup {id},
                        !.tid[s] = id, !.tstate[s] = PASSIVE,
                        !.prio[s] = clamped, !.tqueue[s] = NOQ,
                        !.exitStatus[s] = 0, !.q[JoinQ(s)] = <<>>,
                        !.refcnt[s] = 0]
        k2 == IF run THEN [move_to_ready(k1, s) EXCEPT !.refcnt[s] = 1] ELSE k1
    IN  k_thr_msg_init(k2, s)

(* k_remove_thread_descriptor: free the id, mark the descriptor, kfree it *)
k_remove_thread_descriptor(k, t) ==
    [k EXCEPT !.idmask = @ \ {k.tid[t]}, !.tid[t] = 0, !.alloc = @ \ {t}]

(***************************************************************************)
(* Body of sys__thread_exit for the active thread: it becomes PASSIVE,    *)
(* drops its own reference and its queued messages (k_msgq_clean); the   *)
(* descriptor is freed at once if nobody else holds one, otherwise its    *)
(* joiners are released.  Freeing the stack and the private storage       *)
(* returns memory only.                                                    *)
(***************************************************************************)
thread_exit(k, st) ==
    LET t == k.active
        k1 == [k EXCEPT !.tstate[t] = PASSIVE, !.refcnt[t] = @ - 1,
                        !.exitStatus[t] = st, !.msgs[ThrMsgQ(t)] = <<>>]
        k2 == IF k1.refcnt[t] = 0
              THEN [k_remove_thread_descriptor(k1, t) EXCEPT !.active = NULL]
              ELSE k_release_all_threads(k1, JoinQ(t))
    IN  k_schedule_threads(k2)

(* k_threads_init: idle thread, first program thread, then schedule *)
BootState ==
    LET k0 == [active |-> NULL, alloc |-> {},
               tid |-> [s \in Slots |-> 0], tstate |-> [s \in Slots |-> PASSIVE],
               prio |-> [s \in Slots |-> 0], tqueue |-> [s \in Slots |-> NOQ],
               refcnt |-> [s \in Slots |-> 0], exitStatus |-> [s \in Slots |-> 0],
               q |-> [Q \in QueueIds |-> <<>>],
               rdyMask |-> [i \in 0 .. RDY_MASKS - 1 |-> 0],
               last_id |-> 0, idmask |-> {},
               semVal |-> [s \in Sems |-> SEM_INIT],
               devLocked |-> [d \in Devs |-> FALSE],
               msgs |-> [Q \in MsgQIds |-> <<>>],
               minPrio |-> [Q \in MsgQIds |-> 0],
               sigPrio |-> [s \in Slots |-> 0],
               sigHandler |-> [s \in Slots |-> {}],
               galloc |-> {}, gid |-> [g \in GQueues |-> 0], kmsg_qs |-> <<>>]
        k1 == k_create_thread(k0, IdleSlot, 0, TRUE)
        k2 == k_create_thread(k1, InitSlot, INIT_PRIO, TRUE)
    IN  k_schedule_threads([k2 EXCEPT !.active = NULL])
(* the payloads of a list of messages *)
Payloads(ms) == {m.data : m \in ToSet(ms)}
-----------------------------------------------------------------------------
Init ==
    /\ LET k == BootState
       IN  /\ active = k.active /\ alloc = k.alloc /\ tid = k.tid
           /\ tstate = k.tstate /\ prio = k.prio /\ tqueue = k.tqueue
           /\ refcnt = k.refcnt /\ exitStatus = k.exitStatus /\ q = k.q
           /\ rdyMask = k.rdyMask /\ last_id = k.last_id /\ idmask = k.idmask
           /\ semVal = k.semVal /\ devLocked = k.devLocked /\ msgs = k.msgs
           /\ minPrio = k.minPrio /\ sigPrio = k.sigPrio
           /\ sigHandler = k.sigHandler /\ galloc = k.galloc /\ gid = k.gid
           /\ kmsg_qs = k.kmsg_qs
    /\ handles = {}
    /\ retry = [s \in Slots |-> NONE]
    /\ holds = [s \in Slots |-> {}]
    /\ created = 0
    /\ uq = [u \in UQs |-> NOH]
    /\ recvRetry = [s \in Slots |-> NONE]
    /\ posted = 0
    /\ exited = {}
    /\ collected = {}
    /\ delivered = {}
    /\ discarded = {}

(***************************************************************************)
(* Syscalls, taken by the active thread t.                                *)
(***************************************************************************)

(* sys__create_thread: new ready thread at a free descriptor s, then schedule *)
CreateThread(t, p, s) ==
    /\ created < MaxCreates
    /\ Commit(k_schedule_threads(k_create_thread(K, s, p, TRUE)))
    /\ handles' = handles \cup {<<s, Id!NewUniqueId(last_id, idmask)>>}
    /\ retry' = [retry EXCEPT ![s] = NONE]
    /\ holds' = [holds EXCEPT ![s] = {}]
    /\ recvRetry' = [recvRetry EXCEPT ![s] = NONE]
    /\ created' = created + 1
    /\ UNCHANGED <<uq, posted, hvars>>

(* sys__thread_exit *)
ThreadExit(t, st) ==
    /\ Commit(thread_exit(K, st))
    /\ exited' = exited \cup {<<t, tid[t]>>}
    /\ discarded' = discarded \cup Payloads(msgs[ThrMsgQ(t)])
    /\ UNCHANGED <<pvars, collected, delivered>>

(* Variant for checking: the reference is taken before the 'wait' test *)
WaitForThread_earlyref(t, h, wait) ==
    LET kthr == h[1]
    IN  \/ /\ tid[kthr] # h[2]
           /\ retry' = [retry EXCEPT ![t] = NONE]
           /\ UNCHANGED <<kvars, handles, holds, created, mpvars, hvars>>
        \/ /\ tid[kthr] = h[2] /\ tstate[kthr] # PASSIVE /\ ~wait
           /\ Commit([K EXCEPT !.refcnt[kthr] = @ + 1])
           /\ UNCHANGED <<pvars, hvars>>
        \/ /\ tid[kthr] = h[2] /\ tstate[kthr] # PASSIVE /\ wait
           /\ Commit(k_schedule_threads(
                 k_enqueue_thread([K EXCEPT !.refcnt[kthr] = @ + 1], JoinQ(kthr))))
           /\ retry' = [retry EXCEPT ![t] = h]
           /\ UNCHANGED <<handles, holds, created, mpvars, hvars>>
        \/ /\ tid[kthr] = h[2] /\ tstate[kthr] = PASSIVE
           /\ LET k1 == [K EXCEPT !.refcnt[kthr] = @ - 1]
              IN  Commit(IF k1.refcnt[kthr] = 0
                         THEN k_remove_thread_descriptor(k1, kthr) ELSE k1)
           /\ retry' = [retry EXCEPT ![t] = NONE]
           /\ collected' = collected \cup {h}
           /\ UNCHANGED <<handles, holds, created, mpvars, exited, mhvars>>

(***************************************************************************)
(* sys__wait_for_thread on handle h = <<kthr, thr_id>>.  A stale handle   *)
(* (the descriptor's id changed) reports "already gone"; a running thread *)
(* is "not finished" without 'wait', otherwise the caller takes a         *)
(* reference, joins the thread's join queue and gets -E_RETRY, which its  *)
(* wait_for_thread loop re-issues once it runs again; a PASSIVE thread's  *)
(* status is collected and the reference dropped.                          *)
(***************************************************************************)
WaitForThread(t, h, wait) ==
    LET kthr == h[1]
    IN  \/ /\ tid[kthr] # h[2]
           /\ retry' = [retry EXCEPT ![t] = NONE]
           /\ UNCHANGED <<kvars, handles, holds, created, mpvars, hvars>>
        \/ /\ tid[kthr] = h[2] /\ tstate[kthr] # PASSIVE /\ ~wait
           /\ UNCHANGED <<kvars, pvars, hvars>>
        \/ /\ tid[kthr] = h[2] /\ tstate[kthr] # PASSIVE /\ wait
           /\ Commit(k_schedule_threads(
                 k_enqueue_thread([K EXCEPT !.refcnt[kthr] = @ + 1], JoinQ(kthr))))
           /\ retry' = [retry EXCEPT ![t] = h]
           /\ UNCHANGED <<handles, holds, created, mpvars, hvars>>
        \/ /\ tid[kthr] = h[2] /\ tstate[kthr] = PASSIVE
           /\ LET k1 == [K EXCEPT !.refcnt[kthr] = @ - 1]
              IN  Commit(IF k1.refcnt[kthr] = 0
                         THEN k_remove_thread_descriptor(k1, kthr) ELSE k1)
           /\ retry' = [retry EXCEPT ![t] = NONE]
           /\ collected' = collected \cup {h}
           /\ UNCHANGED <<handles, holds, created, mpvars, exited, mhvars>>

(***************************************************************************)
(* sys__cancel_thread.  A READY or WAITing victim is taken out of its     *)
(* queue, made the active thread (the caller goes to the ready list) and  *)
(* ended by the body of sys__thread_exit with status -1.  A stale handle  *)
(* or a PASSIVE victim is a successful no-op; the ACTIVE one (the caller   *)
(* itself) is E_INVALID_HANDLE.                                            *)
(***************************************************************************)
CancelThread(t, h) ==
    LET kthr == h[1]
    IN  \/ /\ \/ tid[kthr] # h[2]
              \/ tstate[kthr] \in {PASSIVE, ACTIVE}
           /\ UNCHANGED vars
        \/ /\ tid[kthr] = h[2] /\ tstate[kthr] \in {READY, WAIT}
           /\ LET k1 == move_to_ready(K, t)
                  k2 == [k1 EXCEPT !.q[tqueue[kthr]] = RemoveFirst(@, kthr)]
                  k3 == IF tstate[kthr] = READY /\ k2.q[ReadyQ(prio[kthr])] = <<>>
                        THEN [k2 EXCEPT !.rdyMask = ClearGotReady(@, prio[kthr])]
                        ELSE k2
                  k4 == [k3 EXCEPT !.active = kthr, !.tstate[kthr] = ACTIVE,
                                   !.tqueue[kthr] = NOQ]
              IN  Commit(thread_exit(k4, CANCEL_STATUS))
           /\ retry' = [retry EXCEPT ![kthr] = NONE]
           /\ recvRetry' = [recvRetry EXCEPT ![kthr] = NONE]
           /\ exited' = exited \cup {h}
           /\ discarded' = discarded \cup Payloads(msgs[ThrMsgQ(kthr)])
           /\ UNCHANGED <<handles, holds, created, uq, posted, collected, delivered>>

(***************************************************************************)
(* sys__sem_init: a new ksem_t with the given value and an empty queue;  *)
(* sem->ptr now points to it.  A ksem_t the handle pointed to before is  *)
(* not freed, and threads blocked on it stay in its queue.               *)
(***************************************************************************)
SemInit(t, s, v) ==
    /\ Commit([K EXCEPT !.q[OldSemQ(s)] = @ \o q[SemQ(s)], !.q[SemQ(s)] = <<>>,
                        !.tqueue = [u \in Slots |-> IF tqueue[u] = SemQ(s) THEN OldSemQ(s) ELSE @[u]],
                        !.semVal[s] = v])
    /\ UNCHANGED <<pvars, hvars>>

(***************************************************************************)
(* sys__sem_destroy: E_INVALID_HANDLE on a NULL ptr; otherwise release    *)
(* every blocked thread (they return from sem_wait with SUCCESS), schedule *)
(* if there were any, free the ksem_t and clear sem->ptr.                 *)
(***************************************************************************)
SemDestroy(t, s) ==
    /\ semVal[s] # NOSEM
    /\ LET k1 == k_release_all_threads(K, SemQ(s))
           k2 == IF q[SemQ(s)] # <<>> THEN k_schedule_threads(k1) ELSE k1
       IN  Commit([k2 EXCEPT !.semVal[s] = NOSEM])
    /\ UNCHANGED <<pvars, hvars>>

(* Variant for checking: off by one in "sem_value > 0" *)
SemWait_offbyone(t, s) ==
    /\ semVal[s] # NOSEM
    /\ IF semVal[s] > 1
       THEN Commit([K EXCEPT !.semVal[s] = @ - 1])
       ELSE Commit(k_schedule_threads(k_enqueue_thread(K, SemQ(s))))
    /\ UNCHANGED <<pvars, hvars>>

(* sys__sem_wait: take a unit, or block in the semaphore's queue *)
SemWait(t, s) ==
    /\ semVal[s] # NOSEM
    /\ IF semVal[s] > 0
       THEN Commit([K EXCEPT !.semVal[s] = @ - 1])
       ELSE Commit(k_schedule_threads(k_enqueue_thread(K, SemQ(s))))
    /\ UNCHANGED <<pvars, hvars>>

(* Variant for checking: the woken waiter is not scheduled *)
SemPost_nosched(t, s) ==
    /\ semVal[s] # NOSEM
    /\ q[SemQ(s)] # <<>> \/ semVal[s] < MaxSemValue
    /\ IF q[SemQ(s)] # <<>>
       THEN Commit(k_release_thread(K, SemQ(s)))
       ELSE Commit([K EXCEPT !.semVal[s] = @ + 1])
    /\ UNCHANGED <<pvars, hvars>>

(* sys__sem_post: wake the first waiter (and schedule), or add a unit *)
SemPost(t, s) ==
    /\ semVal[s] # NOSEM
    /\ q[SemQ(s)] # <<>> \/ semVal[s] < MaxSemValue
    /\ IF q[SemQ(s)] # <<>>
       THEN Commit(k_schedule_threads(k_release_thread(K, SemQ(s))))
       ELSE Commit([K EXCEPT !.semVal[s] = @ + 1])
    /\ UNCHANGED <<pvars, hvars>>

(***************************************************************************)
(* sys__device_lock / k_device_lock.  Without 'wait' a locked device      *)
(* fails; with it the caller blocks, and owns the device once an unlock   *)
(* hands it over.  A program does not lock a device it already holds.    *)
(***************************************************************************)
DeviceLock(t, d, wait) ==
    /\ d \notin holds[t]
    /\ \/ /\ devLocked[d] /\ ~wait
          /\ UNCHANGED vars
       \/ /\ devLocked[d] /\ wait
          /\ Commit([k_schedule_threads(k_enqueue_thread(K, DevQ(d)))
                        EXCEPT !.devLocked[d] = TRUE])
          /\ UNCHANGED <<pvars, hvars>>
       \/ /\ ~devLocked[d]
          /\ Commit([K EXCEPT !.devLocked[d] = TRUE])
          /\ holds' = [holds EXCEPT ![t] = @ \cup {d}]
          /\ UNCHANGED <<handles, retry, created, mpvars, hvars>>

(* Variant for checking: the device is unlocked even when handed over *)
DeviceUnlock_alwaysfree(t, d) ==
    /\ d \in holds[t]
    /\ IF q[DevQ(d)] # <<>>
       THEN /\ Commit([k_schedule_threads(k_release_thread(K, DevQ(d)))
                          EXCEPT !.devLocked[d] = FALSE])
            /\ holds' = [holds EXCEPT ![t] = @ \ {d}, ![Head(q[DevQ(d)])] = @ \cup {d}]
       ELSE /\ Commit([K EXCEPT !.devLocked[d] = FALSE])
            /\ holds' = [holds EXCEPT ![t] = @ \ {d}]
    /\ UNCHANGED <<handles, retry, created, mpvars, hvars>>

(* sys__device_unlock / k_device_unlock: hand the device to the first     *)
(* waiter (it stays locked), or unlock it                                  *)
DeviceUnlock(t, d) ==
    /\ d \in holds[t]
    /\ IF q[DevQ(d)] # <<>>
       THEN /\ Commit(k_schedule_threads(k_release_thread(K, DevQ(d))))
            /\ holds' = [holds EXCEPT ![t] = @ \ {d}, ![Head(q[DevQ(d)])] = @ \cup {d}]
       ELSE /\ Commit([K EXCEPT !.devLocked[d] = FALSE])
            /\ holds' = [holds EXCEPT ![t] = @ \ {d}]
    /\ UNCHANGED <<handles, retry, created, mpvars, hvars>>

(***************************************************************************)
(* kernel/messages.c, taken by the active thread t.                       *)
(***************************************************************************)

(* sys__thread_msg_set: thresholds of t's own queue; handlers are reset *)
ThreadMsgSet(t, mp, sp) ==
    /\ Commit([K EXCEPT !.minPrio[ThrMsgQ(t)] = mp, !.sigPrio[t] = sp,
                        !.sigHandler[t] = {}])
    /\ UNCHANGED <<pvars, hvars>>

(* sys__set_signal_handler: set (on) or clear the handler for one type *)
SetSignalHandler(t, sp, on) ==
    /\ Commit([K EXCEPT !.sigHandler[t] = IF on THEN @ \cup {sp} ELSE @ \ {sp}])
    /\ UNCHANGED <<pvars, hvars>>

(* sys__create_msg_queue at a free block g, into the program's msg_q u *)
CreateMsgQueue(t, u, g, mp) ==
    /\ created < MaxCreates
    /\ LET id == Id!NewUniqueId(last_id, idmask)
       IN  /\ Commit([K EXCEPT !.galloc = @ \cup {g}, !.gid[g] = id,
                               !.last_id = id, !.idmask = @ \cup {id},
                               !.msgs[GMsgQ(g)] = <<>>, !.q[GMsgQ(g)] = <<>>,
                               !.minPrio[GMsgQ(g)] = mp,
                               !.kmsg_qs = Append(@, g)])
           /\ uq' = [uq EXCEPT ![u] = [handle |-> g, id |-> id]]
    /\ created' = created + 1
    /\ UNCHANGED <<handles, retry, holds, recvRetry, posted, hvars>>

(***************************************************************************)
(* Variant for checking: the blocked receivers are not released *)
DeleteMsgQueue_norelease(t, u) ==
    LET g == uq[u].handle
    IN  /\ g # NULL /\ gid[g] = uq[u].id
        /\ Commit([K EXCEPT !.msgs[GMsgQ(g)] = <<>>, !.idmask = @ \ {gid[g]},
                            !.galloc = @ \ {g}])
        /\ uq' = [uq EXCEPT ![u] = NOH]
        /\ discarded' = discarded \cup Payloads(msgs[GMsgQ(g)])
        /\ UNCHANGED <<handles, retry, holds, created, recvRetry, posted,
                       exited, collected, delivered>>

(***************************************************************************)
(* sys__delete_msg_queue: drop the messages (k_msgq_clean), release every *)
(* blocked receiver, free the id and the block, and clear the msg_q.  The *)
(* block is not taken off kmsg_qs, and the released receivers are not     *)
(* scheduled.  A program does not delete through a cleared msg_q, which   *)
(* would dereference NULL.  The programs share their msg_q structures, so *)
(* a msg_q that is not cleared names a live block with its id, and the    *)
(* E_INVALID_HANDLE test on the id always passes.                          *)
(***************************************************************************)
DeleteMsgQueue(t, u) ==
    LET g == uq[u].handle
    IN  /\ g # NULL /\ gid[g] = uq[u].id
        /\ LET k1 == [K EXCEPT !.msgs[GMsgQ(g)] = <<>>]
               k2 == k_release_all_threads(k1, GMsgQ(g))
           IN  Commit([k2 EXCEPT !.idmask = @ \ {gid[g]}, !.galloc = @ \ {g}])
        /\ uq' = [uq EXCEPT ![u] = NOH]
        /\ discarded' = discarded \cup Payloads(msgs[GMsgQ(g)])
        /\ UNCHANGED <<handles, retry, holds, created, recvRetry, posted,
                       exited, collected, delivered>>

(* Variant for checking: the message is put at the head of the list *)
PostTo_prepend(MQ, m) ==
    \/ /\ minPrio[MQ] <= m.type
       /\ posted < MaxPosts
       /\ LET k1 == [K EXCEPT !.msgs[MQ] = <<m>> \o @]
          IN  Commit(IF q[MQ] # <<>>
                     THEN k_schedule_threads(k_release_thread(k1, MQ))
                     ELSE k1)
       /\ posted' = posted + 1
       /\ UNCHANGED <<handles, retry, holds, created, uq, recvRetry, hvars>>
    \/ /\ minPrio[MQ] > m.type
       /\ UNCHANGED vars

(* append message m to queue MQ if it passes the threshold; a blocked     *)
(* receiver, if any, is released and the scheduler runs                   *)
PostTo(MQ, m) ==
    \/ /\ minPrio[MQ] <= m.type
       /\ posted < MaxPosts
       /\ LET k1 == [K EXCEPT !.msgs[MQ] = Append(@, m)]
          IN  Commit(IF q[MQ] # <<>>
                     THEN k_schedule_threads(k_release_thread(k1, MQ))
                     ELSE k1)
       /\ posted' = posted + 1
       /\ UNCHANGED <<handles, retry, holds, created, uq, recvRetry, hvars>>
    \/ /\ minPrio[MQ] > m.type
       /\ UNCHANGED vars

(* the handle names a live thread (k_get_kthread) *)
LiveHandle(h) == tid[h[1]] = h[2] /\ tstate[h[1]] # PASSIVE

(* msg_q u passes "kgmsgq && kgmsgq->id == msgq->id" *)
ValidUq(u) == uq[u].handle # NULL /\ gid[uq[u].handle] = uq[u].id

(* sys__msg_post with dest_type MSG_QUEUE or MSG_THREAD *)
PostQueue(t, u, ty, sz) ==
    LET m == [type |-> ty, size |-> sz, data |-> posted + 1]
    IN  \/ /\ ~ValidUq(u)
           /\ UNCHANGED vars
        \/ /\ ValidUq(u)
           /\ PostTo(GMsgQ(uq[u].handle), m)

PostThread(t, h, ty, sz) ==
    LET m == [type |-> ty, size |-> sz, data |-> posted + 1]
    IN  \/ /\ ~LiveHandle(h)
           /\ UNCHANGED vars
        \/ /\ LiveHandle(h)
           /\ PostTo(ThrMsgQ(h[1]), m)

(***************************************************************************)
(* sys__msg_post with dest_type MSG_SIGNAL: when the target accepts the   *)
(* type and has a handler for it, a thread running the handler is created *)
(* at a free descriptor s with the target's priority + 1, and the         *)
(* scheduler runs; otherwise the signal is ignored.                        *)
(***************************************************************************)
PostSignal(t, h, ty, s) ==
    \/ /\ ~LiveHandle(h) \/ sigPrio[h[1]] > ty \/ ty \notin sigHandler[h[1]]
       /\ UNCHANGED vars
    \/ /\ LiveHandle(h) /\ sigPrio[h[1]] <= ty /\ ty \in sigHandler[h[1]]
       /\ created < MaxCreates
       /\ Commit(k_schedule_threads(k_create_thread(K, s, prio[h[1]] + 1, TRUE)))
       /\ retry' = [retry EXCEPT ![s] = NONE]
       /\ holds' = [holds EXCEPT ![s] = {}]
       /\ recvRetry' = [recvRetry EXCEPT ![s] = NONE]
       /\ created' = created + 1
       /\ UNCHANGED <<handles, uq, posted, hvars>>

(* Variant for checking: the head of the list is removed (FIRST) instead  *)
(* of the message found                                                    *)
list_remove_first(k, MQ, i) == [k EXCEPT !.msgs[MQ] = Tail(@)]

(* list_remove ( &kmsgq->msgs, FIRST, &kmsg->list ): unlink the message found *)
list_remove(k, MQ, i) == [k EXCEPT !.msgs[MQ] = RemoveAt(@, i)]

(***************************************************************************)
(* sys__msg_recv r = [src, type, size, wait] by t: from t's own queue     *)
(* (src = SELF) or through msg_q r.src.  The first message of the type    *)
(* asked for (any type when it is 0) is removed and returned, unless it   *)
(* does not fit the buffer (E_TOO_BIG, it stays).  With no such message   *)
(* the call fails with E_EMPTY, or with IPC_WAIT blocks the caller in the *)
(* queue and returns E_RETRY, on which receive_message calls again.       *)
(***************************************************************************)
Recv(t, r) ==
    LET g == IF r.src = SELF THEN NULL ELSE uq[r.src].handle
        bad == r.src # SELF /\ ~ValidUq(r.src)
        MQ == IF r.src = SELF THEN ThrMsgQ(t) ELSE GMsgQ(g)
        i == SelectInSeq(msgs[MQ], LAMBDA m : r.type = 0 \/ m.type = r.type)
        done == /\ recvRetry' = [recvRetry EXCEPT ![t] = NONE]
                /\ UNCHANGED <<handles, retry, holds, created, uq, posted>>
    IN  \/ /\ bad
           /\ done
           /\ UNCHANGED <<kvars, hvars>>
        \/ /\ ~bad /\ i # 0 /\ r.size < msgs[MQ][i].size
           /\ done
           /\ UNCHANGED <<kvars, hvars>>
        \/ /\ ~bad /\ i # 0 /\ r.size >= msgs[MQ][i].size
           /\ Commit(list_remove(K, MQ, i))
           /\ delivered' = delivered \cup {msgs[MQ][i].data}
           /\ done
           /\ UNCHANGED <<exited, collected, discarded>>
        \/ /\ ~bad /\ i = 0 /\ ~r.wait
           /\ done
           /\ UNCHANGED <<kvars, hvars>>
        \/ /\ ~bad /\ i = 0 /\ r.wait
           /\ Commit(k_schedule_threads(k_enqueue_thread(K, MQ)))
           /\ recvRetry' = [recvRetry EXCEPT ![t] = r]
           /\ UNCHANGED <<handles, retry, holds, created, uq, posted, hvars>>

Receives == [src : {SELF} \cup UQs, type : {0} \cup MsgTypes,
             size : BufSizes, wait : BOOLEAN]

(* the message syscalls a program may make *)
MsgStep(t) ==
    \/ \E mp \in MinPrios, sp \in SigPrios : ThreadMsgSet(t, mp, sp)
    \/ \E sp \in SigTypes, on \in BOOLEAN : SetSignalHandler(t, sp, on)
    \/ \E u \in UQs, g \in GQueues \ galloc, mp \in MinPrios :
           CreateMsgQueue(t, u, g, mp)
    \/ \E u \in UQs : DeleteMsgQueue(t, u)
    \/ \E ty \in MsgTypes, sz \in MsgSizes :
           \/ \E u \in UQs : PostQueue(t, u, ty, sz)
           \/ \E h \in handles : PostThread(t, h, ty, sz)
    \/ \E h \in handles, ty \in MsgTypes, s \in Slots \ alloc : PostSignal(t, h, ty, s)
    \/ \E r \in Receives : Recv(t, r)

(* What the program of the active thread t may ask for next.  Inside its  *)
(* wait_for_thread loop it can only re-issue the wait.                    *)
ThreadStep(t) ==
    IF retry[t] # NONE THEN WaitForThread(t, retry[t], TRUE)
    ELSE IF recvRetry[t] # NONE THEN Recv(t, recvRetry[t])
    ELSE \/ \E p \in CreatePrios, s \in Slots \ alloc : CreateThread(t, p, s)
         \/ \E st \in Statuses : ThreadExit(t, st)
         \/ \E h \in handles, wait \in BOOLEAN : WaitForThread(t, h, wait)
         \/ \E h \in handles : CancelThread(t, h)
         \/ \E s \in Sems : \/ SemWait(t, s) \/ SemPost(t, s) \/ SemDestroy(t, s)
                            \/ \E v \in 0 .. MaxSemValue : SemInit(t, s, v)
         \/ \E d \in Devs : \/ \E wait \in BOOLEAN : DeviceLock(t, d, wait)
                            \/ DeviceUnlock(t, d)
         \/ MESSAGES /\ MsgStep(t)

Next == active # IdleSlot /\ ThreadStep(active)

Spec == Init /\ [][Next]_vars
-----------------------------------------------------------------------------
(***************************************************************************)
(* Properties                                                             *)
(***************************************************************************)
Handles == Slots \X (0 .. MAX_RESOURCES - 1)

(* threads that can ever exist: idle, the first thread and those created *)
MaxThreads == MaxCreates + 2

TypeOK ==
    /\ active \in Slots
    /\ alloc \subseteq Slots
    /\ tid \in [Slots -> 0 .. MAX_RESOURCES - 1]
    /\ tstate \in [Slots -> {PASSIVE, READY, ACTIVE, WAIT}]
    /\ prio \in [Slots -> 0 .. PRIO_LEVELS - 1]
    /\ tqueue \in [Slots -> QueueIds \cup {NOQ}]
    \* its own reference plus one per thread that ever joined it
    /\ refcnt \in [Slots -> 0 .. MaxThreads]
    /\ q \in [QueueIds -> Seq(Slots)]
    /\ rdyMask \in [0 .. RDY_MASKS - 1 -> 0 .. WORD_ONES]
    /\ semVal \in [Sems -> {NOSEM} \cup Nat]
    /\ devLocked \in [Devs -> BOOLEAN]
    /\ handles \subseteq Handles
    /\ retry \in [Slots -> Handles \cup {NONE}]
    /\ holds \in [Slots -> SUBSET Devs]
    /\ msgs \in [MsgQIds -> Seq([type : MsgTypes, size : MsgSizes, data : 1 .. MaxPosts])]
    /\ minPrio \in [MsgQIds -> MinPrios \cup {0}]
    /\ sigPrio \in [Slots -> SigPrios \cup {0}]
    /\ sigHandler \in [Slots -> SUBSET SigTypes]
    /\ galloc \subseteq GQueues
    /\ gid \in [GQueues -> 0 .. MAX_RESOURCES - 1]
    /\ kmsg_qs \in Seq(GQueues)
    /\ uq \in [UQs -> {NOH} \cup [handle : GQueues, id : 0 .. MAX_RESOURCES - 1]]
    /\ recvRetry \in [Slots -> Receives \cup {NONE}]
    /\ posted \in 0 .. MaxPosts

Live == {t \in alloc : tstate[t] # PASSIVE}

(***************************************************************************)
(* Intrusive queue membership stays exact through every syscall: the     *)
(* active thread is the one ACTIVE descriptor and sits in no queue; a     *)
(* READY thread is exactly once in the ready queue of its own priority,   *)
(* a WAITing one exactly once in the queue its kthr->queue names, and no  *)
(* queue holds a freed, PASSIVE or ACTIVE descriptor.  Cancel, exit and   *)
(* the scheduler each move threads between queues and state by hand.      *)
(***************************************************************************)
QueuesConsistent ==
    /\ active \in alloc /\ tstate[active] = ACTIVE /\ tqueue[active] = NOQ
    /\ \A t \in alloc \ {active} : tstate[t] # ACTIVE
    /\ \A Q \in QueueIds : \A i \in 1 .. Len(q[Q]) :
          LET t == q[Q][i]
          IN  /\ t \in alloc /\ tqueue[t] = Q
              /\ tstate[t] = IF Q[1] = "ready" THEN READY ELSE WAIT
              /\ \A j \in 1 .. Len(q[Q]) : q[Q][j] = t => j = i
    /\ \A t \in alloc : tstate[t] \in {READY, WAIT} =>
          /\ \E i \in 1 .. Len(q[tqueue[t]]) : q[tqueue[t]][i] = t
          /\ tstate[t] = READY => tqueue[t] = ReadyQ(prio[t])

(***************************************************************************)
(* The ready bitmap mirrors the ready queues: bit p is set exactly when   *)
(* ready_q[p] is non-empty (spec section 8), after create, scheduling,    *)
(* release and the by-hand removal done by cancel_thread.                 *)
(***************************************************************************)
ReadyMaskMatchesQueues ==
    \A p \in 0 .. PRIO_LEVELS - 1 :
        ((rdyMask[p \div WORD_SIZE] \div 2^(p % WORD_SIZE)) % 2 = 1)
            <=> q[ReadyQ(p)] # <<>>

(***************************************************************************)
(* get_top_ready, scanning the bitmap words and taking the most           *)
(* significant bit, finds the highest non-empty ready level.              *)
(***************************************************************************)
TopReadyIsHighest ==
    LET levels == {p \in 0 .. PRIO_LEVELS - 1 : q[ReadyQ(p)] # <<>>}
    IN  get_top_ready(rdyMask) =
            IF levels = {} THEN -1
            ELSE CHOOSE p \in levels : \A r \in levels : r <= p

(***************************************************************************)
(* No ready thread has a higher priority than the running one: every      *)
(* syscall that makes a thread ready ends in k_schedule_threads (spec     *)
(* section 8, "strictly higher-priority ready threads always preempt").   *)
(***************************************************************************)
ActiveHasTopPriority ==
    \A t \in alloc : tstate[t] = READY => prio[t] <= prio[active]

(***************************************************************************)
(* A thread inside its wait_for_thread loop on h will find h's descriptor *)
(* still there when it re-issues the call: the reference it took keeps    *)
(* exit from freeing the descriptor and id, so it collects the status     *)
(* instead of being told "already gone".                                   *)
(***************************************************************************)
JoinerKeepsDescriptor ==
    \A t \in Live : retry[t] # NONE =>
        /\ retry[t][1] \in alloc
        /\ tid[retry[t][1]] = retry[t][2]

(***************************************************************************)
(* A sem_post never leaves a waiter blocked while adding a unit, and a    *)
(* sem_wait never blocks while a unit is available: a semaphore with      *)
(* waiters has value 0.                                                    *)
(***************************************************************************)
SemNoWaiterWhileAvailable ==
    \A s \in Sems : q[SemQ(s)] # <<>> => semVal[s] = 0

(***************************************************************************)
(* Every thread blocked in sem_wait can still be woken through the       *)
(* program's sem_t: it waits in the queue sem->ptr points to.  A second  *)
(* sys__sem_init on a semaphore with waiters breaks this: it points the  *)
(* handle at a new ksem_t and leaves the waiters in the old one.         *)
(***************************************************************************)
SemWaitersReachable == \A s \in Sems : q[OldSemQ(s)] = <<>>

(***************************************************************************)
(* The device lock as DeviceMutex sees it: the live thread whose          *)
(* device_lock returned 0 (or to which an unlock handed the device) and   *)
(* has not unlocked, NOBODY when kdev->locked is FALSE, ABANDONED when    *)
(* the device is locked and its holder has ended; the waiters are         *)
(* kdev->thrq.                                                             *)
(***************************************************************************)
ABANDONED == "abandoned"

HolderOf(d) ==
    IF ~devLocked[d] THEN NULL
    ELSE IF \E t \in Live : d \in holds[t] THEN CHOOSE t \in Live : d \in holds[t]
    ELSE ABANDONED

Dev == INSTANCE DeviceMutex WITH
    Devices <- Devs, Threads <- Slots, NOBODY <- NULL, ABANDONED <- ABANDONED,
    holder <- [d \in Devs |-> HolderOf(d)], waiting <- [d \in Devs |-> q[DevQ(d)]]

(***************************************************************************)
(* k_device_lock and k_device_unlock, with cancel and exit around them,   *)
(* implement the device lock of the spec for every device: one holder at  *)
(* a time, waiters served first come first served, an unlock that wakes a *)
(* waiter hands the device over without it ever being free, and a free    *)
(* device has nobody queued on it.  The only departures are a cancelled   *)
(* waiter leaving the queue and a holder ending without unlocking, which  *)
(* leaves the device locked for good.                                     *)
(***************************************************************************)
(* This is Dev!MSpec, with the stuttering case written first so that    *)
(* TLC settles the many steps that leave every device alone at once.     *)
ImplementsDeviceMutex == Dev!MInit /\ [][UNCHANGED Dev!mvars \/ Dev!MNext]_(Dev!mvars)

(***************************************************************************)
(* No device is left locked by a thread that has ended: exit and cancel  *)
(* would have to unlock what the thread holds.  sys__thread_exit and     *)
(* sys__cancel_thread do not, so a holder that ends abandons the device  *)
(* and its waiters block for ever.                                        *)
(***************************************************************************)
NoAbandonedDevice == \A d \in Devs : HolderOf(d) # ABANDONED

(***************************************************************************)
(* spec 4.3 step 2: the scheduler "switches only to a strictly better     *)
(* thread": a running thread that stays runnable is never replaced by one *)
(* of the same or a lower priority.                                        *)
(***************************************************************************)
SwitchOnlyToHigherPriority ==
    [][ (/\ active' # active
         /\ tstate'[active] = READY
         /\ active \in alloc')
        => prio'[active'] > prio[active] ]_vars

(***************************************************************************)
(* spec section 8, join semantics: a thread's exit status stays           *)
(* collectable until a wait_for_thread has returned it; the descriptor is  *)
(* not freed before.                                                       *)
(***************************************************************************)
StatusKeptUntilCollected ==
    \A h \in exited \ collected : tid[h[1]] = h[2]

(***************************************************************************)
(* spec 3 and 4.4: the reference count of a descriptor is its own         *)
(* reference while it runs plus one per joiner that has yet to collect    *)
(* its status; when the last of them lets go the descriptor is freed.     *)
(***************************************************************************)
RefCountMatchesCollectors ==
    \A t \in alloc :
        refcnt[t] = (IF tstate[t] # PASSIVE THEN 1 ELSE 0)
                    + Cardinality({j \in Live : retry[j] = <<t, tid[t]>>})

(***************************************************************************)
(* No message is lost or duplicated: every message a queue accepted is    *)
(* exactly once either still in a queue, returned by a receive, or        *)
(* deleted with its queue or its thread.  msg_recv must remove the very   *)
(* message it matched and copied out, not the head of the list.           *)
(***************************************************************************)
MessagesConserved ==
    /\ \A Q1, Q2 \in MsgQIds : \A i \in 1 .. Len(msgs[Q1]), j \in 1 .. Len(msgs[Q2]) :
          msgs[Q1][i].data = msgs[Q2][j].data => Q1 = Q2 /\ i = j
    /\ LET queued == UNION {Payloads(msgs[Q]) : Q \in MsgQIds}
       IN  /\ queued \cup delivered \cup discarded = 1 .. posted
           /\ queued \cap delivered = {} /\ queued \cap discarded = {}
           /\ delivered \cap discarded = {}

(***************************************************************************)
(* Every message queue keeps its messages in the order they were posted,  *)
(* also after typed receives took messages out of its middle.             *)
(***************************************************************************)
MsgQueueOrder ==
    \A Q \in MsgQIds : \A i \in 1 .. Len(msgs[Q]) - 1 :
        msgs[Q][i].data < msgs[Q][i + 1].data

(***************************************************************************)
(* No receiver stays blocked on a global queue that has been deleted:     *)
(* delete_msg_queue releases them all before it frees the block.          *)
(***************************************************************************)
WaitersOnLiveQueues ==
    \A g \in GQueues \ galloc : q[GMsgQ(g)] = <<>>

(***************************************************************************)
(* The list of all global message queues holds live queues only, each    *)
(* once: create_msg_queue appends to it, so a freed block on it is written *)
(* through by the next append.                                             *)
(***************************************************************************)
GlobalQueueListLive ==
    /\ \A i \in 1 .. Len(kmsg_qs) : kmsg_qs[i] \in galloc
    /\ IsInjective(kmsg_qs)

(* receive request r asks for message m *)
Wants(r, m) == r.type = 0 \/ m.type = r.type

(* the queue thread t's pending receive re-reads, NOQ if its msg_q is cleared *)
RecvQ(t) ==
    IF recvRetry[t].src = SELF THEN ThrMsgQ(t)
    ELSE IF uq[recvRetry[t].src].handle = NULL THEN NOQ
    ELSE GMsgQ(uq[recvRetry[t].src].handle)

(***************************************************************************)
(* spec 4.6: a blocking receive loops "until data arrives".  No receiver  *)
(* stays blocked on a queue holding a message it asked for, unless a      *)
(* receiver already released from that queue, which will re-issue its    *)
(* receive, also asks for that message.                                   *)
(***************************************************************************)
NoStrandedReceiver ==
    \A t \in alloc :
        tstate[t] = WAIT /\ recvRetry[t] # NONE =>
            \A i \in 1 .. Len(msgs[tqueue[t]]) :
                Wants(recvRetry[t], msgs[tqueue[t]][i]) =>
                    \E r \in alloc \ {t} :
                        /\ tstate[r] \in {READY, ACTIVE} /\ recvRetry[r] # NONE
                        /\ RecvQ(r) = tqueue[t]
                        /\ Wants(recvRetry[r], msgs[tqueue[t]][i])
=============================================================================
