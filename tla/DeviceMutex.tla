----------------------------- MODULE DeviceMutex -----------------------------
(***************************************************************************)
(* What the device lock promises for each device (spec, "Device Lock"):  *)
(* mutual exclusion, not reentrant; lock(wait) on a locked device queues  *)
(* the caller; unlock hands the lock to exactly one waiter, the first,    *)
(* "without ever appearing unlocked", so no new locker can race in; with  *)
(* no waiter the device becomes free.                                     *)
(*                                                                         *)
(* Two steps the kernel adds around it: a queued thread may leave the      *)
(* queue (it was cancelled), and a holder may end without unlocking (it   *)
(* exited or was cancelled), after which the device is ABANDONED: locked  *)
(* for good, with the queued threads still waiting.                        *)
(***************************************************************************)
EXTENDS Sequences, SequencesExt

CONSTANTS
    Devices,     \* the lockable devices
    Threads,     \* threads that may lock the device
    NOBODY,      \* holder of a free device
    ABANDONED    \* holder of a device whose holder ended while holding it

ASSUME NOBODY \notin Threads /\ ABANDONED \notin Threads /\ NOBODY # ABANDONED

VARIABLES
    holder,      \* per device: the thread that owns it, NOBODY or ABANDONED
    waiting      \* per device: threads blocked on it, in the order they asked

mvars == <<holder, waiting>>

MInit == holder = [d \in Devices |-> NOBODY] /\ waiting = [d \in Devices |-> <<>>]

(* lock on a free device *)
Acquire(t, d) ==
    /\ holder[d] = NOBODY /\ t \notin ToSet(waiting[d])
    /\ holder' = [holder EXCEPT ![d] = t]
    /\ UNCHANGED waiting

(* lock(wait) on a device someone else owns *)
Block(t, d) ==
    /\ holder[d] \notin {NOBODY, t} /\ t \notin ToSet(waiting[d])
    /\ waiting' = [waiting EXCEPT ![d] = Append(@, t)]
    /\ UNCHANGED holder

(* unlock: the first waiter becomes the holder, or the device is free *)
Release(t, d) ==
    /\ holder[d] = t
    /\ IF waiting[d] = <<>>
       THEN holder' = [holder EXCEPT ![d] = NOBODY] /\ UNCHANGED waiting
       ELSE /\ holder' = [holder EXCEPT ![d] = Head(waiting[d])]
            /\ waiting' = [waiting EXCEPT ![d] = Tail(@)]

(* a waiting thread is taken out of the queue *)
Leave(t, d) ==
    /\ t \in ToSet(waiting[d])
    /\ waiting' = [waiting EXCEPT ![d] = SelectSeq(@, LAMBDA u : u # t)]
    /\ UNCHANGED holder

(* the holder ends while holding the device *)
Abandon(d) ==
    /\ holder[d] \in Threads
    /\ holder' = [holder EXCEPT ![d] = ABANDONED]
    /\ UNCHANGED waiting

MNext ==
    \E d \in Devices :
        \/ \E t \in Threads : Acquire(t, d) \/ Block(t, d) \/ Release(t, d) \/ Leave(t, d)
        \/ Abandon(d)

MSpec == MInit /\ [][MNext]_mvars
=============================================================================
