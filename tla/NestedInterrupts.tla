--------------------------- MODULE NestedInterrupts ---------------------------
(***************************************************************************)
(* What the interrupt priority dispatcher promises (spec 4.5), stated      *)
(* without its flags, save slots and scan loop: a stack of running        *)
(* handler levels and a set of pending levels.  A lower level is more     *)
(* urgent.  An arriving level preempts when it is more urgent than the    *)
(* running one, and otherwise waits; when a handler finishes, the most    *)
(* urgent pending level that is more urgent than the resumed context      *)
(* runs next.                                                              *)
(***************************************************************************)
EXTENDS Integers, Sequences, FiniteSets

CONSTANTS
    Levels,    \* the priority levels
    IDLE       \* the current priority when no handler runs

ASSUME \A l \in Levels : l < IDLE

VARIABLES
    running,   \* levels of the handlers in progress, outermost first
    pending,   \* levels with an interrupt waiting
    stopped    \* the machine halted on a configuration error

avars == <<running, pending, stopped>>

Cur(r) == IF r = <<>> THEN IDLE ELSE r[Len(r)]

AInit ==
    /\ running = <<>>
    /\ pending = {}
    /\ stopped = FALSE

(* an interrupt of level l arrives *)
Arrive(l) ==
    /\ ~stopped
    /\ IF l < Cur(running)
       THEN /\ running' = Append(running, l)
            /\ pending' = pending \ {l}
       ELSE /\ pending' = pending \cup {l}
            /\ UNCHANGED running
    /\ UNCHANGED stopped

(* the innermost handler finishes; the best eligible pending level runs *)
Finish ==
    /\ ~stopped
    /\ running # <<>>
    /\ LET r == SubSeq(running, 1, Len(running) - 1)
           eligible == {p \in pending : p < Cur(r)}
           best == CHOOSE p \in eligible : \A o \in eligible : p <= o
       IN  IF eligible = {}
           THEN /\ running' = r
                /\ UNCHANGED pending
           ELSE /\ running' = Append(r, best)
                /\ pending' = pending \ {best}
    /\ UNCHANGED stopped

Stop ==
    /\ ~stopped
    /\ stopped' = TRUE
    /\ UNCHANGED <<running, pending>>

ANext == (\E l \in Levels : Arrive(l)) \/ Finish \/ Stop

(* handlers run to completion: a finished handler is eventually returned from *)
ASpec == AInit /\ [][ANext]_avars /\ WF_avars(Finish)
=============================================================================
