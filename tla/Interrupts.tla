------------------------------ MODULE Interrupts ------------------------------
(***************************************************************************)
(* The nested-priority interrupt dispatcher of                             *)
(* Chapter_03_Interrupts/01_Interrupts_basic/arch/i386/arch/interrupts.c: *)
(* arch_register_interrupt_handler and arch_interrupt_handler.            *)
(*                                                                         *)
(* arch_interrupt_handler runs with interrupts disabled except while it   *)
(* calls a registered handler, so its work between two handler calls is  *)
(* one atomic step: Raise is the entry up to the first handler call (or   *)
(* the return), HandlerReturn is the code after a handler call up to the  *)
(* next call (or the return).  'frames' is the stack of invocations that  *)
(* are inside a handler call, each with its loop variable i.  Interrupts  *)
(* are enabled in every state between steps: either no handler runs, or   *)
(* the innermost one is in its body, where any interrupt may arrive.      *)
(* kprint and LOG are left out.                                            *)
(***************************************************************************)
EXTENDS Integers, Sequences

CONSTANTS
    INTERRUPTS,    \* number of interrupt sources (broj_prekida)
    prioritet,     \* the static priority table, a lower level is more urgent
    RaiseIrqs,     \* interrupt numbers that may arrive
    RegisterIrqs,  \* interrupt numbers a program may register a handler for
    MaxRaises      \* bound on the number of arrivals

Levels == 0 .. INTERRUPTS - 1

ASSUME /\ prioritet \in [Levels -> Levels]
       /\ RaiseIrqs \subseteq Levels
       /\ RegisterIrqs \subseteq Nat

IDLE_PRIO == 1000          \* initial tekuci_prioritet: no handler runs

VARIABLES
    tekuci_prioritet,            \* the current interrupt priority
    oznaka_cekanja,              \* per level: [ceka |-> pending, irq |-> source]
    prethodni_tekuci_prioritet,  \* per level: priority saved when level i runs
    ihandler,                    \* interrupt numbers with a handler registered
    frames,                      \* loop variable i of each handler call, outermost first
    halted,                      \* halt() was executed
    raises,                      \* number of arrivals so far
    raised                       \* history: sources raised and not yet handed to a handler

dvars == <<tekuci_prioritet, oznaka_cekanja, prethodni_tekuci_prioritet, frames>>
vars == <<tekuci_prioritet, oznaka_cekanja, prethodni_tekuci_prioritet,
          ihandler, frames, halted, raises, raised>>

(* the dispatcher state as a record, so one step can apply several updates *)
D == [tekuci |-> tekuci_prioritet, oznaka |-> oznaka_cekanja,
      prev |-> prethodni_tekuci_prioritet, frames |-> frames, raised |-> raised]

CommitD(s) ==
    /\ tekuci_prioritet' = s.tekuci
    /\ oznaka_cekanja' = s.oznaka
    /\ prethodni_tekuci_prioritet' = s.prev
    /\ frames' = s.frames
    /\ raised' = s.raised

(* Variant for checking: the pending flag is not cleared *)
Dispatch_noclear(s, i) ==
    [s EXCEPT !.prev[i] = s.tekuci, !.tekuci = i,
              !.frames = Append(s.frames, i),
              !.raised = @ \ {s.oznaka[i].irq}]

(***************************************************************************)
(* Body of the while loop up to the handler call (lines 80-86): clear the *)
(* pending flag of level i, save the current priority in the slot of      *)
(* level i, run at level i and call the handler of the source recorded    *)
(* at that level.                                                          *)
(***************************************************************************)
Dispatch(s, i) ==
    [s EXCEPT !.oznaka[i].ceka = FALSE, !.prev[i] = s.tekuci, !.tekuci = i,
              !.frames = Append(s.frames, i),
              !.raised = @ \ {s.oznaka[i].irq}]

(* Variant for checking: a level as urgent as the current one also preempts *)
Loop_sameprio(s, i) ==
    IF i < INTERRUPTS /\ i <= s.tekuci THEN Dispatch(s, i) ELSE s

(* the loop condition of line 79, tested at level i *)
Loop(s, i) ==
    IF i < INTERRUPTS /\ i < s.tekuci THEN Dispatch(s, i) ELSE s

(* lines 92-93: skip the levels with nothing pending, up to the current priority *)
RECURSIVE Scan(_, _)
Scan(s, i) ==
    IF i < INTERRUPTS /\ i < s.tekuci /\ ~s.oznaka[i].ceka
    THEN Scan(s, i + 1) ELSE i

Init ==
    /\ tekuci_prioritet = IDLE_PRIO
    /\ oznaka_cekanja = [l \in Levels |-> [ceka |-> FALSE, irq |-> 0]]
    /\ prethodni_tekuci_prioritet = [l \in Levels |-> IF l = 0 THEN -1 ELSE 0]
    /\ ihandler = {}
    /\ frames = <<>>
    /\ halted = FALSE
    /\ raises = 0
    /\ raised = {}

(* arch_register_interrupt_handler: an out-of-range number halts *)
Register(inum) ==
    /\ ~halted
    /\ IF inum < INTERRUPTS
       THEN /\ ihandler' = ihandler \cup {inum}
            /\ UNCHANGED halted
       ELSE /\ halted' = TRUE
            /\ UNCHANGED ihandler
    /\ UNCHANGED <<dvars, raises, raised>>

(***************************************************************************)
(* arch_interrupt_handler(irq_num) entered, up to its first handler call  *)
(* or its return: mark level prioritet[irq_num] pending with this source  *)
(* (a source already waiting there is overwritten) and run it at once if  *)
(* it is more urgent than the current priority.  An unregistered source  *)
(* halts.                                                                  *)
(***************************************************************************)
Raise(irq) ==
    /\ ~halted
    /\ raises < MaxRaises
    /\ raises' = raises + 1
    /\ IF irq \in ihandler
       THEN LET p == prioritet[irq]
                s1 == [D EXCEPT !.oznaka[p] = [ceka |-> TRUE, irq |-> irq],
                                !.raised = @ \cup {irq}]
            IN  /\ CommitD(Loop(s1, p))
                /\ UNCHANGED halted
       ELSE /\ halted' = TRUE
            /\ UNCHANGED <<dvars, raised>>
    /\ UNCHANGED ihandler

(* Variant for checking: the slot is cleared before the priority is restored *)
HandlerReturn_swapped ==
    /\ ~halted
    /\ frames # <<>>
    /\ LET i == frames[Len(frames)]
           s0 == [D EXCEPT !.prev[i] = -1]
           s1 == [s0 EXCEPT !.tekuci = s0.prev[i],
                            !.frames = SubSeq(@, 1, Len(@) - 1)]
       IN  CommitD(Loop(s1, Scan(s1, i)))
    /\ UNCHANGED <<ihandler, halted, raises>>

(* Variant for checking: return without scanning for pending levels *)
HandlerReturn_noscan ==
    /\ ~halted
    /\ frames # <<>>
    /\ CommitD([D EXCEPT !.tekuci = D.prev[frames[Len(frames)]],
                          !.prev[frames[Len(frames)]] = -1,
                          !.frames = SubSeq(@, 1, Len(@) - 1)])
    /\ UNCHANGED <<ihandler, halted, raises>>

(***************************************************************************)
(* The innermost handler call returns (lines 87-93 and the loop test):    *)
(* restore the priority saved for level i, clear the slot, scan upwards   *)
(* for a pending level more urgent than the restored priority, and call   *)
(* its handler, or return from this arch_interrupt_handler invocation.    *)
(***************************************************************************)
HandlerReturn ==
    /\ ~halted
    /\ frames # <<>>
    /\ LET i == frames[Len(frames)]
           s1 == [D EXCEPT !.tekuci = D.prev[i], !.prev[i] = -1,
                           !.frames = SubSeq(@, 1, Len(@) - 1)]
       IN  CommitD(Loop(s1, Scan(s1, i)))
    /\ UNCHANGED <<ihandler, halted, raises>>

Next ==
    \/ \E inum \in RegisterIrqs : Register(inum)
    \/ \E irq \in RaiseIrqs : Raise(irq)
    \/ HandlerReturn

(* the registered handlers (programs/prekidi) run to completion *)
Spec == Init /\ [][Next]_vars /\ WF_vars(HandlerReturn)
-----------------------------------------------------------------------------
TypeOK ==
    /\ tekuci_prioritet \in Levels \cup {IDLE_PRIO}
    /\ oznaka_cekanja \in [Levels -> [ceka : BOOLEAN, irq : Levels]]
    /\ prethodni_tekuci_prioritet \in [Levels -> Levels \cup {IDLE_PRIO, -1}]
    /\ ihandler \subseteq Levels
    /\ frames \in Seq(Levels)
    /\ halted \in BOOLEAN
    /\ raises \in 0 .. MaxRaises
    /\ raised \subseteq RaiseIrqs

(***************************************************************************)
(* No priority inversion: whenever interrupts are enabled, no level is    *)
(* left pending that is more urgent than the current priority.  The scan  *)
(* of lines 92-93 after a handler returns must find every level that the  *)
(* restored priority makes eligible.                                      *)
(***************************************************************************)
PendingNotBelowCurrent ==
    \A l \in Levels : oznaka_cekanja[l].ceka => l >= tekuci_prioritet

(***************************************************************************)
(* Nesting (spec 4.5, 8): handler calls nest strictly by urgency, the     *)
(* current priority is the level of the innermost call, and the slot of   *)
(* each running level holds exactly the priority its handler interrupted, *)
(* so each return restores the context it preempted.                      *)
(***************************************************************************)
NestingRestoresPriority ==
    /\ tekuci_prioritet = IF frames = <<>> THEN IDLE_PRIO ELSE frames[Len(frames)]
    /\ \A k \in 1 .. Len(frames) :
         prethodni_tekuci_prioritet[frames[k]] =
             IF k = 1 THEN IDLE_PRIO ELSE frames[k - 1]
    /\ \A k \in 2 .. Len(frames) : frames[k] < frames[k - 1]

(***************************************************************************)
(* Every interrupt raised is either waiting in the slot of its level or   *)
(* has been handed to its handler: none is forgotten.                     *)
(***************************************************************************)
NoLostInterrupt ==
    \A irq \in raised :
        oznaka_cekanja[prioritet[irq]] = [ceka |-> TRUE, irq |-> irq]

(***************************************************************************)
(* The dispatcher implements the abstract nested-priority discipline of   *)
(* NestedInterrupts: arrivals, handler completions and halts map to its   *)
(* Arrive, Finish and Stop, and under the fairness that handlers finish,  *)
(* every pending level is eventually handled.                             *)
(***************************************************************************)
Abs == INSTANCE NestedInterrupts WITH
    Levels <- Levels, IDLE <- IDLE_PRIO,
    running <- frames,
    pending <- {l \in Levels : oznaka_cekanja[l].ceka},
    stopped <- halted

ImplementsNested == Abs!ASpec
=============================================================================
