----------------------------- MODULE AllocTests -----------------------------
(***************************************************************************)
(* The two allocator test programs of Chapter_04_Timer/03_GMA, dmem       *)
(* (DMem) and labos2test (LabosTest), each a separate program that sets   *)
(* up its own pool with bf_init and then drives bf_alloc and bf_free.     *)
(* A behaviour is one run of one of them on a fresh pool.                 *)
(*                                                                         *)
(* Each program is one sequential thread that runs until it returns: it   *)
(* never waits on another thread, and timer interrupts only delay it.     *)
(* So its steps are weakly fair: WF_tvars(TNext), written out below with  *)
(* CanRun in place of ENABLED <<TNext>>_tvars, which TLC evaluates slowly *)
(* here; AllocTests_enabled.cfg checks that the two agree.                *)
(***************************************************************************)
EXTENDS DMem, LabosTest

VARIABLE prog    \* the program that runs: "dmem" or "labos2test"

tvars == <<vars, dvars, lvars, prog>>

TInit ==
    /\ prog \in {"dmem", "labos2test"}
    /\ DInit
    /\ LInit

TNext ==
    /\ \/ prog = "dmem" /\ DNext /\ UNCHANGED lvars
       \/ prog = "labos2test" /\ LNext /\ UNCHANGED dvars
    /\ UNCHANGED prog

(* the program has returned *)
ProgramReturned == IF prog = "dmem" THEN phase = "end" ELSE n = ROUNDS

(***************************************************************************)
(* The program has a next step: it has not returned, and it is not in     *)
(* dmem's free loop with no set entry of m[] left for a draw to find.     *)
(* Every other statement of both programs can always be taken.            *)
(***************************************************************************)
CanRun ==
    /\ ~ProgramReturned
    /\ ~(prog = "dmem" /\ phase = "free" /\ \A k \in Entries : m[k].ptr = NULLP)

(* weak fairness of the program's steps *)
ProgramFair == []<>~CanRun \/ []<><<TNext>>_tvars

TSpec == TInit /\ [][TNext]_tvars /\ ProgramFair
-----------------------------------------------------------------------------
TTypeOK == DTypeOK /\ LTypeOK /\ prog \in {"dmem", "labos2test"}

(* TableMatchesPool (DMem) and PointersMatchPool (LabosTest), each for   *)
(* the program it is about; the other program's table stays empty.       *)
DmemTableMatchesPool == prog = "dmem" => TableMatchesPool
LabosPointersMatchPool == prog = "labos2test" => PointersMatchPool

(* CanRun is the enabledness of the program's steps *)
CanRunIsEnabled == CanRun <=> ENABLED <<TNext>>_tvars

(***************************************************************************)
(* The program returns.  dmem's free branch "while ( used > 0 )" loops    *)
(* until a draw finds a set entry of m[], so it ends only if used never   *)
(* counts a block the table no longer holds; every other loop of both     *)
(* programs is bounded.                                                    *)
(***************************************************************************)
Terminates == <>ProgramReturned
=============================================================================
