---------------------------- MODULE MC_Interrupts ----------------------------
EXTENDS Interrupts

(* INTERRUPTS of the i386 build: 32 exceptions and 17 device/software sources *)
MC_INTERRUPTS == 49

(* prioritet[] as initialised in interrupts.c *)
MC_prioritet ==
    LET t == << 3, 2, 6, 7, 4, 1, 0, 8, 5, 5, 3, 2, 6, 7, 4, 1, 0, 8, 5, 5,
               3, 0, 0, 0, 0, 0, 0, 0, 0, 0, 3, 2, 4, 5, 6, 1, 0, 8, 5, 5,
               3, 2, 6, 7, 4, 1, 0, 8, 5 >>
    IN  [i \in 0 .. 48 |-> t[i + 1]]

(* 32, 33 and 34 are the sources of programs/prekidi (levels 4, 5, 6);    *)
(* 39 shares level 5 with 33; 40 is never registered                      *)
MC_RaiseIrqs == {32, 33, 34, 39, 40}
MC_RegisterIrqs == {32, 33, 34, 39, 49}
MC_MaxRaises == 4
=============================================================================
