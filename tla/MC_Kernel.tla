------------------------------ MODULE MC_Kernel ------------------------------
(* Model-checking instance of Kernel: the idle thread, the first program  *)
(* thread and two further descriptors, six priority levels over two      *)
(* bitmap words, one semaphore and one lockable device, or (the MESSAGES *)
(* build) one global message queue.                                       *)
EXTENDS Kernel, TLC

CONSTANTS idle, init, a, b, sem1, dev1, g1, u1

MC_Slots == {idle, init, a, b}
MC_PRIO_LEVELS == 6
MC_WORD_SIZE == 4
MC_INIT_PRIO == 2
\* 2 is the init thread's own level, 7 is clamped to the top level 5
MC_CreatePrios == {2, 7}
MC_Statuses == {42}
MC_MAX_RESOURCES == 8
MC_MaxCreates == 3
MC_MaxSemValue == 1

\* messages: two types, a message that fits the buffer and one that does not
MC_MsgTypes == {1, 2}
MC_MsgSizes == {1, 2}
MC_BufSizes == {1}
\* 0 accepts every type, 2 drops type 1
MC_MinPrios == {0, 2}
MC_MaxPosts == 2
\* the MESSAGES build: one priority for created threads (a signal thread
\* runs one level above its target), two ids for threads and queues
MC_MsgCreatePrios == {2}
MC_MsgMaxCreates == 2
MC_MsgSlots == {idle, init, a}

MC_Symmetry == Permutations({a, b})
=============================================================================
