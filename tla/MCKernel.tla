------------------------------ MODULE MCKernel ------------------------------
(* Model-checking instance of Kernel: three pids (1..3), so that a shell  *)
(* can run a chain of two programs and the pool runs dry on the third.   *)
EXTENDS Kernel, TLC

MCMaxPid == 4
MCOneTerm == 1
MCTwoTerms == 2
MCSmallPid == 3

(* The image's regular files: an executable (any length from 28 bytes up  *)
(* behaves alike) and an empty file, which executable_check lets through  *)
(* and whose entry point the loader never writes.  A file that fails the  *)
(* check adds no state: execute returns -1 on it.                         *)
MCFiles == ("shell" :> [len |-> 5349, magic |-> TRUE]) @@
           ("empty" :> [len |-> 0, magic |-> FALSE])
=============================================================================
