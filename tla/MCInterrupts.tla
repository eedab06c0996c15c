---------------------------- MODULE MCInterrupts ----------------------------
(* Six pids (0..5, 1..5 usable) so that the round-robin scan wraps and    *)
(* skips unmarked pids on both sides of cur; two terminals, so one        *)
(* keyboard launch can leave a handler suspended in init_shell.           *)
EXTENDS Interrupts

MCMaxPid  == 6
MCNrTerm  == 2
=============================================================================
