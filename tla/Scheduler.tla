----------------------------- MODULE Scheduler ------------------------------
(***************************************************************************)
(* The scheduler of kernel/scheduling.c on its own: the sched[] bitmap,    *)
(* which execute, halt and init_shell change through schedule_task and     *)
(* unschedule_task, and the context switch scheduler_tick makes on every   *)
(* PIT interrupt.  Here any pid may be (un)scheduled at any time, so that  *)
(* more tasks are runnable at once than the process model reaches.         *)
(***************************************************************************)
EXTENDS Naturals, RoundRobin

CONSTANT MAX_PID

Pids == 1 .. MAX_PID - 1

VARIABLES
    sched,      \* sched[0 .. MAX_PID-1]
    cur         \* pid of the running context (pcb_process()->pid)

vars == <<sched, cur>>

(* After scheduling_init and the first syscall_init_shell: pid 1 runs.    *)
Init ==
    /\ sched = [i \in 0 .. MAX_PID - 1 |-> IF i = 1 THEN 1 ELSE 0]
    /\ cur = 1

schedule_task(pid) ==
    /\ sched' = [sched EXCEPT ![pid] = 1]
    /\ UNCHANGED cur

unschedule_task(pid) ==
    /\ sched' = [sched EXCEPT ![pid] = 0]
    /\ UNCHANGED cur

(* scheduler_tick: return if no pid is marked; otherwise switch to the    *)
(* next marked pid above the current one (or stay).                       *)
scheduler_tick ==
    /\ AnyScheduled(sched, MAX_PID)
    /\ cur' = NextPid(cur, sched, MAX_PID)
    /\ UNCHANGED sched

Next ==
    \/ \E p \in Pids : schedule_task(p) \/ unschedule_task(p)
    \/ scheduler_tick

(* The PIT keeps interrupting: a tick that stays possible is taken.       *)
Spec == Init /\ [][Next]_vars /\ WF_vars(scheduler_tick)

-----------------------------------------------------------------------------
TypeOK ==
    /\ sched \in [0 .. MAX_PID - 1 -> {0, 1}]
    /\ cur \in 0 .. MAX_PID - 1

(* Every context switch of scheduler_tick goes to the runnable pid that   *)
(* strict round robin names: the first one after the current pid in       *)
(* cyclic order, the current pid only if no other is runnable.            *)
TickIsRoundRobin ==
    [][scheduler_tick => cur' = NextPidRef(cur, sched, MAX_PID)]_vars

(* No runnable task starves: a pid that stays scheduled from some point   *)
(* on runs again and again.                                               *)
StarvationFree ==
    \A p \in Pids : <>[](sched[p] = 1) => []<>(cur = p)
=============================================================================
