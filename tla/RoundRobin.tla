----------------------------- MODULE RoundRobin -----------------------------
(***************************************************************************)
(* The pure part of scheduler_tick (kernel/scheduling.c): whether any task *)
(* is marked in the sched[] bitmap, and which pid the tick switches to.   *)
(* sched is a function from 0..max-1 to {0, 1}, as the uint8_t array is.  *)
(***************************************************************************)
EXTENDS Naturals

\* Mutant: the first loop stops one pid short of the end of sched[].
AnyScheduledShort(sched, max) == \E i \in 0 .. max - 2 : sched[i] = 1

\* The first loop of scheduler_tick: is any pid marked runnable at all?
AnyScheduled(sched, max) == \E i \in 0 .. max - 1 : sched[i] = 1

\* The second loop of scheduler_tick: starting at i, walk upward modulo
\* max and stop at the first runnable pid; arriving back at cur without
\* finding one leaves next_pid = cur (the "default to the current pid"
\* branch).
RECURSIVE ScanFrom(_, _, _, _)
ScanFrom(i, cur, sched, max) ==
    IF i = cur THEN cur
    ELSE IF sched[i] = 1 THEN i
    ELSE ScanFrom((i + 1) % max, cur, sched, max)

\* Mutant: the scan walks downward from the current pid.
RECURSIVE ScanDown(_, _, _, _)
ScanDown(i, cur, sched, max) ==
    IF i = cur THEN cur
    ELSE IF sched[i] = 1 THEN i
    ELSE ScanDown((i + max - 1) % max, cur, sched, max)

NextPidDown(cur, sched, max) == ScanDown((cur + max - 1) % max, cur, sched, max)

NextPid(cur, sched, max) == ScanFrom((cur + 1) % max, cur, sched, max)

\* Reference definition of strict round robin: among the runnable pids
\* other than cur, the one at the least forward distance from cur; cur
\* itself when there is no other.
NextPidRef(cur, sched, max) ==
    LET others == {p \in 0 .. max - 1 : sched[p] = 1 /\ p # cur}
        dist(p) == (p - cur + max) % max
    IN  IF others = {} THEN cur
        ELSE CHOOSE p \in others : \A q \in others : dist(p) <= dist(q)
=============================================================================
