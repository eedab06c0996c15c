----------------------------- MODULE Interrupts -----------------------------
(***************************************************************************)
(* The scheduler of Scheduler composed with the interrupt path that drives *)
(* it: the PIT, keyboard and RTC raise their IRQ lines at the 8259s (Pic), *)
(* the CPU takes the request the controllers deliver whenever it runs with *)
(* IF set, and each handler runs behind an interrupt gate (IF clear) until *)
(* it returns: pit_handler acknowledges IRQ 0 and calls scheduler_tick,    *)
(* keyboard_handler and rtc_irq_handler acknowledge their lines last.      *)
(*                                                                         *)
(* An Alt+Fn that opens a new terminal makes keyboard_handler send its EOI *)
(* early, set IF and call syscall_init_shell, which enters the new shell   *)
(* on a fresh pid; the interrupted context finishes the handler (and sends *)
(* a second EOI) only when the scheduler next runs it.  Tasks themselves   *)
(* are abstract: any pid may be (un)scheduled while task code runs.        *)
(***************************************************************************)
EXTENDS Naturals, Pic, RoundRobin

CONSTANTS
    MAX_PID,    \* tasks.h
    NR_TERM     \* termios.h: terminals, hence at most NR_TERM - 1 launches

Pids == 1 .. MAX_PID - 1

\* The device lines in use and the handler each one's vector runs.
Lines == {PIT_IRQ_LINE, KEYBOARD_IRQ_NUM, RTC_IRQ_NUM}
Handler == [l \in Lines |-> CASE l = PIT_IRQ_LINE     -> "pit"
                              [] l = KEYBOARD_IRQ_NUM -> "kbd"
                              [] l = RTC_IRQ_NUM      -> "rtc"]

VARIABLES
    sched, cur,     \* as in Scheduler
    isr,            \* lines in service at the 8259s
    irr,            \* lines requesting service
    cpu,            \* "run" (task code, IF set) or the handler running
    kbd_wait,       \* per pid: keyboard_handlers suspended in init_shell
    shells          \* terminals started from the keyboard so far

vars == <<sched, cur, isr, irr, cpu, kbd_wait, shells>>

S == INSTANCE Scheduler

\* The lines the boot masks leave open (nothing changes a mask later).
open == OpenLines(BootMasks)

Init ==
    /\ S!Init
    /\ isr = {} /\ irr = {}
    /\ cpu = "run"
    /\ kbd_wait = [p \in Pids |-> 0]
    /\ shells = 0

-----------------------------------------------------------------------------
(* A device raises its line (the PIT every 10 ms, the keyboard on a key,  *)
(* the RTC at its rate); a line already requesting stays as it is.  Those *)
(* periods dwarf a handler's run, so a device raises its line while task  *)
(* code runs: a raise during a handler is the same request latched one    *)
(* step earlier, reaching the same controller states.                     *)
Raise(l) ==
    /\ cpu = "run"
    /\ l \notin irr
    /\ irr' = irr \cup {l}
    /\ UNCHANGED <<sched, cur, isr, cpu, kbd_wait, shells>>

(* The CPU, running with IF set, acknowledges the request the controllers *)
(* present and enters that vector's handler through its interrupt gate.   *)
Interrupt ==
    /\ cpu = "run"
    /\ Pending(open, isr, irr)
    /\ LET n == Delivered(open, isr, irr) IN
          /\ isr' = isr \cup InService(n)
          /\ irr' = irr \ {n}
          /\ cpu' = Handler[n]
    /\ UNCHANGED <<sched, cur, kbd_wait, shells>>

(* pit_handler: send_eoi(PIT_IRQ_LINE), then scheduler_tick, which returns *)
(* at once if no pid is marked and otherwise switches to the next one.    *)
PitHandler ==
    /\ cpu = "pit"
    /\ isr' = SendEoi(isr, PIT_IRQ_LINE)
    /\ \/ S!scheduler_tick
       \/ ~AnyScheduled(sched, MAX_PID) /\ UNCHANGED <<sched, cur>>
    /\ cpu' = "run"
    /\ UNCHANGED <<irr, kbd_wait, shells>>

\* keyboard_handler for any key but an Alt+Fn that opens a terminal.
KeyboardHandler ==
    /\ cpu = "kbd"
    /\ isr' = SendEoi(isr, KEYBOARD_IRQ_NUM)
    /\ cpu' = "run"
    /\ UNCHANGED <<sched, cur, irr, kbd_wait, shells>>

\* Mutant: a terminal's shell is launched again (shell_active not tested).
KeyboardLaunchUnbounded ==
    /\ cpu = "kbd"
    /\ isr' = SendEoi(isr, KEYBOARD_IRQ_NUM)
    /\ \E p \in Pids :
          /\ p # cur /\ sched[p] = 0
          /\ sched' = [sched EXCEPT ![p] = 1]
          /\ cur' = p
    /\ kbd_wait' = [kbd_wait EXCEPT ![cur] = @ + 1]
    /\ shells' = shells + 1
    /\ cpu' = "run"
    /\ UNCHANGED irr

(* keyboard_handler, Alt+Fn on a terminal with no shell yet: send_eoi,    *)
(* sti, and syscall_init_shell, which schedules a fresh pid and irets into *)
(* the new shell there; the interrupted context stays suspended.          *)
KeyboardLaunch ==
    /\ cpu = "kbd"
    /\ shells < NR_TERM - 1
    /\ isr' = SendEoi(isr, KEYBOARD_IRQ_NUM)
    /\ \E p \in Pids :
          /\ p # cur /\ sched[p] = 0
          /\ sched' = [sched EXCEPT ![p] = 1]
          /\ cur' = p
    /\ kbd_wait' = [kbd_wait EXCEPT ![cur] = @ + 1]
    /\ shells' = shells + 1
    /\ cpu' = "run"
    /\ UNCHANGED irr

(* Back in a context suspended that way: init_shell returns 0 and the     *)
(* handler finishes with input_process_key, sti and send_eoi again.       *)
KeyboardResume ==
    /\ cpu = "run"
    /\ kbd_wait[cur] > 0
    /\ isr' = SendEoi(isr, KEYBOARD_IRQ_NUM)
    /\ kbd_wait' = [kbd_wait EXCEPT ![cur] = @ - 1]
    /\ UNCHANGED <<sched, cur, irr, cpu, shells>>

\* rtc_irq_handler: read register C, set rtc_flag, send_eoi(RTC_IRQ_NUM).
RtcHandler ==
    /\ cpu = "rtc"
    /\ isr' = SendEoi(isr, RTC_IRQ_NUM)
    /\ cpu' = "run"
    /\ UNCHANGED <<sched, cur, irr, kbd_wait, shells>>

\* Task code (execute, halt, init_shell) marks and unmarks pids.
TaskStep ==
    /\ cpu = "run"
    /\ \E p \in Pids : S!schedule_task(p) \/ S!unschedule_task(p)
    /\ UNCHANGED <<isr, irr, cpu, kbd_wait, shells>>

Next ==
    \/ \E l \in Lines : Raise(l)
    \/ Interrupt
    \/ PitHandler \/ KeyboardHandler \/ KeyboardLaunch \/ KeyboardResume
    \/ RtcHandler
    \/ TaskStep

(* The PIT keeps raising IRQ 0 (strong fairness: it raises while task    *)
(* code runs, which handlers interrupt); a handler, which cannot be       *)
(* interrupted, runs to its end.  A request the controllers present again and again,  *)
(* whenever the CPU has IF set, is taken (strong fairness per line, since *)
(* a higher-priority request may win some of those turns).                 *)
(* A suspended keyboard_handler finishes once its context holds the CPU,  *)
(* which ticks take away and give back: strong fairness.  Key presses,    *)
(* RTC interrupts and task steps are not obliged to happen.               *)
Fairness ==
    /\ SF_vars(Raise(PIT_IRQ_LINE))
    /\ \A l \in Lines : SF_vars(Interrupt /\ Delivered(open, isr, irr) = l)
    /\ WF_vars(PitHandler \/ KeyboardHandler \/ RtcHandler)
    /\ SF_vars(KeyboardResume)

Spec == Init /\ [][Next]_vars /\ Fairness

-----------------------------------------------------------------------------
TypeOK ==
    /\ S!TypeOK
    /\ isr \subseteq 0 .. NR_IRQS - 1 /\ irr \subseteq Lines
    /\ cpu \in {"run", "pit", "kbd", "rtc"}
    /\ kbd_wait \in [Pids -> 0 .. NR_TERM - 1]
    /\ shells \in 0 .. NR_TERM - 1

(* Every context switch of scheduler_tick, taken in pit_handler, goes to  *)
(* the runnable pid that strict round robin names: the first one after    *)
(* the current pid in cyclic order, the current pid if no other runs.     *)
TickIsRoundRobin ==
    [][PitHandler /\ AnyScheduled(sched, MAX_PID) =>
          cur' = NextPidRef(cur, sched, MAX_PID)]_vars

(* No runnable task starves: a pid that stays scheduled from some point   *)
(* on runs again and again.  This rests on the scan of scheduler_tick and *)
(* on pit_handler acknowledging IRQ 0, so that ticks keep coming.         *)
StarvationFree ==
    \A p \in Pids : <>[](sched[p] = 1) => []<>(cur = p)

(* Every request of the timer, the keyboard and the RTC is eventually     *)
(* serviced: the boot masks leave the three lines (and the cascade)       *)
(* open, and every handler's send_eoi clears what the request put in      *)
(* service at both controllers, so no line stays blocked.                 *)
RequestsServiced ==
    \A l \in Lines : l \in irr ~> l \notin irr
=============================================================================
