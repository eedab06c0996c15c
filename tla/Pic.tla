-------------------------------- MODULE Pic ---------------------------------
(***************************************************************************)
(* The two cascaded 8259 interrupt controllers as drivers/i8259.c drives   *)
(* them.  The mask registers are the uint8_t values enable_irq and         *)
(* disable_irq read back with inb and rewrite with outb; send_eoi issues   *)
(* specific EOIs.  The in-service and request registers are sets of IRQ    *)
(* numbers 0..15 (2 is the master's cascade input); delivery follows the  *)
(* fully nested mode ICW4 selects: the highest-priority unmasked request   *)
(* above every line in service wins, and a slave request reaches the CPU   *)
(* through master line 2.                                                  *)
(***************************************************************************)
EXTENDS Naturals, FiniteSetsExt, Bitwise

\* i8259.h and the device headers (pit.h, keyboard.h, rtc.h).
SLAVE_IRQ_NUM    == 2
NR_IRQS          == 16
PIT_IRQ_LINE     == 0
KEYBOARD_IRQ_NUM == 1
RTC_IRQ_NUM      == 8

MasterLines == 0 .. 7
SlaveLines  == 8 .. 15

\* C's ~ applied to a shifted bit, as it lands in the uint8_t mask value.
Not8(x) == 255 - (x % 256)

\* enable_irq: clear the line's bit in the master or the slave mask.
EnableIrq(m, irq_num) ==
    IF irq_num < 8
    THEN [m EXCEPT !.master = @ & Not8(2^irq_num)]
    ELSE [m EXCEPT !.slave = @ & Not8(2^(irq_num - 8))]

\* disable_irq: set the line's bit in the master or the slave mask.
DisableIrq(m, irq_num) ==
    IF irq_num < 8
    THEN [m EXCEPT !.master = @ | 2^irq_num]
    ELSE [m EXCEPT !.slave = @ | 2^(irq_num - 8)]

(* i8259_init: ICW1 clears both mask registers; the ICW2-ICW4 words set    *)
(* the vectors and the cascade; then every line is disabled in turn and    *)
(* the cascade line re-enabled.                                            *)
RECURSIVE DisableFrom(_, _)
DisableFrom(m, i) ==
    IF i >= NR_IRQS THEN m ELSE DisableFrom(DisableIrq(m, i), i + 1)

I8259Init ==
    EnableIrq(DisableFrom([master |-> 0, slave |-> 0], 0), SLAVE_IRQ_NUM)

(* The boot sequence (kernel.c is not among the sources): i8259_init,      *)
(* then pit_init, keyboard_init and rtc_init each enable their line.       *)
(* Nothing changes a mask afterwards.                                      *)
BootMasks ==
    EnableIrq(EnableIrq(EnableIrq(I8259Init, PIT_IRQ_LINE), KEYBOARD_IRQ_NUM),
              RTC_IRQ_NUM)

Masked(m, n) ==
    IF n < 8 THEN (m.master & 2^n) # 0 ELSE (m.slave & 2^(n - 8)) # 0

\* The lines the masks m let through.
OpenLines(m) == {n \in 0 .. NR_IRQS - 1 : ~Masked(m, n)}

\* Mutant: send_eoi of a slave line acknowledges only the slave.
SendEoiSlaveOnly(isr, irq_num) ==
    isr \ {irq_num}

(* send_eoi: a specific EOI for irq_num; for a slave line a second one,    *)
(* EOI | 2, tells the master that its cascade input is done as well.      *)
SendEoi(isr, irq_num) ==
    IF irq_num >= 8 THEN isr \ {irq_num, SLAVE_IRQ_NUM} ELSE isr \ {irq_num}

(* The 8259s themselves, given the lines open: the slave raises its output *)
(* for its best open request above all its lines in service; the master   *)
(* picks its best open input above all its lines in service.              *)
SlaveOut(open, isr, irr) ==
    {n \in irr \cap SlaveLines \cap open : \A s \in isr \cap SlaveLines : n < s}

MasterCandidates(open, isr, irr) ==
    LET inputs == (irr \cap MasterLines)
                  \cup (IF SlaveOut(open, isr, irr) # {} THEN {SLAVE_IRQ_NUM} ELSE {})
    IN  {l \in inputs \cap open : \A s \in isr \cap MasterLines : l < s}

\* The IRQ the CPU is interrupted for, if any.
Pending(open, isr, irr) == MasterCandidates(open, isr, irr) # {}

Delivered(open, isr, irr) ==
    LET l == Min(MasterCandidates(open, isr, irr))
    IN  IF l = SLAVE_IRQ_NUM THEN Min(SlaveOut(open, isr, irr)) ELSE l

\* The lines put in service when the CPU acknowledges irq n.
InService(n) == IF n >= 8 THEN {n, SLAVE_IRQ_NUM} ELSE {n}
=============================================================================
