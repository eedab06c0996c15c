# TLA+ models of the student-distrib kernel

These modules model the small x86 kernel in `src/student-distrib` with TLC:

- the core: the pid pool, the scheduler, the execute/halt/init_shell system calls, per-process video mapping, and the keyboard path that starts shells on other terminals;
- the terminal input buffer and `terminal_read`;
- the terminal's output side: the cursor that the keyboard echo and `terminal_write` move and the cells they write;
- each process's descriptor table, with the file, directory and RTC drivers behind it;
- the two 8259 interrupt controllers and the timer, keyboard and RTC handlers that drive the scheduler.

Every action is written from the C source. `PROJECT.json` maps each definition to the lines it models.

## 1. The system

| Part | Source | State | Operations |
|---|---|---|---|
| Task registry | `kernel/tasks.c` | `pid_usage[MAX_PID]` (FREE/IN_USE) | `init_tasks`, `tasks_pid_new` (first fit from 1, test then set, -1 when full), `tasks_pid_free` (no checks) |
| Scheduler | `kernel/scheduling.c`, `drivers/pit.c` | `sched[MAX_PID]` bitmap | `schedule_task`, `unschedule_task`, `scheduler_tick` (called from `pit_handler` with IF=0) |
| PCB store | `kernel/pcb.c` | one PCB at the bottom of each pid's 8 KB kernel stack: parent, term, vidmap, one saved esp/ebp, and `elements[FD_MAX]` (the fd table) | `get_pcb`, `pcb_process` (masks %esp), `pcb_init`, `pcb_open`, `pcb_close` |
| Paging | `kernel/paging.c` | per-pid page directory (entries 0 and 1 kernel, 31 the user video page table, 32 the program image) | `paging_init`, `paging_allocate`, `paging_update_control` (cr3), `paging_map_video`, `update_video_paging` |
| System calls | `kernel/syscall.c` | — | `halt`, `execute`, `syscall_init_shell`, `read`, `write`, `open`, `close`, `getargs`, `vidmap` |
| Keyboard | `drivers/keyboard.c` | `shell_active[NR_TERM]`, modifier counts | `keyboard_handler`: Alt+F1..F4 switches terminal and starts its first shell; every key goes on to `input_process_key` |
| Terminals | `drivers/termios.c` | `term_data_array[]` (`in_buf`, `in_dat_index`, `in_dat_end`, `in_dat_nr_ret`, `is_active`, the cursor `cur_x`/`cur_y`, the back buffer), `active_term` | `input_process_key`, `terminal_handle_key`, `terminal_read`, `terminal_open`, `terminal_switch`, `terminal_write`, `terminal_putc`, `terminal_scroll` |
| File system | `drivers/fs.c` | read-only boot-module image | `read_dentry_by_name`, `read_data`, `file_open/read/close`, `dir_read`, `loader`, `executable_check` |
| RTC | `drivers/rtc.c` | global `rtc_flag`; register A's divider | `rtc_irq_handler` sets the flag, `rtc_read` clears it and spins on it, `rtc_write` checks the rate and programs the divider, `rtc_open` writes 2 Hz |
| PIC, IDT, exceptions | `drivers/i8259.c`, `kernel/irq.c`, `kernel/exception.c` | the two 8-bit mask registers; in-service and request registers in the chips; gate types | `i8259_init`, `enable_irq`, `disable_irq`, `send_eoi` (specific EOI, plus the master's cascade for lines 8-15); `init_idt` and `install_exceptions`; exception handlers (print, then `while(1)`) |

The parts interact as follows:

- **Preemption.** `execute` and `halt` integrate the registry, the PCB store, paging and the scheduler. The timer preempts any code that runs with IF set.
- **System calls keep interrupts on.** They enter through a *trap* gate, so IF stays set inside them except between explicit `cli`/`sti`. In particular, `tasks_pid_new` runs with interrupts on in both `execute` and `syscall_init_shell`, and `terminal_read` runs with interrupts on between its statements.
- **Keyboard echo during writes.** `terminal_write` calls `terminal_handle_key` per byte with interrupts on, while the keyboard handler calls it for the echo of each key. Both move the same terminal's cursor.
- **Keyboard interrupts during reads.** The keyboard handler runs behind an interrupt gate and edits the input buffer of the *displayed* terminal while a reader on that terminal may be in the middle of `terminal_read`.
- **Nested shell launch.** The keyboard handler calls `syscall_init_shell` *inside whatever context it interrupted*, after `sti`.
- **Root-shell restart.** A root shell's `halt` frees its pid and calls `syscall_init_shell` with interrupts on, without unscheduling itself or closing its descriptors.
- **Video remapping.** `scheduler_tick` re-aims a vidmapped process's video page at video memory, or at its terminal's back buffer, each time it switches to that process.
- **The RTC flag.** A single global `rtc_flag` is shared by every `rtc_read` caller and the RTC interrupt.
- **Interrupt acknowledgement.** Boot leaves lines 0 (PIT), 1 (keyboard), 2 (cascade) and 8 (RTC) open at the 8259s. Each handler must `send_eoi` its line, or the line and every lower-priority line stay blocked. `pit_handler` acknowledges before `scheduler_tick` switches away. A keyboard launch acknowledges early, before the nested `init_shell`, and again when the interrupted context resumes.

## 2. Modules

### RoundRobin and Scheduler

- **`RoundRobin.tla`** holds the pure scan of `scheduler_tick`:
  - `AnyScheduled` is the first loop;
  - `ScanFrom` (RECURSIVE) and `NextPid` are the second loop;
  - `NextPidRef` is a reference definition of strict round robin (least cyclic distance), which `NextPid` is checked against.
- **`Scheduler.tla`** is the scheduler on its own. Its actions are `schedule_task`, `unschedule_task` and `scheduler_tick`. Any pid may be (un)scheduled at any time.

### Kernel

**`Kernel.tla`** holds processes, system calls, keyboard launches and the timer.

Its state:
- `pid_usage`, `sched`, `active_term` and `shell_active` are as in the C.
- `pcb[r]` holds the parent, term and vidmap fields of region `r`'s PCB.
- `cr3` and `esp0` are the loaded directory and the region named by `tss.esp0`.
- `pd[r]` is page directory `r` (`page_dir_table[r]`): the `pde_t` fields of entries 0, 1, 31 (vidmap) and 32 (`P_IMG`, the program image), the ones the code writes. Frame numbers keep the 20-bit width; the static page tables are frames in the kernel's 4 MB. Directory 0 is the one `paging_init` builds; the others start zero, as static arrays do.
- `vidpage[r]` is the physical target of the user video page.
- `stack[r]` is the chain of frames of the one context living in kernel-stack region `r`. The bottom frame is the user program; each frame above is a system call or handler in progress, at a labelled point of the C code.
- `cur` is the region whose context holds the CPU (what `pcb_process()` derives from %esp).

Its actions, one per code path:
- `Execute`: the argument checks of `syscall_execute` and `executable_check` of a file of `FILES` (the boot image's regular files, each a length and whether its first four bytes are the ELF magic). `ExecutableCheckPasses` follows the code: `read_data` returns `ReadCount(len, 4)` bytes and only that many are compared, so a file of length 0 passes. The chosen file rides in the frame's `file` field.
- `PidScan`, `PidClaim`, `PidExhausted`: one iteration of `tasks_pid_new`, its store, and its -1 return.
- `ExecLoadFail`, `ExecLoad`: the `cli` section of `execute`, with the loader failing or succeeding. The loader can fail only on a file too short to hold the 4-byte entry point at offset 24 (`LoaderMayFail`), where the code returns whatever the unwritten entry-point variable held.
- `HaltChild`, `HaltRoot`: the two branches of `syscall_halt`.
- `ShellLoad`: the `cli` section of `syscall_init_shell`.
- `ShellReturn`: the rest of `keyboard_handler` after a nested `init_shell` returns.
- `Vidmap`: `syscall_vidmap`.
- `SwitchTerminal(t)`, `LaunchTerminalShell(t)`: the Alt+Fn cases.
- `Tick`: `pit_handler` and `scheduler_tick`.

The paging and registry calls these actions make are helper operators:
- `LoadDirectory` (`paging_update_control`);
- `PagingAllocate` (`paging_allocate`: entries 0, 1 and 32 rewritten, 31 left as it was), applied by `Allocate` in `ExecLoad`, `ExecLoadFail` and `ShellLoad`, because `paging_allocate` runs before the loader whether it succeeds or not;
- `BootDirectory` (`paging_init`);
- `MapVideo` (`paging_map_video`);
- `UpdateVideoPaging`;
- `InitTasks`;
- `PidFree`.

A step of region `r` can be interrupted when its top frame is one where IF is set (`Interruptible`). Two frames mark points where the code has no defined continuation, and the model stops there:
- `orphan`: an `init_shell` called from a root halt launched the new shell in a *different* region, so resuming it returns into a discarded frame;
- `lost`: a root halt whose `init_shell` failed.

`Init` is the state after boot (`kernel.c` is not in the sources). Pid 1 runs the shell of terminal 0. Each PCB's `vidmap` flag is arbitrary, because the PCB regions are never zeroed and `pcb_init` does not touch the flag.

### Terminal and LineBuffer

**`Terminal.tla`** models the input side of `drivers/termios.c`.

Its state:
- `in_buf`, `in_dat_index`, `in_dat_end` and `in_dat_nr_ret` per terminal;
- `is_active` and `active_term`;
- for each terminal with a reader, the reader's program counter and locals (`rpc`, `ri`, `rcr`, `rj`, `rlen`).

Its actions:
- **Keyboard actions.** `KeyPress(c)`, `Backspace` and `Delete` are the cases of `input_process_key`. `TerminalClear` is Ctrl+L: `input_process_key` stores the `l` when there is room, and `terminal_handle_key` then calls `terminal_clear`, which zeroes the buffer and all three counters of `active_term`, whatever its reader is doing. It runs behind the keyboard's interrupt gate, so each is one atomic step on `active_term`. `SwitchTerminal(t)` is `terminal_switch`.
- **`TerminalOpen(t)`** is `terminal_open`, which empties the buffer when a shell starts on `t`.
- **The reader's steps.** `terminal_read` runs with interrupts on, so it is split at every statement that reads or writes the shared fields:
  - `ReadCall` checks the arguments.
  - `ReadSpin` is the wait loop on `in_dat_nr_ret`.
  - `ReadCopy` copies up to the newline.
  - `ReadShift` moves the rest of the buffer down.
  - `ReadSetEnd`, `ReadSetIndex` and `ReadSetNr` are the three trailing updates.
- **The copy of the gap.** The loop in `KeyPress` that opens the gap copies `in_buf[i-1]` to `in_buf[i]` upward. That smears one character, and the model does the same.
- **Bounds and undefined behaviour.**
  - `Defined(t)` holds while the indices are inside `in_buf`. Once a race drives one outside, the C reads and writes out of bounds, so the terminal stops.
  - `NR_RET_MAX` bounds the Enter count both ways. Backspace lets it grow without limit (see below), and a Ctrl+L in the middle of a read lets it sink below zero, read after read.

**`LineBuffer.tla`** is what the buffer promises: per terminal, the characters typed and not yet read, in order. Its operations are `Type`, `Erase`, `Take` (one line, or its first `len` characters) and `Flush`. Terminal implements it through `LB == INSTANCE LineBuffer WITH q <- [t |-> Held(t)]`, where `Held(t)` is `in_buf[t][0 .. in_dat_end-1]`. The refinement is checked with no reader, so it covers the keyboard side only: `Type`, `Erase` and `Flush` (from `terminal_open` and Ctrl+L). `Delete` never fires there, because the cursor stays at the end. With a reader the refinement fails on the Backspace bug of `terminal_nr_ret`: the count still holds the erased newline, so `terminal_read` takes a line that has no newline.

### Display

**`Display.tla`** models the output side of `drivers/termios.c`: the cursor of each terminal and the screen cells written through it.

Its state:
- `cur_x` and `cur_y` per terminal, and `active_term`;
- `in_dat_index`, the one field of the input buffer the echo depends on (Backspace echoes only when it is positive, other keys only while the buffer has room);
- `pc`, the program counter of one writer, a program in `terminal_write` on terminal `WRITER_TERM`;
- `wr`, a ghost variable: the cells (`y*TERM_WIDTH + x`) the last step wrote. It only records what `terminal_putc` and `terminal_scroll` touch, and is read by the property alone.

Its actions:
- **`KeyPress(k)`** is `input_process_key` followed by the echo of `terminal_handle_key`. It runs behind the keyboard's interrupt gate, so the whole echo (`Echo`) is one step on `active_term`. Kinds: a character, Enter, Tab, Backspace, Delete, Ctrl+L (clear) and a Ctrl+letter (which reaches the screen as a NUL).
- **`SwitchTerminal(t)`** is `terminal_switch`.
- **The writer's steps.** `terminal_write` runs with interrupts on, and `terminal_handle_key` reads and writes the cursor in separate statements, so the writer is split at each of them: `Put`, `TestX`, `IncX`, `TestY`, `Scroll`, `IncY`, `ZeroX` for a character and a newline; `Tab`, `TestTab` for a tab; `BsTest` .. `BsShift` for `'\b'`; `Del` for 127. `WriteByte(c)` picks the branch for the next byte.
- **`Tracked(t)`.** Once a terminal's cursor is off the screen the C writes outside the page, and the model stops following that terminal.

The constants keep the relations of the real 80x25 screen that the code relies on: `TERM_HEIGHT < TERM_WIDTH` (Delete's loop runs along the row), a tab stop inside the row, and an input buffer smaller than the screen.

### FileDescriptors

**`FileDescriptors.tla`** models the descriptor side of the system-call layer.

Its state:
- `fds[p][k]`: `elements[k]` of pid `p`'s PCB, with its driver table, position, inode and flag;
- `rtc_div`: the divider last written to register A;
- `rtc_flag`;
- `pc[p]`: `"rtc_wait"` while inside `rtc_read`'s loop.

A ghost variable feeds `TypeOK`:
- `opened[p]`: the descriptors opened since `p`'s PCB was last reset. A scan past the table records a descriptor outside `Fds`.

Its actions:
- **`Open(p, n)`** is `syscall_open`: `file_open`, then the table's open entry.
- **`FileRead`, `DirRead` and `RtcReadEnter`** are `syscall_read`'s checks (`Readable`) and the three drivers' reads. `RtcReadPoll` is the pass of `rtc_read`'s loop that finds the flag set.
- **`Write(p, k, r)`** is `syscall_write`'s checks (`Writable`) with `rtc_write`:
  - `RateOk` is the range and power-of-two test, with `&` from Bitwise.
  - `Divider` is the loop that finds the first set bit.
- **`Close(p, k)`** is `syscall_close`, `pcb_close` and the driver's close.
- **`RtcIrq`** is `rtc_irq_handler`.
- **`HaltAndReuse(p)`** is a child's `halt` with its loop of closes, followed by `pcb_init` when the pid is reused.
- **`RootRestart(p)`** is a root shell's halt and respawn. It closes nothing; `pcb_init` resets the table.

`read_data` is the RECURSIVE operator `ReadDataLoop`, translated loop for loop, and checked against `ReadDataRef`, the bytes between the offset and the end.

Two undefined behaviours of the code are nondeterministic choices:

- **`syscall_open` calls the open entry with no argument.** `file_open` is called through the table with no argument, so for a regular file it finds in its argument slot one of three things (`OpenArgs`):
  - the name again;
  - `"rtc"`, the last argument passed, to `strncmp`;
  - a pointer that names no file.

  It may therefore open a second descriptor that the program never learns of.
- **`file_close` uses an uninitialised pointer.** It passes the uninitialised local `curr_pcb` to `pcb_close`, so the same descriptor is cleared on any process or on none (`NoPcb`).

Descriptors 0 and 1 dispatch to `terminal_read` and `terminal_write`, which belong to Terminal.

### Pic and Interrupts

**`Pic.tla`** is the pair of 8259s as `drivers/i8259.c` drives them:
- `EnableIrq` and `DisableIrq` rewrite the 8-bit mask values with `&`, `|` and an 8-bit `~` (`Not8`), as the C does with `inb`/`outb`;
- `I8259Init` is `i8259_init`: clear both masks, disable all 16 lines in a loop (`DisableFrom`, RECURSIVE), re-enable the cascade;
- `BootMasks` adds `pit_init`, `keyboard_init` and `rtc_init`, giving 0xF8/0xFE;
- `SendEoi` is `send_eoi`: a slave line also clears master line 2;
- `Delivered` is the chips' fully nested priority: the lowest-numbered open request above every line in service, with a slave request reaching the master through line 2.

**`Interrupts.tla`** composes Pic with `Scheduler` (`S == INSTANCE Scheduler`). Its state is the scheduler's `sched` and `cur`, the chips' `isr` and `irr`, `cpu` (task code with IF set, or the handler running behind its interrupt gate), `kbd_wait[p]` (keyboard handlers suspended in a nested `init_shell` in `p`'s context) and `shells` (terminals launched so far).

Its actions:
- `Raise(l)`: a device requests on its line;
- `Interrupt`: the CPU takes the delivered request through the IDT (`Handler` is `init_idt`'s vector table);
- `PitHandler`: `pit_handler`, the EOI and then `scheduler_tick`;
- `KeyboardHandler`, `KeyboardLaunch`, `KeyboardResume`: `keyboard_handler` for an ordinary key, for an Alt+Fn that starts a shell (early EOI, a fresh pid is scheduled and entered), and for the rest of the handler when the suspended context runs again;
- `RtcHandler`: `rtc_irq_handler`;
- `TaskStep`: task code marking or unmarking pids.

Kernel also gains `Fault`: a user program raises a processor exception, whose handler (interrupt gate, `error_screan`, `while(1)`) never returns. It is enabled by the constant `USER_FAULTS`, TRUE only in `two_terms`.

### MC modules

`MCKernel`, `MCInterrupts`, `MCTerminal`, `MCDisplay` and `MCFileDescriptors` give the constants values for TLC.

## 3. Runs

| Run | Cfg | Expect | What it shows |
|---|---|---|---|
| one_term | `MCKernel_one_term.cfg` | pass | MAX_PID 4, one terminal. Through every interleaving of ticks with `execute`/`halt`: every used pid has exactly one holder (`PidOwnership`); a parent suspended in `execute` waits for a live child and is not runnable (`WaitingParentConsistent`); only live contexts are runnable (`RunnableAreLive`); every live process's directory maps its image as a user 4 MB page on a frame of its own, never the first 4 MB or the kernel's, and all share the supervisor-only kernel entries 0 and 1, as spec.md section 8 requires (`AddressSpacesIsolated`); every `execute` completes (`ExecuteReturns`). |
| two_terms | `MCKernel_two_terms.cfg` | pass | MAX_PID 3, two terminals, keyboard launches anywhere, user programs that may fault. Whenever a user program runs, cr3 and `tss.esp0` are its own (`ContextConsistent`). Every tick leaves each vidmapped process's video page where the displayed terminal says it should be, repairing what `terminal_switch` left stale (`TickRestoresVideoMap`). |
| interrupts | `MCInterrupts.cfg` | pass | MAX_PID 6, two terminals, the PIC composed with the scheduler. Each tick takes the strict round-robin successor (`TickIsRoundRobin`). A task that stays runnable runs infinitely often (`StarvationFree`). Every timer, keyboard and RTC request is eventually serviced (`RequestsServiced`). |
| terminal_read | `MCTerminal_read.cfg` | pass | One terminal, a reader with `len` 1 or 3, and every key, including Ctrl+L. Every field keeps its range (`TypeOK`) up to the point where a race drives an index out of `in_buf`, and every keyboard and read step is taken. |
| terminal_lines | `MCTerminal_lines.cfg` | pass | Two terminals with switching, no reader. Typing, Backspace, Ctrl+L and `terminal_open` implement `LineBuffer`'s append, erase-last and flush (`LineBufferRefined`). |
| descriptors | `MCFileDescriptors.cfg` | pass | Two processes, 4 descriptors each, with the undefined open and close outcomes. Positions stay within the file (`FilePositionInBounds`). `read_data` counts the bytes it should (`ReadDataMatchesReference`). Register A only ever holds a valid rate that was asked for (`RtcRateValid`). `rtc_read` never returns on an interrupt that came before it was called (`RtcReadWaitsForInterrupt`). |
| vidmap_inherit | `MCKernel_vidmap_inherit.cfg` | violation | `NoInheritedVideoMap`: a shell calls vidmap and halts; its respawn reuses the pid and finds entry 31 present. |
| pid_race | `MCKernel_pid_race.cfg` | violation | `PidOwnership`: Alt+F2 arrives after `tasks_pid_new` found pid 2 free but before it marked it; the nested `init_shell` takes pid 2, and then `execute` takes it again. |
| orphan | `MCKernel_orphan.cfg` | violation | `RootShellRestartsInPlace`: both root shells halt; the second restart's first-fit scan returns the first shell's pid. |
| terminal_read_race | `MCTerminal_read_race.cfg` | violation | `IndexesInBounds`: a Backspace between `in_dat_end = j` and `in_dat_index -= i` leaves `in_dat_end` at -1. |
| terminal_nr_ret | `MCTerminal_nr_ret.cfg` | violation | `NrRetCountsNewlines`: erasing a newline with Backspace leaves `in_dat_nr_ret` counting it. A later read then returns on a line that is not there. The run has a reader, so the Ctrl+L race would violate it too, in a longer trace. |
| display_race | `MCDisplay_race.cfg` | violation | `ScreenWritesInBounds`: a 4x3 screen, a writer printing characters and newlines on the displayed terminal, and keys typed meanwhile. The writer's newline tests `cur_y` at row 1 (not the last row); a typed Enter moves the cursor to row 2; the writer's `cur_y++` takes it to row 3, below the screen; the next typed character is stored at cell 12, past the page. |

`PROJECT.json` records each violation as a finding with its source line.

`ReadWritesOwnBuffer` in Terminal states that `terminal_read` shifts its own terminal's buffer. It is violated in one step, by a read while another terminal is displayed (`active_term->in_buf`, `termios.c:153`), and is recorded as a hazard.

Two further state predicates are defined in Kernel but have no run of their own:
- `VideoMapCoherent`: after Alt+F1, a running vidmapped shell of terminal 1 still draws on video memory. It is violated between a switch and the next tick; `TickRestoresVideoMap` checks that the tick repairs it.
- `TerminalsHaveShells`: Alt+F2 during terminal 0's restart leaves terminal 0 with no shell. It is violated by the same window as the orphan run, and is recorded as a hazard.

**Bounds.**

- **Files.** `MCFiles` holds `shell` (5349 bytes with the magic) and `empty` (0 bytes). The empty file is the one input on which `executable_check` and the loader behave unexpectedly, so both loader outcomes are reachable.
- **MAX_PID 4 with one terminal.** The shell, a child and a grandchild use every pid, so exhaustion, the loader-failure path and reuse of freed pids all happen.
- **MAX_PID 3 with two terminals.** The two root shells plus one child are enough for every race the violation runs show. MAX_PID 4 with two terminals does not finish in minutes.
- **MAX_PID 6 for the interrupts run.** Up to five runnable pids on both sides of the current one, so the scan wraps and skips. NR_TERM 2 allows one keyboard launch, so a handler is suspended in one context while others run and tick. NR_TERM 4 takes about ten minutes and adds only further launches of the same kind.
- **IN_BUF_SIZE 3.** A character, a newline and type-ahead fit, so a read leaves a remainder to shift, and the buffer fills. Reads of 1 and 3 characters cover the partial-line and whole-line branches. `NR_RET_MAX` 4 is above what three cells can hold honestly, so the cap only cuts the runaway counts that Backspace (upward) and Ctrl+L during reads (downward) cause.
- **The 4x3 display.** Width 4, height 3, tab width 2 and a 3-cell input buffer keep the real screen's relations (see Display). Three rows let a newline's test fall on a row other than the last, and the race needs only two keys and one written byte. The writer prints characters and newlines only, so the violation is the newline race and not one of the single-actor edges listed as hazards.
- **Two processes with `FD_MAX` 4.** Descriptors 2 and 3 can both be taken (the double open fills the table with one call), and `file_close`'s pointer has another process to hit.
  - Names: `"rtc"`, `"."`, a one-byte file, and a missing name. The missing name drives the failure path.
  - Rates: 1024, the largest valid rate, and three rejected ones: 1 (a power of two below the minimum), 3 (not a power of two) and 2048 (above the maximum). With the 2 Hz of `rtc_init` and `rtc_open`, both ends of the divider loop are reached.
  - `ReadDataMatchesReference` compares `read_data` with the reference at every offset and length up to one past the end of each open file.

**Fairness.**

- **Ticks.** `WF_vars(Tick)`: the PIT fires every 10 ms whenever IF is set.
- **Kernel steps of each region.** `SF_vars(cur = r /\ KernelStep)`. A region's kernel step is enabled only while it holds the CPU, which ticks take away and give back, so weak fairness would not oblige it.
- **Interrupts.** `SF(Raise(PIT))`: the PIT keeps firing. It raises only while task code runs, because its 10 ms period dwarfs a handler, so the raise is intermittently enabled and needs strong fairness. `SF` on `Interrupt` per delivered line: a request the chips keep presenting whenever IF is set is taken, even if higher-priority lines win some turns. `WF` on the handlers: a handler runs behind an interrupt gate to its end. `SF(KeyboardResume)`: the suspended context gets the CPU again from ticks. Keys, RTC interrupts and task steps are under no obligation.
- **No obligation.** Users, the typist and the RTC are under none. Terminal, Display and FileDescriptors check only safety.

**Deadlock.**

- *`two_terms`* sets `CHECK_DEADLOCK FALSE`. Its deadlocks are states where the CPU would resume an `orphan` or `lost` frame, which has no defined behaviour, and states where a user fault has left the CPU spinning in an exception handler.
- *`terminal_read`* sets it too. With one terminal and a reader, its only deadlocks are terminals stopped by `Defined`, after a race has corrupted the indices.
- *All other passing runs* check deadlock, and there is none.

## 4. Hazards and what covers them

`PROJECT.json` lists each hazard at its source line.

**Covered by properties:**
- **Allocation races.** The non-atomic `tasks_pid_new` runs with interrupts on, and the root-halt restart frees its pid with IF set. Covered by `PidOwnership` and `RootShellRestartsInPlace`.
- **Stale state on pid reuse.** Directory entry 31 is not cleared (`NoInheritedVideoMap`). The restarted root shell relies on `pcb_init` alone; `RootRestart` installs its cleared table, so this is listed with a note.
- **Context-switch ordering.** Covered by `ContextConsistent`, `WaitingParentConsistent` and `RunnableAreLive`.
- **Keyboard against `terminal_read`.** A keystroke, Backspace or Ctrl+L between the trailing updates of `terminal_read`. Covered by the two terminal violations, `IndexesInBounds` and `NrRetCountsNewlines`, both checked with a reader. Ctrl+L between the copy and `in_dat_index -= i` drives the index to -1. Ctrl+L before `in_dat_nr_ret -= cr_read` leaves the count at -1, which the spin's `!in_dat_nr_ret` then lets through.
- **Keyboard echo against `terminal_write`.** The newline's test-then-increment of `cur_y`, and the Backspace and Delete edges at the screen's borders. Covered by `ScreenWritesInBounds`.
- **Interrupt acknowledgement.** The cascade EOI for slave lines, the EOI before the tick, and the early EOI of a keyboard launch. Covered by `RequestsServiced`, `StarvationFree` and `TypeOK` of the interrupts run.
- **Address-space layout.** `paging_allocate`'s image frame `(pid+1) << 10` and the shared kernel entries. Covered by `AddressSpacesIsolated`.
- **Stale video mapping after `terminal_switch`.** Covered by `TickRestoresVideoMap`.
- **Boundaries.** `read_data`'s end of file, `pcb_open`'s full table, and `rtc_write`'s range and power-of-two checks. Covered by `ReadDataMatchesReference`, `FilePositionInBounds`, `TypeOK` and `RtcRateValid`.

**Listed with a note, no run:**
- `terminal_read` shifting the displayed terminal's buffer instead of its own (`ReadWritesOwnBuffer` states it; a single step shows it);
- `terminal_putc`'s test of the active terminal racing a switch (the model tracks which cells are written, not into which buffer);
- `executable_check` accepting a file `read_data` returns 0 bytes for (an empty file, a directory, the RTC), against spec.md section 8. Kernel follows the code here: `empty` passes `ExecutableCheckPasses`, takes a pid, and then runs or fails the load. No property restates spec.md's rule against it;
- `file_close`'s stray pointer;
- `read_data`'s block read past a file whose length is a multiple of 4 KB (blocks are abstracted);
- RTC reader starvation (no clock in the model);
- `shell_active` set before a launch that can fail;
- a user exception hanging the machine, which the spec calls intended;
- a spurious IRQ 7/15 entering `null_handler` (requests never withdraw in Pic);
- the string bugs of `syscall.c`: `getargs` accepting `strlen == nbytes`, and the command parser's out-of-bounds and uninitialised `fargs`, copied with `strcpy` into the 100-byte `args` (no strings are modelled);
- the uint8 `alt`/`control` counters, which key repeat drives out of step (no scancode stream is modelled);
- the write past `sched[MAX_PID]` in `scheduling_init`.

## 5. Plan

1. **Done.** The registry, scheduler, system calls, paging and user exceptions in Kernel; the scheduler composed with the 8259s and the device handlers in Interrupts; Terminal with its refinement of LineBuffer; Display with the keyboard echo racing `terminal_write`; FileDescriptors with the file, directory and RTC drivers.
2. **Next.**
   - Compose Terminal with Kernel, so that a reader is a process the scheduler runs and `terminal_open` runs inside `ShellLoad`.
   - Several RTC readers, with a clock that makes starvation expressible.
   - `syscall_getargs` (bounds of the copy into user memory).

## 6. Not modelled, and why

- **Layout and formatting.** Scancode-to-character tables, the characters in the cells, the VGA hardware cursor, the choice between video memory and the back buffer, `printf`. Display keeps the cursor and which cells are written.
- **Hardware programming.** The PIT's counter words, the ICW words of the 8259s (vector bases and wiring), and the RTC port sequences. The PIC mask values and the RTC divider are kept.
- **Page-table contents.** `page_table` and `user_page_table` (one present entry, video memory) are constant after `paging_init`; a directory entry names which table it points at. The fields of a `pde_t` the code always writes as 0 are left out.
- **The file-system image format.** Blocks and dentries are reduced to a name's type and a file's length. The loader's outcome depends only on the file's length (`LoaderMayFail`), and `init_shell`'s loader always succeeds, because the image holds a `shell`.
- **Constant-return entries.** `file_write`, `dir_open`, `dir_write`, `dir_close` and `rtc_close` return a constant. `set_handler` and `sigreturn` return -1.
- **The unread RTC fields.** `pcb->rtc`, `rtc_fd` and `rtc_rate` are read only by commented-out code (`scheduling.c:130-134`).
- **What the exception handlers print.** `error_screan` and `core_dump` are output; the hang that follows is `Fault`.
