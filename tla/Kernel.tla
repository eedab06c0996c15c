------------------------------- MODULE Kernel -------------------------------
(***************************************************************************)
(* Process management of the kernel: the pid pool (kernel/tasks.c), the   *)
(* runnable bitmap and the timer tick (kernel/scheduling.c), and the       *)
(* execute / halt / init_shell / vidmap system calls (kernel/syscall.c),   *)
(* together with the keyboard's Alt+Fn terminal switch that launches a     *)
(* shell on a fresh terminal (drivers/keyboard.c, drivers/termios.c).      *)
(*                                                                         *)
(* Every pid p owns a fixed kernel-stack region holding its PCB (get_pcb, *)
(* KERNEL_STACK).  A region holds at most one suspended context, because   *)
(* the PCB has one esp_reg/ebp_reg slot.  stack[r] is the chain of frames  *)
(* of the context living in region r: its bottom frame is the user         *)
(* program, the frames above it are system calls or interrupt handlers in  *)
(* progress.  The CPU runs the context of region cur; pcb_process() is     *)
(* region cur's PCB because it is derived from %esp.                       *)
(*                                                                         *)
(* System calls enter through a trap gate (write_sys_gate, irq.c), so     *)
(* interrupts stay enabled inside them except between the explicit         *)
(* cli/sti pairs; the timer (PIT) and keyboard interrupts can arrive at    *)
(* every step whose frame is Interruptible.                                *)
(***************************************************************************)
EXTENDS Naturals, FiniteSets, Sequences, SequencesExt, RoundRobin

CONSTANTS
    MAX_PID,    \* size of pid_usage[] / sched[] (tasks.h); pids are 1..MAX_PID-1
    NR_TERM,    \* number of virtual terminals (termios.h)
    NULL,       \* the NULL parent_pcb of a root shell
    USER_FAULTS,\* whether user programs raise processor exceptions
    FILES       \* the boot image's regular files: name -> [len, magic]

ASSUME MAX_PID \in Nat /\ MAX_PID >= 2
ASSUME NR_TERM \in Nat \ {0}
ASSUME USER_FAULTS \in BOOLEAN
\* len is the inode's length; magic says whether the file's first
\* min(len, 4) bytes are those of EXEC_MAGIC_0 .. EXEC_MAGIC_3.
ASSUME \A n \in DOMAIN FILES : FILES[n].len \in Nat /\ FILES[n].magic \in BOOLEAN

Regions == 0 .. MAX_PID - 1          \* kernel stack / PCB slots, region 0 = boot
Pids    == 1 .. MAX_PID - 1          \* what tasks_pid_new hands out
Terms   == 0 .. NR_TERM - 1

FREE   == 0
IN_USE == 1

(* Where a context is: the program counter of each frame.                 *)
\*  user         running its user program
\*  exec_scan    syscall_execute inside tasks_pid_new, about to test pid arg
\*  exec_claim   tasks_pid_new found pid arg FREE, not yet marked IN_USE
\*  exec_alloc   tasks_pid_new returned pid arg, before cli_and_save
\*  exec_wait    suspended in syscall_execute until child arg halts
\*  shell_*      the same three points inside syscall_init_shell
\*  shell_ret    init_shell, called from keyboard_handler, has launched the
\*               shell and returns into the handler when next scheduled
\*  orphan       init_shell called from a root halt launched the shell in
\*               another region; resuming it returns into a discarded frame
\*  lost         halt's init_shell failed and returns -1 into a discarded frame
\*  exception    in a processor-exception handler (exception.c), for good
Labels == {"user", "exec_scan", "exec_claim", "exec_alloc", "exec_wait",
           "shell_scan", "shell_claim", "shell_alloc", "shell_ret",
           "orphan", "lost", "exception"}
Callers == {"none", "kbd", "halt"}

\* file: the program an execute in progress loads (fname of syscall_execute).
NoFile == "nofile"
Frame(at, arg, term, caller) ==
    [at |-> at, arg |-> arg, term |-> term, caller |-> caller, file |-> NoFile]
User == Frame("user", 0, 0, "none")
Frames == [at : Labels, arg : 0 .. MAX_PID, term : Terms, caller : Callers,
           file : DOMAIN FILES \cup {NoFile}]

\* Physical page behind a process's mapped video page (user_video_page).
Video   == [phys |-> "video", term |-> 0]
Buf(t)  == [phys |-> "buf", term |-> t]
NoPage  == [phys |-> "none", term |-> 0]
VidPages == {Video, NoPage} \cup {Buf(t) : t \in Terms}

VARIABLES
    pid_usage,      \* tasks.c pid_usage[]
    sched,          \* scheduling.c sched[]
    pcb,            \* per region: parent_pcb, term, vidmap fields of the PCB
    stack,          \* per region: frames of the context living there
    cur,            \* region of the running context (%esp)
    cr3,            \* page directory loaded (paging_update_control)
    esp0,           \* region named by tss.esp0
    pd,             \* page_dir_table[pid][i] for the entries i in PdeIndex
    vidpage,        \* user_video_page[pid][VIDEO_MEM_START] target
    active_term,    \* termios.c active_term
    shell_active,   \* keyboard.c shell_active[]
    vidmap_called   \* history: the process now in region p called vidmap

vars == <<pid_usage, sched, pcb, stack, cur, cr3, esp0, pd, vidpage,
          active_term, shell_active, vidmap_called>>

-----------------------------------------------------------------------------
Top(r) == Last(stack[r])
SetTop(r, f) == [stack EXCEPT ![r] = Append(Front(@), f)]
InUserMode(r) == stack[r] = <<User>>

\* Frames at which the interrupt flag is set.
Interruptible(r) ==
    /\ stack[r] # <<>>
    /\ Top(r).at \in {"user", "exec_scan", "exec_claim", "exec_alloc",
                      "shell_scan", "shell_claim", "shell_alloc", "shell_ret"}

\* Resuming a parent from its saved esp/ebp (halt): if it is suspended in
\* execute, execute returns the status; otherwise it resumes wherever its
\* PCB says it was.
Resume(s) ==
    IF s # <<>> /\ Last(s).at = "exec_wait" THEN Front(s) ELSE s

\* init_tasks: every pid from 1 up FREE.
InitTasks == [p \in Pids |-> FREE]

\* tasks_pid_free(p): p's entry of the usage vector back to FREE.
PidFree(u, p) == [u EXCEPT ![p] = FREE]

\* paging_update_control(p): CR3 loaded with p's page directory.
LoadDirectory(p) == cr3' = p

(* Page directories (paging.c, paging.h).  A pde_t is kept as the fields  *)
(* the code sets; write_through, cache_disabled, accessed, zero and avail *)
(* are 0 in every entry it writes.  page_table_addr is a 20-bit field: a  *)
(* frame number (physical address >> 12) of the 4 MB page or of the page *)
(* table it points at.  Only the entries the code writes                 *)
(* are followed: 0 and 1 (first 4 MB, kernel), 31 (vidmap), 32 (image).    *)
KERNAL_START   == 1024          \* frame of physical 4 MB
VIDEO_MEM_LOAD == 31
P_IMG          == 32
PdeIndex       == {0, 1, VIDEO_MEM_LOAD, P_IMG}
\* Frames the linker gives the static page tables (page-aligned arrays in
\* the kernel image, so inside the kernel's 4 MB, frames 1024 .. 2047);
\* the properties need only that they are distinct kernel frames.
PageTable        == KERNAL_START + 1
UserPageTable    == KERNAL_START + 2
UserVideoPage(p) == KERNAL_START + 3 + p
Pde(present, rw, us, ps, global, addr) ==
    [present |-> present, read_write |-> rw, user_supervisor |-> us,
     page_size |-> ps, global |-> global, page_table_addr |-> addr]
IsPde(e) ==
    /\ DOMAIN e = {"present", "read_write", "user_supervisor", "page_size",
                   "global", "page_table_addr"}
    /\ \A f \in DOMAIN e \ {"page_table_addr"} : e[f] \in {0, 1}
    /\ e.page_table_addr \in 0 .. 2^20 - 1

\* page_dir_table is static, so every directory starts out all zero.
ZeroDirectory == [i \in PdeIndex |-> Pde(0, 0, 0, 0, 0, 0)]

(* paging_init builds directory 0, the kernel's: entry 0 the supervisor  *)
(* read-only page_table (video memory), entry 1 the global 4 MB kernel   *)
(* page, every other entry not present and writable, at i << 10.         *)
BootDirectory ==
    [i \in PdeIndex |->
        CASE i = 0 -> Pde(1, 0, 0, 0, 0, PageTable)
          [] i = 1 -> Pde(1, 1, 0, 1, 1, KERNAL_START)
          [] OTHER -> Pde(0, 1, 0, 0, 0, (i * 2^10) % 2^20)]

\* Mutant: the program image placed at frame pid << 10, one 4 MB too low.
PagingAllocateLow(d, pid) ==
    [d EXCEPT ![0]     = Pde(1, 1, 1, 0, 0, UserPageTable),
              ![1]     = Pde(1, 1, 0, 1, 1, KERNAL_START),
              ![P_IMG] = Pde(1, 1, 1, 1, 0, (pid * 2^10) % 2^20)]

(* paging_allocate(pid) rewrites entries 0, 1 and P_IMG of directory pid *)
(* and leaves the rest (entry 31 among them) as they were: entry 0 the   *)
(* shared user_page_table, entry 1 the kernel page, entry P_IMG (128 MB) *)
(* a user 4 MB page at physical (pid + 1) * 4 MB.                        *)
PagingAllocate(d, pid) ==
    [d EXCEPT ![0]     = Pde(1, 1, 1, 0, 0, UserPageTable),
              ![1]     = Pde(1, 1, 0, 1, 1, KERNAL_START),
              ![P_IMG] = Pde(1, 1, 1, 1, 0, ((pid + 1) * 2^10) % 2^20)]

\* paging_allocate(pid) of execute and init_shell, applied to pd.
Allocate(pid) == pd' = [pd EXCEPT ![pid] = PagingAllocate(@, pid)]

\* Entry 31 present: paging_map_video has run for the directory.
VideoMapped(r) == pd[r][VIDEO_MEM_LOAD].present = 1

(* The executable image format (fs.h) and what execute reads of it.       *)
EXEC_MAGIC_NUM_COUNT == 4
ENTRY_POINT_OFFSET   == 24
ENTRY_POINT_SIZE     == 4

(* read_data(inode, 0, buf, n) on a file of len bytes reports min(len, n) *)
(* bytes (FileDescriptors checks the loop against its reference); it      *)
(* also stores the byte just past the end when len < n.                   *)
ReadCount(len, n) == IF len < n THEN len ELSE n

(* executable_check(dentry) is 0 (executable) when read_data reports no   *)
(* byte at all.  Otherwise it compares magic_buf with the magic; for a    *)
(* file shorter than 4 bytes the rest of magic_buf is the byte past its   *)
(* end and uninitialised stack, so a file whose bytes start the magic may *)
(* pass or fail.  The set of results the build can produce:               *)
ExecutableCheckPasses(file) ==
    LET n == ReadCount(file.len, EXEC_MAGIC_NUM_COUNT)
    IN  CASE n = 0                    -> {TRUE}
          [] n = EXEC_MAGIC_NUM_COUNT -> {file.magic}
          [] OTHER                    -> IF file.magic THEN {TRUE, FALSE} ELSE {FALSE}

(* loader(name) returns -1 only when the lookup fails, which cannot happen *)
(* after execute's own lookup; otherwise it returns the 4 bytes at         *)
(* ENTRY_POINT_OFFSET.  read_data writes none or only some of them for a   *)
(* file shorter than 28 bytes, so entry_point keeps stack garbage, which   *)
(* execute may read as -1.                                                 *)
LoaderMayFail(file) == file.len < ENTRY_POINT_OFFSET + ENTRY_POINT_SIZE

(* paging_map_video(r): a fresh video page table for r whose only present *)
(* entry is video memory, installed at entry 31 of r's directory.        *)
MapVideo(r) ==
    /\ pd' = [pd EXCEPT ![r][VIDEO_MEM_LOAD] = Pde(1, 1, 1, 0, 0, UserVideoPage(r))]
    /\ vidpage' = [vidpage EXCEPT ![r] = Video]

\* Mutant: the video page always re-aimed at video memory.
UpdateVideoPagingScreen(r, pg) == [vidpage EXCEPT ![r] = Video]

\* update_video_paging(r, addr): r's video page re-aimed at page pg.
UpdateVideoPaging(r, pg) == [vidpage EXCEPT ![r] = pg]

-----------------------------------------------------------------------------
(* Boot (kernel.c is not part of the sources): init_tasks, scheduling_init *)
(* and keyboard_init have run and the kernel's own context has called      *)
(* syscall_init_shell(0), which gave pid 1 to the shell of terminal 0.     *)
(* The PCB regions live in uninitialised memory and pcb_init does not      *)
(* clear vidmap, so every vidmap flag starts with an arbitrary value.      *)
Init ==
    /\ pid_usage = [InitTasks EXCEPT ![1] = IN_USE]
    /\ sched = [r \in Regions |-> IF r = 1 THEN 1 ELSE 0]
    /\ pcb \in {[r \in Regions |-> [parent |-> NULL, term |-> 0, vidmap |-> v[r]]] :
                  v \in [Regions -> {0, 1}]}
    /\ stack = [r \in Regions |-> IF r = 1 THEN <<User>> ELSE <<>>]
    /\ cur = 1
    /\ cr3 = 1
    /\ esp0 = 1
    /\ pd = [r \in Regions |-> CASE r = 0 -> BootDirectory
                                  [] r = 1 -> PagingAllocate(ZeroDirectory, 1)
                                  [] OTHER -> ZeroDirectory]
    /\ vidpage = [r \in Regions |-> NoPage]
    /\ active_term = 0
    /\ shell_active = [t \in Terms |-> IF t = 0 THEN 1 ELSE 0]
    /\ vidmap_called = [r \in Regions |-> FALSE]

-----------------------------------------------------------------------------
(* syscall_execute up to tasks_pid_new: read_dentry_by_name finds the     *)
(* command's file and executable_check passes it.  A command naming no    *)
(* file, or one the check rejects, returns -1 and changes no state.  The  *)
(* directory and RTC entries are left out: their inode_index is whatever  *)
(* the image holds, which makes them one of these files.                  *)
Execute ==
    /\ InUserMode(cur)
    /\ \E n \in DOMAIN FILES :
          /\ TRUE \in ExecutableCheckPasses(FILES[n])
          /\ stack' = [stack EXCEPT ![cur] =
                          Append(@, [Frame("exec_scan", 1, 0, "none") EXCEPT !.file = n])]
    /\ UNCHANGED <<pid_usage, sched, pcb, cur, cr3, esp0, pd, vidpage,
                   active_term, shell_active, vidmap_called>>

ScanLabels  == {"exec_scan", "shell_scan"}
ClaimOf(at) == IF at = "exec_scan" THEN "exec_claim" ELSE "shell_claim"
AllocOf(at) == IF at = "exec_claim" THEN "exec_alloc" ELSE "shell_alloc"

\* Mutants of the tasks_pid_new loop: the counter advanced twice per
\* iteration; the counter never advanced.
PidScanStride2 ==
    LET f == Top(cur) IN
    /\ stack[cur] # <<>>
    /\ f.at \in ScanLabels
    /\ f.arg < MAX_PID
    /\ stack' = SetTop(cur, IF pid_usage[f.arg] = FREE
                             THEN [f EXCEPT !.at = ClaimOf(f.at)]
                             ELSE [f EXCEPT !.arg = @ + 2])
    /\ UNCHANGED <<pid_usage, sched, pcb, cur, cr3, esp0, pd, vidpage,
                   active_term, shell_active, vidmap_called>>

PidScanNoAdvance ==
    LET f == Top(cur) IN
    /\ stack[cur] # <<>>
    /\ f.at \in ScanLabels
    /\ f.arg < MAX_PID
    /\ stack' = SetTop(cur, IF pid_usage[f.arg] = FREE
                             THEN [f EXCEPT !.at = ClaimOf(f.at)]
                             ELSE f)
    /\ UNCHANGED <<pid_usage, sched, pcb, cur, cr3, esp0, pd, vidpage,
                   active_term, shell_active, vidmap_called>>

(* One iteration of the tasks_pid_new loop: pid_usage[i] is tested; the   *)
(* store that claims it is a separate step (PidClaim).                     *)
PidScan ==
    LET f == Top(cur) IN
    /\ stack[cur] # <<>>
    /\ f.at \in ScanLabels
    /\ f.arg < MAX_PID
    /\ stack' = SetTop(cur, IF pid_usage[f.arg] = FREE
                             THEN [f EXCEPT !.at = ClaimOf(f.at)]
                             ELSE [f EXCEPT !.arg = @ + 1])
    /\ UNCHANGED <<pid_usage, sched, pcb, cur, cr3, esp0, pd, vidpage,
                   active_term, shell_active, vidmap_called>>

(* tasks_pid_new returns -1.  execute returns -1 to the program; init_shell *)
(* returns -1 to the keyboard handler, which carries on; halt returns -1   *)
(* on a stack it has already reset, into a frame init_shell overwrote.     *)
PidExhausted ==
    LET f == Top(cur) IN
    /\ stack[cur] # <<>>
    /\ f.at \in ScanLabels
    /\ f.arg = MAX_PID
    /\ stack' = IF f.at = "shell_scan" /\ f.caller = "halt"
                  THEN SetTop(cur, Frame("lost", 0, f.term, "halt"))
                  ELSE [stack EXCEPT ![cur] = Front(@)]
    /\ UNCHANGED <<pid_usage, sched, pcb, cur, cr3, esp0, pd, vidpage,
                   active_term, shell_active, vidmap_called>>

PidClaim ==
    LET f == Top(cur) IN
    /\ stack[cur] # <<>>
    /\ f.at \in {"exec_claim", "shell_claim"}
    /\ pid_usage' = [pid_usage EXCEPT ![f.arg] = IN_USE]
    /\ stack' = SetTop(cur, [f EXCEPT !.at = AllocOf(f.at)])
    /\ UNCHANGED <<sched, pcb, cur, cr3, esp0, pd, vidpage,
                   active_term, shell_active, vidmap_called>>

(* The cli_and_save section of syscall_execute.  paging_allocate(pid) and *)
(* paging_update_control(pid) run first (directory entry 31 is left as it *)
(* was); then the loader either fails (an entry point left uninitialised *)
(* reads as -1, LoaderMayFail): the pid is freed and the caller's         *)
(* directory reloaded; or it succeeds: the                                 *)
(* child is scheduled and the caller unscheduled, the child's PCB is set  *)
(* up (pcb_init leaves vidmap alone), tss.esp0 names the child's stack,   *)
(* the caller's esp/ebp are saved and iret enters the child.              *)
\* Mutant of the loader-failure path: the pid is not freed.
ExecLoadFailLeak ==
    LET f == Top(cur) IN
    /\ stack[cur] # <<>>
    /\ f.at = "exec_alloc"
    /\ LoaderMayFail(FILES[f.file])
    /\ Allocate(f.arg)
    /\ LoadDirectory(cur)
    /\ stack' = [stack EXCEPT ![cur] = Front(@)]
    /\ UNCHANGED <<pid_usage, sched, pcb, cur, esp0, vidpage,
                   active_term, shell_active, vidmap_called>>

ExecLoadFail ==
    LET f == Top(cur) IN
    /\ stack[cur] # <<>>
    /\ f.at = "exec_alloc"
    /\ LoaderMayFail(FILES[f.file])
    /\ pid_usage' = PidFree(pid_usage, f.arg)
    /\ Allocate(f.arg)
    /\ LoadDirectory(cur)
    /\ stack' = [stack EXCEPT ![cur] = Front(@)]
    /\ UNCHANGED <<sched, pcb, cur, esp0, vidpage,
                   active_term, shell_active, vidmap_called>>

\* Mutant: execute schedules the child but leaves the parent runnable.
ExecLoadParentRunnable ==
    LET f == Top(cur)
        pid == f.arg
    IN
    /\ stack[cur] # <<>>
    /\ f.at = "exec_alloc"
    /\ sched' = [sched EXCEPT ![pid] = 1]
    /\ pcb' = [pcb EXCEPT ![pid] = [@ EXCEPT !.parent = cur, !.term = pcb[cur].term]]
    /\ Allocate(f.arg)
    /\ LoadDirectory(pid)
    /\ esp0' = pid
    /\ stack' = [stack EXCEPT ![cur] = Append(Front(@), Frame("exec_wait", pid, 0, "none")),
                              ![pid] = <<User>>]
    /\ cur' = pid
    /\ vidmap_called' = [vidmap_called EXCEPT ![pid] = FALSE]
    /\ UNCHANGED <<pid_usage, vidpage, active_term, shell_active>>

ExecLoad ==
    LET f == Top(cur)
        pid == f.arg
    IN
    /\ stack[cur] # <<>>
    /\ f.at = "exec_alloc"
    /\ sched' = [sched EXCEPT ![pid] = 1, ![cur] = 0]
    /\ pcb' = [pcb EXCEPT ![pid] = [@ EXCEPT !.parent = cur, !.term = pcb[cur].term]]
    /\ Allocate(f.arg)
    /\ LoadDirectory(pid)
    /\ esp0' = pid
    /\ stack' = [stack EXCEPT ![cur] = Append(Front(@), Frame("exec_wait", pid, 0, "none")),
                              ![pid] = <<User>>]
    /\ cur' = pid
    /\ vidmap_called' = [vidmap_called EXCEPT ![pid] = FALSE]
    /\ UNCHANGED <<pid_usage, vidpage, active_term, shell_active>>

-----------------------------------------------------------------------------
\* Mutant: halt schedules the parent but does not unschedule itself.
HaltChildStaysScheduled ==
    LET par == pcb[cur].parent IN
    /\ InUserMode(cur)
    /\ par # NULL
    /\ pid_usage' = PidFree(pid_usage, cur)
    /\ sched' = [sched EXCEPT ![par] = 1]
    /\ LoadDirectory(par)
    /\ esp0' = par
    /\ stack' = [stack EXCEPT ![cur] = <<>>, ![par] = Resume(stack[par])]
    /\ cur' = par
    /\ UNCHANGED <<pcb, pd, vidpage, active_term, shell_active, vidmap_called>>

(* syscall_halt of a process with a parent, all under cli: descriptors    *)
(* 2..7 closed, pid freed, parent scheduled and self unscheduled, the     *)
(* parent's directory and kernel stack installed and its saved esp/ebp    *)
(* restored, so the parent's execute returns the status.                  *)
HaltChild ==
    LET par == pcb[cur].parent IN
    /\ InUserMode(cur)
    /\ par # NULL
    /\ pid_usage' = PidFree(pid_usage, cur)
    /\ sched' = [sched EXCEPT ![par] = 1, ![cur] = 0]
    /\ LoadDirectory(par)
    /\ esp0' = par
    /\ stack' = [stack EXCEPT ![cur] = <<>>, ![par] = Resume(stack[par])]
    /\ cur' = par
    /\ UNCHANGED <<pcb, pd, vidpage, active_term, shell_active, vidmap_called>>

(* syscall_halt of a root shell: its pid is freed, %esp is reset to the   *)
(* top of its kernel stack, interrupts are re-enabled and                 *)
(* syscall_init_shell(curr->term) starts; sched[] is left untouched.      *)
HaltRoot ==
    /\ InUserMode(cur)
    /\ pcb[cur].parent = NULL
    /\ pid_usage' = PidFree(pid_usage, cur)
    /\ stack' = [stack EXCEPT ![cur] = <<Frame("shell_scan", 1, pcb[cur].term, "halt")>>]
    /\ UNCHANGED <<sched, pcb, cur, cr3, esp0, pd, vidpage,
                   active_term, shell_active, vidmap_called>>

\* Mutant: init_shell sets the new PCB up the way execute does, with the
\* caller as parent.
ShellLoadWithParent ==
    LET f == Top(cur)
        pid == f.arg
    IN
    /\ stack[cur] # <<>>
    /\ f.at = "shell_alloc"
    /\ sched' = [sched EXCEPT ![pid] = 1]
    /\ pcb' = [pcb EXCEPT ![pid] = [@ EXCEPT !.parent = cur, !.term = f.term]]
    /\ Allocate(f.arg)
    /\ LoadDirectory(pid)
    /\ esp0' = pid
    /\ stack' = [stack EXCEPT ![cur] = Append(Front(@),
                                 Frame(IF f.caller = "kbd" THEN "shell_ret" ELSE "orphan",
                                       pid, f.term, f.caller)),
                              ![pid] = <<User>>]
    /\ cur' = pid
    /\ vidmap_called' = [vidmap_called EXCEPT ![pid] = FALSE]
    /\ UNCHANGED <<pid_usage, vidpage, active_term, shell_active>>

(* The cli_and_save section of syscall_init_shell (the file system holds  *)
(* a loadable "shell", so the loader succeeds): terminal_open(term), the  *)
(* new pid scheduled (the caller is not unscheduled), its PCB set up as a *)
(* root (parent NULL), caller's esp/ebp saved, iret into the shell.  The  *)
(* caller's region keeps a context that resumes inside init_shell, unless *)
(* the new shell was given the caller's own region.                       *)
ShellLoad ==
    LET f == Top(cur)
        pid == f.arg
    IN
    /\ stack[cur] # <<>>
    /\ f.at = "shell_alloc"
    /\ sched' = [sched EXCEPT ![pid] = 1]
    /\ pcb' = [pcb EXCEPT ![pid] = [@ EXCEPT !.parent = NULL, !.term = f.term]]
    /\ Allocate(f.arg)
    /\ LoadDirectory(pid)
    /\ esp0' = pid
    /\ stack' = [stack EXCEPT ![cur] = Append(Front(@),
                                 Frame(IF f.caller = "kbd" THEN "shell_ret" ELSE "orphan",
                                       pid, f.term, f.caller)),
                              ![pid] = <<User>>]
    /\ cur' = pid
    /\ vidmap_called' = [vidmap_called EXCEPT ![pid] = FALSE]
    /\ UNCHANGED <<pid_usage, vidpage, active_term, shell_active>>

(* init_shell returns 0 into keyboard_handler, which finishes             *)
(* (input_process_key, sti, send_eoi) and irets to the interrupted frame. *)
ShellReturn ==
    /\ stack[cur] # <<>>
    /\ Top(cur).at = "shell_ret"
    /\ stack' = [stack EXCEPT ![cur] = Front(@)]
    /\ UNCHANGED <<pid_usage, sched, pcb, cur, cr3, esp0, pd, vidpage,
                   active_term, shell_active, vidmap_called>>

-----------------------------------------------------------------------------
(* syscall_vidmap with a pointer above KERNEL_MEM_END (smaller pointers   *)
(* return -1 and change nothing): paging_map_video builds the video page  *)
(* table pointing at physical video memory, installs it at directory      *)
(* entry 31, and the PCB's vidmap flag is set.                            *)
Vidmap ==
    /\ InUserMode(cur)
    /\ MapVideo(cur)
    /\ pcb' = [pcb EXCEPT ![cur].vidmap = 1]
    /\ vidmap_called' = [vidmap_called EXCEPT ![cur] = TRUE]
    /\ UNCHANGED <<pid_usage, sched, stack, cur, cr3, esp0, active_term, shell_active>>

-----------------------------------------------------------------------------
(* The user program raises a processor exception (divide error, invalid   *)
(* opcode, general protection, page fault, ...).  install_exceptions put  *)
(* vectors 0-8 and 10-14 behind interrupt gates of DPL 0 (write_int_gate), *)
(* so IF is cleared on entry, and a user "int n" for any vector but 0x80   *)
(* ends in #GP among them.  Each handler prints its message with           *)
(* error_screan and spins in while(1): with interrupts off no tick or key *)
(* is taken again and the whole machine stays in that handler.            *)
Fault ==
    /\ USER_FAULTS
    /\ InUserMode(cur)
    /\ stack' = [stack EXCEPT ![cur] = Append(@, Frame("exception", 0, 0, "none"))]
    /\ UNCHANGED <<pid_usage, sched, pcb, cur, cr3, esp0, pd, vidpage,
                   active_term, shell_active, vidmap_called>>

-----------------------------------------------------------------------------
(* keyboard_handler, Alt+F(t+1): terminal_switch(t) makes t the displayed *)
(* terminal (its early return when t is already active changes nothing). *)
SwitchTerminal(t) ==
    /\ Interruptible(cur)
    /\ t = 0 \/ shell_active[t] = 1
    /\ active_term' = t
    /\ UNCHANGED <<pid_usage, sched, pcb, stack, cur, cr3, esp0, pd, vidpage,
                   shell_active, vidmap_called>>

(* ... and when no shell was ever started on t, marks it started, sends   *)
(* EOI, sets IF and calls syscall_init_shell(t) in the interrupted        *)
(* context.                                                                *)
LaunchTerminalShell(t) ==
    /\ Interruptible(cur)
    /\ t # 0
    /\ shell_active[t] # 1
    /\ active_term' = t
    /\ shell_active' = [shell_active EXCEPT ![t] = 1]
    /\ stack' = [stack EXCEPT ![cur] = Append(@, Frame("shell_scan", 1, t, "kbd"))]
    /\ UNCHANGED <<pid_usage, sched, pcb, cur, cr3, esp0, pd, vidpage, vidmap_called>>

-----------------------------------------------------------------------------
\* Mutant: tss.esp0 is left naming the interrupted task's stack.
TickStaleEsp0 ==
    LET next == NextPid(cur, sched, MAX_PID) IN
    /\ Interruptible(cur)
    /\ AnyScheduled(sched, MAX_PID)
    /\ cur' = next
    /\ LoadDirectory(next)
    /\ vidpage' = IF pcb[next].vidmap = 1
                    THEN UpdateVideoPaging(next, IF pcb[next].term = active_term
                                                 THEN Video ELSE Buf(pcb[next].term))
                    ELSE vidpage
    /\ UNCHANGED <<pid_usage, sched, pcb, stack, esp0, pd, active_term, shell_active, vidmap_called>>

(* pit_handler -> scheduler_tick, with interrupts masked: if any pid is   *)
(* runnable, pick the next one round robin, save the current esp/ebp,     *)
(* point tss.esp0 at the next stack, load its directory, re-aim its video *)
(* page at video memory or its terminal's back buffer if it used vidmap,  *)
(* and restore its esp/ebp.                                               *)
Tick ==
    LET next == NextPid(cur, sched, MAX_PID) IN
    /\ Interruptible(cur)
    /\ AnyScheduled(sched, MAX_PID)
    /\ cur' = next
    /\ LoadDirectory(next)
    /\ esp0' = next
    /\ vidpage' = IF pcb[next].vidmap = 1
                    THEN UpdateVideoPaging(next, IF pcb[next].term = active_term
                                                 THEN Video ELSE Buf(pcb[next].term))
                    ELSE vidpage
    /\ UNCHANGED <<pid_usage, sched, pcb, stack, pd, active_term, shell_active, vidmap_called>>

-----------------------------------------------------------------------------
\* The kernel-mode steps of the running context.
KernelStep ==
    \/ PidScan \/ PidExhausted \/ PidClaim
    \/ ExecLoadFail \/ ExecLoad \/ ShellLoad \/ ShellReturn

\* System calls a user program may make.
UserStep == Execute \/ HaltChild \/ HaltRoot \/ Vidmap \/ Fault

Next ==
    \/ KernelStep
    \/ UserStep
    \/ \E t \in Terms : SwitchTerminal(t) \/ LaunchTerminalShell(t)
    \/ Tick

(* The PIT interrupts every 10 ms whenever IF is set, so a tick that stays *)
(* possible is taken.  A context's kernel step is possible only while it  *)
(* holds the CPU, which ticks take away and give back: strong fairness.  *)
(* User programs and the keyboard user are not obliged to do anything.   *)
Fairness ==
    /\ WF_vars(Tick)
    /\ \A r \in Regions : SF_vars(cur = r /\ KernelStep)

Spec == Init /\ [][Next]_vars /\ Fairness

-----------------------------------------------------------------------------
TypeOK ==
    /\ pid_usage \in [Pids -> {FREE, IN_USE}]
    /\ sched \in [Regions -> {0, 1}]
    /\ pcb \in [Regions -> [parent : Regions \cup {NULL}, term : Terms, vidmap : {0, 1}]]
    /\ stack \in [Regions -> Seq(Frames)]
    /\ cur \in Regions /\ cr3 \in Regions /\ esp0 \in Regions
    /\ DOMAIN pd = Regions
    /\ \A r \in Regions : DOMAIN pd[r] = PdeIndex /\ \A i \in PdeIndex : IsPde(pd[r][i])
    /\ vidpage \in [Regions -> VidPages]
    /\ active_term \in Terms
    /\ shell_active \in [Terms -> {0, 1}]
    /\ vidmap_called \in [Regions -> BOOLEAN]

\* r is a live process: a program or a system call runs in its region.
IsProcess(r) == stack[r] # <<>> /\ Top(r).at \notin {"orphan", "lost"}

\* r is a root shell between syscall_halt freeing its pid and init_shell
\* launching its successor: its context runs on a pid that is FREE.
Restarting(r) == stack[r] # <<>> /\ stack[r][1].caller = "halt"

\* How many parties hold pid p: system-call frames between tasks_pid_new
\* returning p and the launch, plus the process living in region p unless it
\* is a root shell restarting on its freed pid.
Holders(p) ==
    Cardinality(UNION {{<<r, k>> : k \in {i \in DOMAIN stack[r] :
                                /\ stack[r][i].at \in {"exec_alloc", "shell_alloc"}
                                /\ stack[r][i].arg = p}} : r \in Regions})
    + (IF IsProcess(p) /\ ~Restarting(p) THEN 1 ELSE 0)

(* Whenever a user program runs, the CPU uses that program's page         *)
(* directory and tss.esp0 names that program's kernel stack: execute,     *)
(* halt, init_shell and scheduler_tick must each switch cr3 and the TSS   *)
(* together with the stack they switch to.                                *)
ContextConsistent ==
    InUserMode(cur) => cr3 = cur /\ esp0 = cur

(* spec.md section 8 on the address spaces paging_allocate builds and     *)
(* execute and init_shell install before the loader runs: the directory  *)
(* of every live process maps its program image (entry P_IMG) as a user  *)
(* 4 MB page whose frame is neither the first 4 MB nor the kernel's page; *)
(* no two live processes share an image frame; and all of them have the  *)
(* same entries 0 and 1, with the kernel page supervisor-only.            *)
AddressSpacesIsolated ==
    LET Live   == {p \in Pids : IsProcess(p)}
        Img(p) == pd[p][P_IMG]
    IN
    \A p \in Live :
        /\ Img(p).present = 1 /\ Img(p).user_supervisor = 1 /\ Img(p).page_size = 1
        /\ Img(p).page_table_addr \notin {0, pd[0][1].page_table_addr}
        /\ pd[p][1].user_supervisor = 0
        /\ \A q \in Live \ {p} :
               /\ Img(q).page_table_addr # Img(p).page_table_addr
               /\ pd[q][0] = pd[p][0] /\ pd[q][1] = pd[p][1]

(* tasks_pid_new hands each pid to exactly one party: a pid marked IN_USE *)
(* has exactly one holder (the process in its region, or one execute or   *)
(* init_shell in progress) and a FREE pid has none.  This rules out a     *)
(* leak on execute's loader-failure path or in halt, a live process on a  *)
(* freed pid, and two callers of tasks_pid_new obtaining the same pid.    *)
PidOwnership ==
    \A p \in Pids : Holders(p) = IF pid_usage[p] = IN_USE THEN 1 ELSE 0

(* A context suspended in execute waits for a live child whose PCB names  *)
(* it as parent, and is itself not runnable, so that the child's halt     *)
(* resumes exactly this context.                                          *)
WaitingParentConsistent ==
    \A r \in Regions : \A k \in DOMAIN stack[r] :
        stack[r][k].at = "exec_wait" =>
            LET c == stack[r][k].arg IN
            /\ IsProcess(c)
            /\ pcb[c].parent = r
            /\ sched[r] = 0

(* The root-shell restart in syscall_halt frees the shell's pid and      *)
(* calls syscall_init_shell on the same kernel stack, without unscheduling *)
(* it; that is sound only if tasks_pid_new gives the same pid back.  Every *)
(* init_shell started by a root halt claims the pid of the region it runs  *)
(* in, so the old, still scheduled, context is the new shell's own.        *)
RootShellRestartsInPlace ==
    \A r \in Regions : \A k \in DOMAIN stack[r] :
        stack[r][k].at = "shell_alloc" /\ stack[r][k].caller = "halt"
            => stack[r][k].arg = r

(* scheduler_tick only switches to a region holding a live context: one  *)
(* with an allocated pid, or the root shell restarting itself on its own  *)
(* freed pid.  No region whose context is gone is left marked in sched[]. *)
RunnableAreLive ==
    \A p \in Regions :
        sched[p] = 1 =>
            /\ p \in Pids
            /\ IsProcess(p)
            /\ pid_usage[p] = IN_USE \/ Restarting(p)

(* A process can reach video memory through directory entry 31 only if it *)
(* called vidmap itself: a new process must not inherit the mapping of an *)
(* earlier process that had the same pid (paging_allocate, pcb_init).     *)
NoInheritedVideoMap ==
    \A p \in Pids : IsProcess(p) /\ VideoMapped(p) => vidmap_called[p]

(* A running program that mapped video memory writes to the screen only   *)
(* if its terminal is the displayed one, and to its terminal's back       *)
(* buffer otherwise.                                                      *)
VideoMapCoherent ==
    InUserMode(cur) /\ VideoMapped(cur) /\ vidmap_called[cur] =>
        vidpage[cur] = IF pcb[cur].term = active_term THEN Video ELSE Buf(pcb[cur].term)

(* terminal_switch changes the displayed terminal without touching the    *)
(* running program's video page, so VideoMapCoherent can fail until the   *)
(* next tick.  scheduler_tick closes that window: after every tick, the    *)
(* program it switched to, if it mapped video memory, writes to the screen *)
(* exactly when its terminal is the displayed one.                         *)
TickRestoresVideoMap == [][Tick => VideoMapCoherent']_vars

\* Terminal t has a process, or a syscall_init_shell for t in progress.
ShellOn(t) ==
    \E r \in Regions :
        \/ IsProcess(r) /\ pcb[r].term = t
        \/ \E k \in DOMAIN stack[r] :
              /\ stack[r][k].at \in {"shell_scan", "shell_claim", "shell_alloc"}
              /\ stack[r][k].term = t

(* keyboard_handler marks a terminal's shell started (shell_active[t] = 1) *)
(* and never tries again, so every terminal so marked must have a shell:   *)
(* a process attached to it, or the launch still under way.               *)
TerminalsHaveShells ==
    \A t \in Terms : shell_active[t] = 1 => ShellOn(t)

(* Every execute system call eventually either enters the child or        *)
(* returns -1 to its caller: tasks_pid_new terminates and the setup       *)
(* section completes even though ticks take the CPU away in between.     *)
ExecuteReturns ==
    \A r \in Regions :
        (stack[r] # <<>> /\ Top(r).at \in {"exec_scan", "exec_claim", "exec_alloc"})
            ~> (stack[r] = <<>> \/ Top(r).at \notin {"exec_scan", "exec_claim", "exec_alloc"})

=============================================================================
