--------------------------- MODULE FileDescriptors ---------------------------
(***************************************************************************)
(* The descriptor side of the system-call layer: each process's table of  *)
(* FD_MAX descriptors in its PCB (kernel/pcb.c), the open, read, write    *)
(* and close system calls that dispatch through it (kernel/syscall.c),    *)
(* the regular-file, directory and RTC drivers they reach (drivers/fs.c,  *)
(* drivers/rtc.c), and the RTC's one global rtc_flag.                     *)
(*                                                                         *)
(* A process's descriptor table is touched only by its own system calls,  *)
(* so each call is one step; the exception is rtc_read, whose wait loop   *)
(* shares rtc_flag with every other reader and with the RTC interrupt.    *)
(* Descriptors 0 and 1 and terminal_read/terminal_write belong to the     *)
(* Terminal module.  Two undefined behaviours of the code are choices:    *)
(*  - syscall_open calls the table's open entry with no argument, so the  *)
(*    second file_open of a regular file gets whatever the argument slot  *)
(*    holds: the name again, "rtc" (the last argument passed, to strncmp),*)
(*    or a pointer that names no file;                                    *)
(*  - file_close passes its uninitialised local curr_pcb to pcb_close, so *)
(*    it clears descriptor fd of some process or of no PCB at all.        *)
(***************************************************************************)
EXTENDS Integers, FiniteSetsExt, Bitwise

CONSTANTS
    Procs,          \* pids whose programs make system calls
    FD_MAX,         \* descriptors per PCB (pcb.h)
    Names,          \* file names programs pass to open
    NameType,       \* [Names -> {"rtc", "dir", "file", "none"}]: the dentry type
    FileLen,        \* [Names -> Nat]: length of a regular file's inode
    RtcName,        \* the name that resolves to the RTC
    NUM_DIRS,       \* dir_entry_num of the boot block
    LENS,           \* nbytes arguments of read
    RATES           \* rates programs write to the RTC

ASSUME NameType[RtcName] = "rtc"

Fds      == 0 .. FD_MAX - 1
NoPcb    == -1      \* a pointer that designates no PCB
NoName   == "noname"
Drivers  == {"none", "terminal", "file", "dir", "rtc"}
Entry    == [tbl : Drivers, pos : Nat, inode : Names \cup {NoName}, flags : {0, 1}]

VARIABLES
    fds,        \* fds[p][k]: elements[k] of p's PCB
    rtc_div,    \* the divider last written to RTC register A
    rtc_flag,   \* the global rtc_flag
    pc,         \* "user", or "rtc_wait" inside rtc_read's loop
    opened      \* ghost: descriptors opened since p's PCB was last initialised

(* pcb->rtc, rtc_fd and rtc_rate are written by open and write but read   *)
(* only by scheduler_tick's RTC reprogramming, which is commented out     *)
(* (scheduling.c:130-134): they are left out.                              *)
vars == <<fds, rtc_div, rtc_flag, pc, opened>>

-----------------------------------------------------------------------------
(* read_data(inode, offset, buf, length) over a file of L bytes: the count *)
(* of bytes it reports.  The loop copies a byte, advances offset, stops   *)
(* once offset passes L, and counts the byte otherwise.                   *)
\* Mutant: a loop that stops a byte early.
RECURSIVE ReadDataLoopShort(_, _, _, _, _)
ReadDataLoopShort(i, offset, count, L, length) ==
    IF i >= length THEN count
    ELSE IF offset + 1 >= L THEN count
    ELSE ReadDataLoopShort(i + 1, offset + 1, count + 1, L, length)

RECURSIVE ReadDataLoop(_, _, _, _, _)
ReadDataLoop(i, offset, count, L, length) ==
    IF i >= length THEN count
    ELSE IF offset + 1 > L THEN count
    ELSE ReadDataLoop(i + 1, offset + 1, count + 1, L, length)

ReadData(L, offset, length) ==
    IF offset > L THEN 0 ELSE ReadDataLoop(0, offset, 0, L, length)

\* What read_data is meant to return: the bytes between offset and the end.
ReadDataRef(L, offset, length) ==
    IF offset >= L THEN 0 ELSE Min({length, L - offset})

(* rtc_write's checks: within [RTC_MIN_RATE, RTC_MAX_RATE] and a power of  *)
(* two, tested as rate & (~rate + 1) == rate.  For 0 < rate < 2^31 bit 31 *)
(* of rate is clear, so ~rate + 1 can be taken modulo 2^31: 2^31 - rate.  *)
RateOk(r) ==
    /\ r >= 2 /\ r <= 1024
    /\ r # 0 /\ (r & ((2147483647 - r) + 1)) = r

\* The divider loop: the first set bit i of rate & 0xFFF gives DIV_MAX - i.
RECURSIVE FirstBit(_, _)
FirstBit(x, i) == IF (x & 2^i) # 0 THEN i ELSE FirstBit(x, i + 1)

\* Mutant: the divider one lower.
DividerLow(r) == 15 - FirstBit(r & 4095, 0)

Divider(r) == 16 - FirstBit(r & 4095, 0)

\* The interrupt frequency of divider d (MC146818): 32768 >> (d - 1).
Freq(d) == 32768 \div 2^(d - 1)

-----------------------------------------------------------------------------
\* pcb_init: every entry cleared, 0 and 1 bound to the terminal driver.
InitTable ==
    [k \in Fds |-> [tbl |-> IF k < 2 THEN "terminal" ELSE "none", pos |-> 0,
                    inode |-> NoName, flags |-> IF k < 2 THEN 1 ELSE 0]]

\* Mutant: a scan that runs through i <= FD_MAX.
FirstFreeThroughMax(f) ==
    LET free == {k \in 2 .. FD_MAX : k = FD_MAX \/ f[k].flags = 0}
    IN  IF free = {} THEN -1 ELSE Min(free)

\* pcb_open's scan: the first free entry from 2, or -1.
FirstFree(f) ==
    LET free == {k \in 2 .. FD_MAX - 1 : f[k].flags = 0}
    IN  IF free = {} THEN -1 ELSE Min(free)

\* read_dentry_by_name: the type of the entry a name resolves to.
Lookup(n) == IF n \in Names THEN NameType[n] ELSE "none"

\* file_open(name) on table f: the descriptor it returns, and the table.
FileOpenFd(f, n) == IF Lookup(n) = "none" THEN -1 ELSE FirstFree(f)

FileOpenTable(f, n) ==
    LET k == FileOpenFd(f, n)
    IN  IF k = -1 THEN f
        ELSE [f EXCEPT ![k] = [tbl |-> Lookup(n), pos |-> 0, flags |-> 1,
                               inode |-> IF Lookup(n) = "file" THEN n ELSE NoName]]

\* What file_open finds in its argument slot when syscall_open calls it
\* through the table with no argument.
OpenArgs(n) == {n, RtcName, NoName}

(* syscall_read's checks before it dispatches: not stdout, in range, and  *)
(* open.  (Descriptor 0 dispatches to terminal_read, in Terminal.)         *)
Readable(p, k) ==
    /\ pc[p] = "user"
    /\ k # 1
    /\ fds[p][k].flags = 1

\* syscall_write's checks: not stdin, in range, open.
Writable(p, k) ==
    /\ pc[p] = "user"
    /\ k # 0
    /\ fds[p][k].flags = 1

\* rtc_open: rtc_write of DEFAULT_RATE, 2 Hz.
RtcOpen == Divider(2)

(* Boot: rtc_init writes the default rate 2; every process has run        *)
(* pcb_init.                                                               *)
Init ==
    /\ fds = [p \in Procs |-> InitTable]
    /\ rtc_div = Divider(2)
    /\ rtc_flag = FALSE
    /\ pc = [p \in Procs |-> "user"]
    /\ opened = [p \in Procs |-> {}]

-----------------------------------------------------------------------------
(* syscall_open(name): file_open takes the first free entry and binds the *)
(* driver of the name's type; then the table's open entry runs: rtc_open  *)
(* writes the default rate, dir_open does nothing, and file_open opens    *)
(* again with whatever its argument slot holds.                            *)
Open(p, n) ==
    LET k   == FileOpenFd(fds[p], n)
        f1  == FileOpenTable(fds[p], n)
    IN
    /\ pc[p] = "user"
    /\ k # -1
    /\ rtc_div' = IF Lookup(n) = "rtc" THEN RtcOpen ELSE rtc_div
    /\ \E g \in OpenArgs(n) :
          LET k2 == IF Lookup(n) = "file" THEN FileOpenFd(f1, g) ELSE -1
          IN
          /\ fds' = [fds EXCEPT ![p] = IF k2 = -1 THEN f1 ELSE FileOpenTable(f1, g)]
          /\ opened' = [opened EXCEPT ![p] = @ \cup ({k, k2} \ {-1})]
    /\ UNCHANGED <<rtc_flag, pc>>

\* Mutant: the position advanced by the bytes asked for.
FileReadAddsLen(p, k, len) ==
    LET e == fds[p][k]
    IN
    /\ Readable(p, k)
    /\ e.tbl = "file"
    /\ fds' = [fds EXCEPT ![p][k].pos = @ + len]
    /\ UNCHANGED <<rtc_div, rtc_flag, pc, opened>>

(* syscall_read(fd) on a regular file: file_read advances the position by *)
(* what read_data reports.                                                 *)
FileRead(p, k, len) ==
    LET e == fds[p][k]
    IN
    /\ Readable(p, k)
    /\ e.tbl = "file"
    /\ fds' = [fds EXCEPT ![p][k].pos = @ + ReadData(FileLen[e.inode], @, len)]
    /\ UNCHANGED <<rtc_div, rtc_flag, pc, opened>>

(* dir_read: past the last entry it returns 0, otherwise it copies the    *)
(* entry's name and advances the position.                                 *)
DirRead(p, k) ==
    /\ Readable(p, k)
    /\ fds[p][k].tbl = "dir"
    /\ fds[p][k].pos < NUM_DIRS
    /\ fds' = [fds EXCEPT ![p][k].pos = @ + 1]
    /\ UNCHANGED <<rtc_div, rtc_flag, pc, opened>>

(* rtc_read: clears the global rtc_flag on entry, then loops.              *)
RtcReadEnter(p, k) ==
    /\ Readable(p, k)
    /\ fds[p][k].tbl = "rtc"
    /\ rtc_flag' = FALSE
    /\ pc' = [pc EXCEPT ![p] = "rtc_wait"]
    /\ UNCHANGED <<fds, rtc_div, opened>>

\* One pass of the loop under cli that finds the flag set, clears it and returns.
RtcReadPoll(p) ==
    /\ pc[p] = "rtc_wait"
    /\ rtc_flag
    /\ rtc_flag' = FALSE
    /\ pc' = [pc EXCEPT ![p] = "user"]
    /\ UNCHANGED <<fds, rtc_div, opened>>

\* rtc_irq_handler, behind an interrupt gate.
RtcIrq ==
    /\ rtc_flag' = TRUE
    /\ UNCHANGED <<fds, rtc_div, pc, opened>>

(* syscall_write(fd, &rate) runs the driver's write (descriptor 1 goes to *)
(* terminal_write, which only draws):                                      *)
(* rtc_write programs the divider if the rate passes its checks, and the *)
(* file and directory writes return -1.                                  *)
Write(p, k, r) ==
    /\ Writable(p, k)
    /\ fds[p][k].tbl # "terminal"
    /\ rtc_div' = IF fds[p][k].tbl = "rtc" /\ RateOk(r) THEN Divider(r) ELSE rtc_div
    /\ UNCHANGED <<fds, rtc_flag, pc, opened>>

\* pcb_close(pcb, fd): the entry's flag cleared.
PcbClose(f, q, k) == [f EXCEPT ![q][k].flags = 0]

\* file_close: pcb_close on whichever process q its pointer designates.
ClearOn(f, q, k) == IF q \in Procs THEN PcbClose(f, q, k) ELSE f

(* syscall_close(fd): refuses 0, 1 and closed descriptors, clears the     *)
(* flag with pcb_close, then runs the driver's close: file_close clears   *)
(* descriptor fd of the PCB its uninitialised pointer designates.         *)
Close(p, k) ==
    /\ pc[p] = "user"
    /\ k >= 2
    /\ fds[p][k].flags = 1
    /\ \E q \in Procs \cup {NoPcb} :
          fds' = IF fds[p][k].tbl = "file"
                 THEN ClearOn(PcbClose(fds, p, k), q, k)
                 ELSE PcbClose(fds, p, k)
    /\ UNCHANGED <<rtc_div, rtc_flag, pc, opened>>

(* A child's syscall_halt closes descriptors 2 .. FD_MAX-1 through        *)
(* syscall_close, and the pid is later given to a new program whose PCB   *)
(* pcb_init resets.  Nothing else touches the freed PCB in between, so    *)
(* the two are one step; file_close's pointer is the same stack slot on  *)
(* every pass of the loop.                                                 *)
HaltAndReuse(p) ==
    /\ pc[p] = "user"
    /\ \E q \in Procs \cup {NoPcb} :
          LET files == {k \in 2 .. FD_MAX - 1 : fds[p][k].flags = 1 /\ fds[p][k].tbl = "file"}
          IN  fds' = [u \in Procs |->
                         IF u = p THEN InitTable
                         ELSE IF u = q THEN [k \in Fds |-> IF k \in files
                                                          THEN [fds[u][k] EXCEPT !.flags = 0]
                                                          ELSE fds[u][k]]
                         ELSE fds[u]]
    /\ opened' = [opened EXCEPT ![p] = {}]
    /\ UNCHANGED <<rtc_div, rtc_flag, pc>>

(* A root shell's syscall_halt closes nothing: it frees its pid and        *)
(* syscall_init_shell gives the next shell a PCB that pcb_init resets.    *)
RootRestart(p) ==
    /\ pc[p] = "user"
    /\ fds' = [fds EXCEPT ![p] = InitTable]
    /\ opened' = [opened EXCEPT ![p] = {}]
    /\ UNCHANGED <<rtc_div, rtc_flag, pc>>

Next ==
    \/ RtcIrq
    \/ \E p \in Procs :
          \/ \E n \in Names : Open(p, n)
          \/ \E k \in Fds : \/ \E len \in LENS : FileRead(p, k, len)
                           \/ DirRead(p, k)
                           \/ RtcReadEnter(p, k)
                           \/ \E r \in RATES : Write(p, k, r)
                           \/ Close(p, k)
          \/ RtcReadPoll(p)
          \/ RootRestart(p)
          \/ HaltAndReuse(p)

Spec == Init /\ [][Next]_vars

-----------------------------------------------------------------------------
TypeOK ==
    /\ fds \in [Procs -> [Fds -> Entry]]
    /\ rtc_div \in 3 .. 15
    /\ rtc_flag \in BOOLEAN
    /\ pc \in [Procs -> {"user", "rtc_wait"}]
    /\ opened \in [Procs -> SUBSET Fds]

(* The position of an open regular file never passes the file's length:   *)
(* file_read adds read_data's count, which must stop at the end of file.  *)
FilePositionInBounds ==
    \A p \in Procs : \A k \in Fds :
        fds[p][k].flags = 1 /\ fds[p][k].tbl = "file" =>
            fds[p][k].pos <= FileLen[fds[p][k].inode]

(* read_data on a file a program has open reports exactly the bytes      *)
(* between the offset and the end of the file, at most length, at every   *)
(* offset and length up to one past the end: the loop of read_data against *)
(* the reference count.                                                    *)
ReadDataMatchesReference ==
    \A p \in Procs, k \in Fds :
        fds[p][k].flags = 1 /\ fds[p][k].tbl = "file" =>
            LET L == FileLen[fds[p][k].inode]
            IN  \A offset, length \in 0 .. L + 1 :
                    ReadData(L, offset, length) = ReadDataRef(L, offset, length)

(* Register A always holds the divider of a rate someone asked for (2 Hz *)
(* from rtc_init and rtc_open, or a written rate) that is a power of two *)
(* from 2 to 1024: rtc_write's range and power-of-two checks must reject *)
(* every other rate, and its bit loop must pick the MC146818 divider.     *)
RtcRateValid ==
    Freq(rtc_div) \in {r \in RATES \cup {2} : r \in {2^e : e \in 1 .. 10}}
=============================================================================
