------------------------------ MODULE Terminal ------------------------------
(***************************************************************************)
(* The input side of the terminal driver (drivers/termios.c): each         *)
(* terminal's in_buf with in_dat_index (cursor), in_dat_end and            *)
(* in_dat_nr_ret (newlines held), filled by input_process_key from the     *)
(* keyboard interrupt on the displayed terminal (active_term) and drained *)
(* by terminal_read in the program that owns the terminal.                *)
(*                                                                         *)
(* The keyboard handler runs behind an interrupt gate, so one keystroke    *)
(* is atomic.  terminal_read runs inside a system call (trap gate, IF     *)
(* set) and is split at every statement that touches the shared fields:   *)
(* a keystroke can land between any two of them.  Its two copy loops are  *)
(* single steps each.  Reads and writes of in_buf outside its bounds are  *)
(* undefined: a read yields any character, a write is not recorded (the   *)
(* invariants flag the index first).                                      *)
(***************************************************************************)
EXTENDS Integers, FiniteSetsExt

CONSTANTS
    NR_TERM,        \* number of terminals (termios.h)
    IN_BUF_SIZE,    \* size of in_buf (termios.h)
    READERS,        \* terminals whose program calls read on stdin
    LENS,           \* nbytes arguments those reads pass
    NR_RET_MAX      \* model bound on |in_dat_nr_ret|: Backspace lets it grow, Ctrl+L mid-read sinks it

Terms == 0 .. NR_TERM - 1
Slots == 0 .. IN_BUF_SIZE - 1
ENTER == "\n"
NUL   == "nul"
Keys  == {"a", ENTER}
Chars == Keys \cup {NUL}

ASSUME READERS \subseteq Terms /\ LENS \subseteq Nat \ {0}

VARIABLES
    in_buf, in_dat_index, in_dat_end, in_dat_nr_ret,   \* term_data_array[t]
    is_active,      \* term_data_array[t].is_active
    active_term,    \* index of the term_data active_term points to
    rpc,            \* where terminal t's reader is in terminal_read
    ri, rcr, rj, rlen   \* its locals i, cr_read, j and argument len

term  == <<in_buf, in_dat_index, in_dat_end, in_dat_nr_ret, is_active, active_term>>
rdr   == <<rpc, ri, rcr, rj, rlen>>
vars  == <<term, rdr>>

(* Once in_dat_index or in_dat_end of t has left the buffer, the next key  *)
(* or read on t writes outside in_buf: the model stops t there.           *)
Defined(t) ==
    /\ in_dat_end[t] \in 0 .. IN_BUF_SIZE
    /\ in_dat_index[t] \in 0 .. IN_BUF_SIZE

\* The value a read of in_buf[t][k] may yield.
Cell(t, k) == IF k \in Slots THEN {in_buf[t][k]} ELSE Chars

(* terminal_init zeroes term_data_array; the boot shell's terminal_open(0) *)
(* marks terminal 0 active.                                               *)
Init ==
    /\ in_buf = [t \in Terms |-> [k \in Slots |-> NUL]]
    /\ in_dat_index = [t \in Terms |-> 0]
    /\ in_dat_end = [t \in Terms |-> 0]
    /\ in_dat_nr_ret = [t \in Terms |-> 0]
    /\ is_active = [t \in Terms |-> IF t = 0 THEN 1 ELSE 0]
    /\ active_term = 0
    /\ rpc = [t \in Terms |-> "idle"]
    /\ ri = [t \in Terms |-> 0] /\ rcr = [t \in Terms |-> 0]
    /\ rj = [t \in Terms |-> 0] /\ rlen = [t \in Terms |-> 0]

-----------------------------------------------------------------------------
(* input_process_key, default case: a printable key or Enter is inserted  *)
(* at the cursor if the buffer has room.  The loop that opens the gap     *)
(* copies in_buf[i-1] to in_buf[i] upward, so every cell of the gap gets  *)
(* the old in_buf[index].                                                  *)
KeyPress(c) ==
    LET a == active_term
        x == in_dat_index[a]
        e == in_dat_end[a]
    IN
    /\ Defined(a)
    /\ is_active[a] = 1
    /\ e < IN_BUF_SIZE
    /\ c = ENTER => in_dat_nr_ret[a] < NR_RET_MAX
    /\ \E old \in Cell(a, x) :
          in_buf' = [in_buf EXCEPT ![a] =
                        [k \in Slots |-> IF k = x THEN c
                                         ELSE IF x < k /\ k <= e THEN old
                                         ELSE @[k]]]
    /\ in_dat_end' = [in_dat_end EXCEPT ![a] = e + 1]
    /\ in_dat_index' = [in_dat_index EXCEPT ![a] = x + 1]
    /\ in_dat_nr_ret' = IF c = ENTER THEN [in_dat_nr_ret EXCEPT ![a] = @ + 1]
                                     ELSE in_dat_nr_ret
    /\ UNCHANGED <<is_active, active_term, rdr>>

(* Backspace: unless the cursor is at 0, move it left, shift the rest of  *)
(* the line left and shorten the buffer.  in_dat_nr_ret is not touched.  *)
Backspace ==
    LET a == active_term
        x == in_dat_index[a]
        e == in_dat_end[a]
    IN
    /\ Defined(a)
    /\ is_active[a] = 1
    /\ x # 0
    /\ in_buf' = [in_buf EXCEPT ![a] =
                     [k \in Slots |-> IF x - 1 <= k /\ k < e - 1 THEN @[k + 1] ELSE @[k]]]
    /\ in_dat_index' = [in_dat_index EXCEPT ![a] = x - 1]
    /\ in_dat_end' = [in_dat_end EXCEPT ![a] = e - 1]
    /\ UNCHANGED <<in_dat_nr_ret, is_active, active_term, rdr>>

(* Delete: if the cursor is before the end, shift left from index-1 (one   *)
(* before the cursor) through in_buf[end], and shorten the buffer.        *)
Delete ==
    LET a == active_term
        x == in_dat_index[a]
        e == in_dat_end[a]
    IN
    /\ Defined(a)
    /\ is_active[a] = 1
    /\ x < e
    /\ \E nxt \in Cell(a, e) :
          in_buf' = [in_buf EXCEPT ![a] =
                        [k \in Slots |-> IF x - 1 <= k /\ k < e
                                         THEN (IF k + 1 \in Slots THEN @[k + 1] ELSE nxt)
                                         ELSE @[k]]]
    /\ in_dat_end' = [in_dat_end EXCEPT ![a] = e - 1]
    /\ UNCHANGED <<in_dat_index, in_dat_nr_ret, is_active, active_term, rdr>>

(* Ctrl+L: input_process_key stores the 'l' like any letter when the      *)
(* buffer has room, then terminal_handle_key sees control held and calls   *)
(* terminal_clear on active_term, which zeroes in_buf, in_dat_index,       *)
(* in_dat_end and in_dat_nr_ret whatever a reader of that terminal is      *)
(* doing.  With no room the key reaches terminal_handle_key as NULL and    *)
(* nothing is cleared.                                                     *)
TerminalClear ==
    LET a == active_term IN
    /\ Defined(a)
    /\ is_active[a] = 1
    /\ in_dat_end[a] < IN_BUF_SIZE
    /\ in_buf' = [in_buf EXCEPT ![a] = [k \in Slots |-> NUL]]
    /\ in_dat_index' = [in_dat_index EXCEPT ![a] = 0]
    /\ in_dat_end' = [in_dat_end EXCEPT ![a] = 0]
    /\ in_dat_nr_ret' = [in_dat_nr_ret EXCEPT ![a] = 0]
    /\ UNCHANGED <<is_active, active_term, rdr>>

(* terminal_switch(t) from Alt+F(t+1); switching to the active terminal   *)
(* returns early.                                                          *)
SwitchTerminal(t) ==
    /\ t # active_term
    /\ is_active' = [is_active EXCEPT ![active_term] = 0, ![t] = 1]
    /\ active_term' = t
    /\ UNCHANGED <<in_buf, in_dat_index, in_dat_end, in_dat_nr_ret, rdr>>

\* Mutant: terminal_open without resetting in_dat_end.
TerminalOpenKeepsEnd(t) ==
    /\ rpc[t] = "idle"
    /\ in_buf' = [in_buf EXCEPT ![t] = [k \in Slots |-> NUL]]
    /\ in_dat_index' = [in_dat_index EXCEPT ![t] = 0]
    /\ in_dat_nr_ret' = [in_dat_nr_ret EXCEPT ![t] = 0]
    /\ is_active' = [is_active EXCEPT ![t] = 1]
    /\ UNCHANGED <<in_dat_end, active_term, rdr>>

(* terminal_open(t) from syscall_init_shell, when a shell (re)starts on t. *)
(* usr_count is never incremented, so the early return is never taken:    *)
(* the buffer is flushed and t marked active, displayed or not.           *)
TerminalOpen(t) ==
    /\ rpc[t] = "idle"
    /\ in_buf' = [in_buf EXCEPT ![t] = [k \in Slots |-> NUL]]
    /\ in_dat_index' = [in_dat_index EXCEPT ![t] = 0]
    /\ in_dat_end' = [in_dat_end EXCEPT ![t] = 0]
    /\ in_dat_nr_ret' = [in_dat_nr_ret EXCEPT ![t] = 0]
    /\ is_active' = [is_active EXCEPT ![t] = 1]
    /\ UNCHANGED <<active_term, rdr>>

-----------------------------------------------------------------------------
(* syscall_read(0, buf, len) -> terminal_read on the caller's terminal.   *)
ReadCall(t) ==
    /\ t \in READERS
    /\ Defined(t)
    /\ rpc[t] = "idle"
    /\ in_dat_nr_ret[t] > -NR_RET_MAX     \* model bound: a count driven negative
    /\ \E len \in LENS : rlen' = [rlen EXCEPT ![t] = len]
    /\ rpc' = [rpc EXCEPT ![t] = "spin"]
    /\ UNCHANGED <<term, ri, rcr, rj>>

(* while(!in_dat_nr_ret) spins with interrupts on; it leaves the loop on  *)
(* any nonzero count.                                                      *)
ReadSpin(t) ==
    /\ rpc[t] = "spin"
    /\ in_dat_nr_ret[t] # 0
    /\ rpc' = [rpc EXCEPT ![t] = "copy"]
    /\ UNCHANGED <<term, ri, rcr, rj, rlen>>

(* The copy loop: up to end and len characters, stopping after the first *)
(* newline; i is the count copied and cr_read whether a newline was.      *)
ReadCopy(t) ==
    LET n  == IF in_dat_end[t] < rlen[t] THEN in_dat_end[t] ELSE rlen[t]
        nl == {k \in 0 .. n - 1 : in_buf[t][k] = ENTER}
    IN
    /\ rpc[t] = "copy"
    /\ ri' = [ri EXCEPT ![t] = IF nl # {} THEN Min(nl) + 1 ELSE IF n > 0 THEN n ELSE 0]
    /\ rcr' = [rcr EXCEPT ![t] = IF nl # {} THEN 1 ELSE 0]
    /\ rpc' = [rpc EXCEPT ![t] = "shift"]
    /\ UNCHANGED <<term, rj, rlen>>

(* The shift loop: for j while i+j < in_dat_end, the rest of the line is  *)
(* moved to the front of active_term->in_buf, whichever terminal that is. *)
ReadShift(t) ==
    LET i == ri[t]
        j == IF in_dat_end[t] - i > 0 THEN in_dat_end[t] - i ELSE 0
    IN
    /\ rpc[t] = "shift"
    /\ in_buf' = [in_buf EXCEPT ![active_term] =
                     [k \in Slots |-> IF k < j THEN in_buf[t][i + k] ELSE @[k]]]
    /\ rj' = [rj EXCEPT ![t] = j]
    /\ rpc' = [rpc EXCEPT ![t] = "set_end"]
    /\ UNCHANGED <<in_dat_index, in_dat_end, in_dat_nr_ret, is_active, active_term,
                   ri, rcr, rlen>>

\* Mutant: in_dat_index += i.
ReadSetIndexAdds(t) ==
    /\ rpc[t] = "set_index"
    /\ in_dat_index' = [in_dat_index EXCEPT ![t] = @ + ri[t]]
    /\ rpc' = [rpc EXCEPT ![t] = "set_nr"]
    /\ UNCHANGED <<in_buf, in_dat_end, in_dat_nr_ret, is_active, active_term,
                   ri, rcr, rj, rlen>>

ReadSetEnd(t) ==
    /\ rpc[t] = "set_end"
    /\ in_dat_end' = [in_dat_end EXCEPT ![t] = rj[t]]
    /\ rpc' = [rpc EXCEPT ![t] = "set_index"]
    /\ UNCHANGED <<in_buf, in_dat_index, in_dat_nr_ret, is_active, active_term,
                   ri, rcr, rj, rlen>>

ReadSetIndex(t) ==
    /\ rpc[t] = "set_index"
    /\ in_dat_index' = [in_dat_index EXCEPT ![t] = @ - ri[t]]
    /\ rpc' = [rpc EXCEPT ![t] = "set_nr"]
    /\ UNCHANGED <<in_buf, in_dat_end, in_dat_nr_ret, is_active, active_term,
                   ri, rcr, rj, rlen>>

(* in_dat_nr_ret -= cr_read; terminal_read returns i.                    *)
ReadSetNr(t) ==
    /\ rpc[t] = "set_nr"
    /\ in_dat_nr_ret' = [in_dat_nr_ret EXCEPT ![t] = @ - rcr[t]]
    /\ rpc' = [rpc EXCEPT ![t] = "idle"]
    /\ UNCHANGED <<in_buf, in_dat_index, in_dat_end, is_active, active_term,
                   ri, rcr, rj, rlen>>

ReadStep(t) ==
    /\ Defined(t)
    /\ \/ ReadSpin(t) \/ ReadCopy(t) \/ ReadShift(t)
       \/ ReadSetEnd(t) \/ ReadSetIndex(t) \/ ReadSetNr(t)

Keyboard ==
    \/ \E c \in Keys : KeyPress(c)
    \/ Backspace
    \/ Delete
    \/ TerminalClear
    \/ \E t \in Terms : SwitchTerminal(t)

Next ==
    \/ Keyboard
    \/ \E t \in Terms : TerminalOpen(t) \/ ReadCall(t) \/ ReadStep(t)

Spec == Init /\ [][Next]_vars

-----------------------------------------------------------------------------
TypeOK ==
    /\ in_buf \in [Terms -> [Slots -> Chars]]
    /\ in_dat_index \in [Terms -> -IN_BUF_SIZE .. IN_BUF_SIZE + 1]
    /\ in_dat_end \in [Terms -> -1 .. IN_BUF_SIZE]
    /\ in_dat_nr_ret \in [Terms -> Int]
    /\ is_active \in [Terms -> {0, 1}]
    /\ active_term \in Terms
    /\ rpc \in [Terms -> {"idle", "spin", "copy", "shift", "set_end", "set_index", "set_nr"}]

\* The characters terminal t holds for its reader: the first in_dat_end
\* cells, or the first j once the shift loop has moved the rest of a line
\* forward and in_dat_end = j is still to come.
Held(t) ==
    LET n == IF rpc[t] = "set_end" THEN rj[t] ELSE in_dat_end[t]
    IN  [k \in 1 .. n |-> in_buf[t][k - 1]]

LB == INSTANCE LineBuffer WITH q <- [t \in Terms |-> Held(t)]

(* Without a reader, the keyboard side of the buffer behaves as the line   *)
(* buffer LineBuffer specifies on every terminal: a key with room appends  *)
(* (the gap loop writes at the end, since the cursor is at the end),       *)
(* Backspace erases the last character, terminal_open and Ctrl+L's         *)
(* terminal_clear flush, and Alt+Fn changes nothing a terminal holds.      *)
(* With a reader the refinement fails: Backspace over a newline leaves     *)
(* in_dat_nr_ret set, so terminal_read takes a line that has no newline    *)
(* (the terminal_nr_ret run shows the count going wrong).                  *)
LineBufferRefined == LB!Spec

(* The cursor and end of every terminal stay inside in_buf: the keyboard   *)
(* handler may interrupt terminal_read between any two of its updates of  *)
(* in_dat_end, in_dat_index and in_dat_nr_ret, and must not push them out. *)
IndexesInBounds == \A t \in Terms : Defined(t)

(* in_dat_nr_ret is the number of newlines the terminal holds, which is   *)
(* what the spin in terminal_read relies on to wait for a whole line.     *)
NrRetCountsNewlines ==
    \A t \in Terms : rpc[t] = "idle" =>
        in_dat_nr_ret[t] = Cardinality({k \in DOMAIN Held(t) : Held(t)[k] = ENTER})

(* A read only rewrites the buffer of the terminal it reads from.         *)
ReadWritesOwnBuffer ==
    [][\A t \in Terms : ReadShift(t) =>
          \A u \in Terms \ {t} : in_buf'[u] = in_buf[u]]_vars

=============================================================================
