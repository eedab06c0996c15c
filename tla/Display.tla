------------------------------- MODULE Display -------------------------------
(***************************************************************************)
(* The output half of drivers/termios.c: each terminal's cursor (cur_x,    *)
(* cur_y) and the screen cells terminal_handle_key writes through          *)
(* terminal_putc.  Two actors drive it:                                    *)
(*                                                                         *)
(*  - the keyboard handler, behind an interrupt gate, so one atomic step:  *)
(*    input_process_key on active_term, which echoes the key through       *)
(*    terminal_handle_key when it changed the input buffer;                *)
(*  - a program in terminal_write on its own terminal, inside a system     *)
(*    call entered through a trap gate, so with IF set: each statement of  *)
(*    terminal_handle_key that reads or writes the cursor is one step, and *)
(*    a keystroke may fall between any two.                                *)
(*                                                                         *)
(* Cell contents are abstracted away: the ghost variable wr holds the      *)
(* cells (y * TERM_WIDTH + x, as terminal_putc indexes them) that the last *)
(* step wrote.  The input buffer is reduced to in_dat_index, the number of *)
(* characters typed and not erased, which decides whether Backspace echoes *)
(* and whether a key still fits.                                           *)
(***************************************************************************)
EXTENDS Integers, FiniteSetsExt

CONSTANTS
    TERM_WIDTH, TERM_HEIGHT, TERM_TAB_WIDTH, IN_BUF_SIZE,   \* termios.h
    NR_TERM,        \* terminals
    WRITER_TERM,    \* the terminal of the program in terminal_write
    Keys,           \* kinds of keystroke the user types
    Out             \* kinds of byte the program writes

KeyKinds == {"char", "enter", "tab", "bs", "ctrl", "ctrl_l"}
OutKinds == {"char", "enter", "tab", "bs", "del", "nul"}

ASSUME /\ TERM_TAB_WIDTH \in 1 .. TERM_WIDTH - 1
       /\ TERM_HEIGHT < TERM_WIDTH       \* as 25 < 80: the Delete loop stays in the row
       /\ WRITER_TERM \in 0 .. NR_TERM - 1
       /\ Keys \subseteq KeyKinds /\ Out \subseteq OutKinds

Terms == 0 .. NR_TERM - 1

\* terminal_putc's index into video memory or the back buffer.
Cell(x, y) == y * TERM_WIDTH + x
Screen == 0 .. TERM_WIDTH * TERM_HEIGHT - 1

VARIABLES
    cur_x, cur_y,   \* per terminal, term_data_array[t].cur_x / cur_y
    active_term,    \* the displayed terminal
    in_dat_index,   \* per terminal, characters typed and not erased
    pc,             \* the writer's place in terminal_handle_key
    wr              \* ghost: the cells the last step wrote

vars == <<cur_x, cur_y, active_term, in_dat_index, pc, wr>>

(* Once a cursor has left this frame its terminal's writes have already    *)
(* gone past the screen; the model stops following that terminal.          *)
Tracked(t) ==
    cur_x[t] \in -1 .. TERM_WIDTH /\ cur_y[t] \in -1 .. TERM_HEIGHT

\* terminal_init and terminal_open(0): every cursor at the top left.
Init ==
    /\ cur_x = [t \in Terms |-> 0]
    /\ cur_y = [t \in Terms |-> 0]
    /\ active_term = 0
    /\ in_dat_index = [t \in Terms |-> 0]
    /\ pc = "idle"
    /\ wr = {}

-----------------------------------------------------------------------------
(* terminal_handle_key run to its end at cursor (x, y): the new cursor and  *)
(* the cells written.  A newline at the last row first scrolls             *)
(* (terminal_scroll_up rewrites every cell, then cur_y--), then cur_y++.   *)
NewLine(y) ==
    [x |-> 0, y |-> IF y = TERM_HEIGHT - 1 THEN y ELSE y + 1,
     cells |-> IF y = TERM_HEIGHT - 1 THEN Screen ELSE {}]

Echo(k, x, y) ==
    CASE k \in {"char", "nul"} ->
            LET n == IF x = TERM_WIDTH - 1 THEN NewLine(y)
                     ELSE [x |-> x + 1, y |-> y, cells |-> {}]
            IN  [n EXCEPT !.cells = @ \cup {Cell(x, y)}]
      [] k = "enter" -> NewLine(y)
      [] k = "tab" ->
            LET nx == (x \div TERM_TAB_WIDTH + 1) * TERM_TAB_WIDTH
            IN  IF nx >= TERM_WIDTH - 1 THEN NewLine(y)
                ELSE [x |-> nx, y |-> y, cells |-> {}]
      [] k = "bs" ->
            IF x = 0 /\ y # 0
            THEN [x |-> TERM_WIDTH - 1, y |-> y - 1,
                  cells |-> {Cell(TERM_WIDTH - 1, y - 1)}]
            ELSE [x |-> x - 1, y |-> y,
                  cells |-> {Cell(i, y) : i \in x - 1 .. TERM_WIDTH - 2}
                            \cup {Cell(Max({x - 1, TERM_WIDTH - 1}), y)}]
      [] k = "del" ->
            [x |-> x, y |-> y,
             cells |-> {Cell(i, y) : i \in x .. TERM_HEIGHT - 2}
                       \cup {Cell(Max({x, TERM_HEIGHT - 1}) + 1, y)}]
      [] k = "ctrl_l" -> [x |-> 0, y |-> 0, cells |-> Screen]
      [] OTHER -> [x |-> x, y |-> y, cells |-> {}]

(* keyboard_handler's call of input_process_key for key k on active_term:  *)
(* a Backspace counts only if something is typed, any other key only if   *)
(* the buffer has room; an accepted key is echoed, a refused one reaches   *)
(* terminal_handle_key as NULL and prints nothing.  Ctrl (or Alt) with a   *)
(* letter stores the letter but echoes nothing, except Ctrl+L, which       *)
(* clears the screen and the buffer (terminal_clear).                      *)
KeyPress(k) ==
    LET t == active_term
        ok == IF k = "bs" THEN in_dat_index[t] > 0
              ELSE in_dat_index[t] < IN_BUF_SIZE
        e == Echo(k, cur_x[t], cur_y[t])
    IN  /\ Tracked(t)
        /\ IF ok
           THEN /\ cur_x' = [cur_x EXCEPT ![t] = e.x]
                /\ cur_y' = [cur_y EXCEPT ![t] = e.y]
                /\ in_dat_index' =
                      [in_dat_index EXCEPT ![t] = CASE k = "bs" -> @ - 1
                                                    [] k = "ctrl_l" -> 0
                                                    [] OTHER -> @ + 1]
                /\ wr' = e.cells
           ELSE UNCHANGED <<cur_x, cur_y, in_dat_index>> /\ wr' = {}
        /\ UNCHANGED <<active_term, pc>>

(* Alt+Fn: terminal_switch copies the screens (whole buffers, in bounds)   *)
(* and changes active_term; the cursors stay.                              *)
SwitchTerminal(t) ==
    /\ t # active_term
    /\ active_term' = t
    /\ wr' = {}
    /\ UNCHANGED <<cur_x, cur_y, in_dat_index, pc>>

-----------------------------------------------------------------------------
(* The program's terminal_write: for each byte of its buffer, one call of  *)
(* terminal_handle_key on its own terminal (WRITER_TERM), statement by     *)
(* statement.  X and Y are the cursor as the current statement reads it.   *)
W == WRITER_TERM
X == cur_x[W]
Y == cur_y[W]

\* Steps that move only the writer on: label p to label q.
Goto(p, q) == pc = p /\ pc' = q

SetX(v) == cur_x' = [cur_x EXCEPT ![W] = v]
SetY(v) == cur_y' = [cur_y EXCEPT ![W] = v]

\* The loop of terminal_write takes the next byte.
WriteByte(c) ==
    /\ Tracked(W)
    /\ Goto("idle", CASE c \in {"char", "nul"} -> "put"
                      [] c = "enter" -> "testy"
                      [] c = "tab"   -> "tab"
                      [] c = "bs"    -> "bstest"
                      [] c = "del"   -> "del")
    /\ wr' = {}
    /\ UNCHANGED <<cur_x, cur_y, active_term, in_dat_index>>

(* A printable byte (or NUL, written as a space): terminal_putc at the     *)
(* cursor, then the end-of-line test, then cur_x++ or a newline.           *)
Put ==
    /\ Goto("put", "testx")
    /\ wr' = {Cell(X, Y)}
    /\ UNCHANGED <<cur_x, cur_y, active_term, in_dat_index>>

TestX ==
    /\ Goto("testx", IF X = TERM_WIDTH - 1 THEN "testy" ELSE "incx")
    /\ wr' = {}
    /\ UNCHANGED <<cur_x, cur_y, active_term, in_dat_index>>

IncX ==
    /\ Goto("incx", "idle")
    /\ SetX(X + 1)
    /\ wr' = {}
    /\ UNCHANGED <<cur_y, active_term, in_dat_index>>

(* A newline (Enter, or a character or Tab past the end of the line): the  *)
(* test for the last row, terminal_scroll_up (which rewrites the screen    *)
(* and ends with cur_y--), then cur_y++ and cur_x = 0.                     *)
TestY ==
    /\ Goto("testy", IF Y = TERM_HEIGHT - 1 THEN "scroll" ELSE "incy")
    /\ wr' = {}
    /\ UNCHANGED <<cur_x, cur_y, active_term, in_dat_index>>

Scroll ==
    /\ Goto("scroll", "incy")
    /\ SetY(Y - 1)
    /\ wr' = Screen
    /\ UNCHANGED <<cur_x, active_term, in_dat_index>>

IncY ==
    /\ Goto("incy", "zerox")
    /\ SetY(Y + 1)
    /\ wr' = {}
    /\ UNCHANGED <<cur_x, active_term, in_dat_index>>

ZeroX ==
    /\ Goto("zerox", "idle")
    /\ SetX(0)
    /\ wr' = {}
    /\ UNCHANGED <<cur_y, active_term, in_dat_index>>

\* Tab: cur_x to the next tab stop, then the test for running off the line.
Tab ==
    /\ Goto("tab", "testtab")
    /\ SetX((X \div TERM_TAB_WIDTH + 1) * TERM_TAB_WIDTH)
    /\ wr' = {}
    /\ UNCHANGED <<cur_y, active_term, in_dat_index>>

TestTab ==
    /\ Goto("testtab", IF X >= TERM_WIDTH - 1 THEN "testy" ELSE "idle")
    /\ wr' = {}
    /\ UNCHANGED <<cur_x, cur_y, active_term, in_dat_index>>

(* Backspace: at the start of a row below the first, up one row to its    *)
(* last column and blank it; otherwise cur_x -= 1 and the loop that moves  *)
(* the rest of the row left (its start read from cur_x once) and blanks    *)
(* the end.                                                                *)
BsTest ==
    /\ Goto("bstest", IF X = 0 /\ Y # 0 THEN "bsup" ELSE "bsdec")
    /\ wr' = {}
    /\ UNCHANGED <<cur_x, cur_y, active_term, in_dat_index>>

BsUp ==
    /\ Goto("bsup", "bsright")
    /\ SetY(Y - 1)
    /\ wr' = {}
    /\ UNCHANGED <<cur_x, active_term, in_dat_index>>

BsRight ==
    /\ Goto("bsright", "bsput")
    /\ SetX(TERM_WIDTH - 1)
    /\ wr' = {}
    /\ UNCHANGED <<cur_y, active_term, in_dat_index>>

BsPut ==
    /\ Goto("bsput", "idle")
    /\ wr' = {Cell(X, Y)}
    /\ UNCHANGED <<cur_x, cur_y, active_term, in_dat_index>>

BsDec ==
    /\ Goto("bsdec", "bsshift")
    /\ SetX(X - 1)
    /\ wr' = {}
    /\ UNCHANGED <<cur_y, active_term, in_dat_index>>

BsShift ==
    /\ Goto("bsshift", "idle")
    /\ wr' = {Cell(i, Y) : i \in X .. TERM_WIDTH - 2}
             \cup {Cell(Max({X, TERM_WIDTH - 1}), Y)}
    /\ UNCHANGED <<cur_x, cur_y, active_term, in_dat_index>>

(* Delete (byte 127): the shift loop, bounded by TERM_HEIGHT - 1, and the  *)
(* blank written one past where it stopped.                                *)
Del ==
    /\ Goto("del", "idle")
    /\ wr' = {Cell(i, Y) : i \in X .. TERM_HEIGHT - 2}
             \cup {Cell(Max({X, TERM_HEIGHT - 1}) + 1, Y)}
    /\ UNCHANGED <<cur_x, cur_y, active_term, in_dat_index>>

WriterStep ==
    \/ \E c \in Out : WriteByte(c)
    \/ Put \/ TestX \/ IncX
    \/ TestY \/ Scroll \/ IncY \/ ZeroX
    \/ Tab \/ TestTab
    \/ BsTest \/ BsUp \/ BsRight \/ BsPut \/ BsDec \/ BsShift
    \/ Del

Next ==
    \/ \E k \in Keys : KeyPress(k)
    \/ \E t \in Terms : SwitchTerminal(t)
    \/ WriterStep

Spec == Init /\ [][Next]_vars

-----------------------------------------------------------------------------
TypeOK ==
    /\ cur_x \in [Terms -> Int] /\ cur_y \in [Terms -> Int]
    /\ active_term \in Terms
    /\ in_dat_index \in [Terms -> 0 .. IN_BUF_SIZE]
    /\ wr \subseteq Int

(* Every cell terminal_putc writes, from the keyboard echo or from a       *)
(* program's terminal_write, lies on the terminal's screen: index 0 to     *)
(* TERM_WIDTH * TERM_HEIGHT - 1 of video memory or of its back buffer in   *)
(* screen_buffers.  A write outside lands in the memory next to it (for a  *)
(* back buffer, the next terminal's).                                      *)
ScreenWritesInBounds ==
    wr \subseteq Screen
=============================================================================
