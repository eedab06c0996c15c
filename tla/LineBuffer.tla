----------------------------- MODULE LineBuffer -----------------------------
(***************************************************************************)
(* What the terminal input buffer of drivers/termios.c promises: for each  *)
(* terminal, the characters typed and not yet read, in order, at most      *)
(* IN_BUF_SIZE of them.  A key appends (while there is room), Backspace    *)
(* removes the last character, terminal_open empties the buffer, and a     *)
(* read removes one line (up to and including its newline) or its first   *)
(* len characters, once a complete line has been typed.                    *)
(***************************************************************************)
EXTENDS Naturals, Sequences, SequencesExt

CONSTANTS NR_TERM, IN_BUF_SIZE

Terms == 0 .. NR_TERM - 1
ENTER == "\n"
Keys  == {"a", ENTER}

VARIABLE q

\* Number of characters a read of at most len characters takes from s.
Taken(s, len) ==
    LET n  == IF Len(s) < len THEN Len(s) ELSE len
        nl == {k \in 1 .. n : s[k] = ENTER}
    IN  IF nl = {} THEN n ELSE Min(nl)

Init == q = [t \in Terms |-> <<>>]

Type(t, c) ==
    /\ Len(q[t]) < IN_BUF_SIZE
    /\ q' = [q EXCEPT ![t] = Append(@, c)]

Erase(t) ==
    /\ q[t] # <<>>
    /\ q' = [q EXCEPT ![t] = Front(@)]

Take(t, len) ==
    /\ ENTER \in ToSet(q[t])
    /\ q' = [q EXCEPT ![t] = SubSeq(@, Taken(@, len) + 1, Len(@))]

Flush(t) == q' = [q EXCEPT ![t] = <<>>]

Next ==
    \E t \in Terms :
        \/ \E c \in Keys : Type(t, c)
        \/ Erase(t)
        \/ \E len \in 1 .. IN_BUF_SIZE : Take(t, len)
        \/ Flush(t)

Spec == Init /\ [][Next]_q
=============================================================================
