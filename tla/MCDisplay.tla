------------------------------ MODULE MCDisplay ------------------------------
(* Display on a 4 x 3 screen with tab stops every 2 columns and a 3-key    *)
(* input buffer, two terminals, the program writing on terminal 0.  The    *)
(* shape keeps the relations of the real 80 x 25 screen that the code      *)
(* depends on: TERM_HEIGHT < TERM_WIDTH, a tab stop inside the row, and an *)
(* input buffer smaller than the screen.                                   *)
EXTENDS Display

MCWidth  == 4
MCHeight == 3
MCTab    == 2
MCInBuf  == 3
MCNrTerm == 2
=============================================================================
