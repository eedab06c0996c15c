----------------------------- MODULE MCTerminal -----------------------------
(* Model-checking instance of Terminal: a three-character buffer (room    *)
(* for a line, a newline and type-ahead), reads of the whole buffer or of *)
(* one character.                                                         *)
EXTENDS Terminal

MCBufSize  == 3
MCOneTerm  == 1
MCTwoTerms == 2
MCLens     == {1, 3}
MCNrRetMax == 4
MCNoReaders == {}
MCReaderOn0 == {0}
=============================================================================
