------------------------------ MODULE MCHexCodec ------------------------------
(* HexCodec with 2-byte words and 8 characters per number, so that words stay *)
(* inside TLC's integers; the bytes are those where a digit, a sign or a      *)
(* control character makes a difference.                                      *)
EXTENDS HexCodec

\* Letters, a colon and a capital; with the w they leave room for the address,
\* take the last place that its terminator needs, or that of its last digit.
MCJunks == {<<>>, <<58, 71>>, <<LetterW, LetterW, 58>>, <<LetterW, 58, LetterW, 71>>}
===============================================================================
