----------------------------- MODULE MCLineReader -----------------------------
(* Two sessions and three characters: letters and ends of lines.              *)
EXTENDS LineReader
===============================================================================
