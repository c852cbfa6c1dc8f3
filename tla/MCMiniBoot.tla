------------------------------ MODULE MCMiniBoot ------------------------------
(* The loader with three words of flash and the flash controller's between    *)
(* them.  The addresses are also counts and words, so that pointers, offsets  *)
(* and data meet; 13 has the digit d.  A command to 2 stores, erases and      *)
(* stores again at 2, 6 and 10; a download, whose words have two bytes, to 4  *)
(* stores and then erases.                                                    *)
EXTENDS MiniBootMenu
===============================================================================
