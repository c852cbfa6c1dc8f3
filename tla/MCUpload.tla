------------------------------- MODULE MCUpload -------------------------------
(* One life of the program with three writes to a board that answers, is late, *)
(* is mute or answers too much: MockResponder.py (one ACK for what it read, or *)
(* none) and the W2 board (an ACK per command, echoes besides).                *)
EXTENDS Upload

MCCommands == {<<"command">>}
MCReplies  == {<<>>, <<TRUE>>, <<FALSE, TRUE>>, <<TRUE, TRUE>>}
MCStale    == {<<>>, <<TRUE>>}
===============================================================================
