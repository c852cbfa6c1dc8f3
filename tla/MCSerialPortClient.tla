-------------------------- MODULE MCSerialPortClient --------------------------
(* Instances of SerialPortClient for TLC: MockResponder.py (one ACK for what  *)
(* it read, or none) and the W2 board (an ACK per command, echoes besides).    *)
EXTENDS SerialPortClient

MCCommands == {<<"command">>}
MCReplies == {<<>>, <<TRUE>>, <<FALSE, TRUE>>, <<TRUE, TRUE>>}
MCFlushed == {<<>>}
MCStale   == {<<>>, <<TRUE>>}
===============================================================================
