------------------------------- MODULE MCPacing -------------------------------
(* A UART that holds one character, and the setup of the Mac and of W2.        *)
EXTENDS Pacing
===============================================================================
