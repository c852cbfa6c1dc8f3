---------------------------- MODULE ImageTransfer ----------------------------
(***************************************************************************)
(* What an upload promises of the board's flash: it is erased, then the     *)
(* words of the image appear in it one after the other, each in its own     *)
(* cell, and none is lost or written over before the last one is there.     *)
(***************************************************************************)
EXTENDS Naturals, Sequences

CONSTANTS Image,   \* the words of the file
          Blank    \* what an erased word reads

VARIABLES cells,   \* the flash the image goes to, one cell per word
          erased   \* has the flash been erased?

vars == <<cells, erased>>

Complete == cells = Image

Init ==
    /\ cells \in [1..Len(Image) -> Nat]
    /\ erased = FALSE

Erase ==
    /\ ~erased
    /\ cells' = [i \in 1..Len(Image) |-> Blank]
    /\ erased' = TRUE

StoreNext ==
    /\ erased
    /\ \E i \in 1..Len(Image) :
        /\ \A j \in 1..Len(Image) : cells[j] = IF j < i THEN Image[j] ELSE Blank
        /\ cells' = [cells EXCEPT ![i] = Image[i]]
    /\ UNCHANGED erased

Next == Erase \/ StoreNext

Safety == Init /\ [][Next]_vars
===============================================================================
