------------------------------ MODULE AckService ------------------------------
(***************************************************************************)
(* What SerialPortClient::write promises its caller about acknowledgements, *)
(* with no thread, lock or condition variable in sight: a call arms a wait, *)
(* ACK bytes arrive, and the wait ends in success if and only if an ACK     *)
(* arrived since it was armed.                                              *)
(***************************************************************************)
EXTENDS Naturals

VARIABLES phase,      \* "idle" or "waiting": is a wait for an ACK armed?
          acked,      \* has an ACK arrived since the wait was armed?
          acksRead,   \* ACK bytes that have arrived so far
          successes   \* waits that ended in success so far

vars == <<phase, acked, acksRead, successes>>

Init ==
    /\ phase = "idle"
    /\ acked = FALSE
    /\ acksRead = 0
    /\ successes = 0

\* A write went out and its wait is armed: earlier ACKs no longer count.
Arm ==
    /\ phase = "idle"
    /\ phase' = "waiting"
    /\ acked' = FALSE
    /\ UNCHANGED <<acksRead, successes>>

\* An ACK byte arrives. It counts for the wait that is armed, if one is.
AckArrives ==
    /\ acksRead' = acksRead + 1
    /\ acked' = (phase = "waiting")
    /\ UNCHANGED <<phase, successes>>

Succeed ==
    /\ phase = "waiting"
    /\ acked
    /\ phase' = "idle"
    /\ acked' = FALSE
    /\ successes' = successes + 1
    /\ UNCHANGED acksRead

\* The wait ends without success: only when no ACK arrived since Arm.
GiveUp ==
    /\ phase = "waiting"
    /\ ~acked
    /\ phase' = "idle"
    /\ UNCHANGED <<acked, acksRead, successes>>

Next == Arm \/ AckArrives \/ Succeed \/ GiveUp

Safety == Init /\ [][Next]_vars

\* Every armed wait ends, with or without an ACK.
WaitsEnd == WF_vars(Succeed \/ GiveUp)

Spec == Safety /\ WaitsEnd
===============================================================================
