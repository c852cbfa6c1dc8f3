--------------------------- MODULE SerialPortClient ---------------------------
(***************************************************************************)
(* W2Uploader/SerialPortClient.cpp: the upload thread calls write(), which  *)
(* puts a command on the tty and waits at most one second on a condition    *)
(* variable for an ACK byte; the IOLoop thread calls onReadable(), which    *)
(* reads bytes and clears isWaitingForAck_ under the mutex.  The flag is    *)
(* set by the upload thread with no lock held.                              *)
(*                                                                          *)
(* The serial line and the board are external: a write puts tokens on the   *)
(* line, the board consumes them in order and answers each with a sequence  *)
(* of bytes from Replies (or never answers).  A byte is an ACK (0x06) or    *)
(* not; it carries, for the properties only, the ordinal of the write it    *)
(* answers.                                                                 *)
(***************************************************************************)
EXTENDS Naturals, Sequences

CONSTANTS
    Tokens,      \* what the line carries: the pieces of a command the board tells apart
    Commands,    \* what one call of write() sends: sequences of tokens
    MaxWrites,   \* bound: how many calls of write() reach the line
    ReadMax,     \* sizeof(buf) in onReadable, 256 in the code
    Replies,     \* answers of the board to a token: sequences of BOOLEAN, TRUE an ACK
    Stale        \* answers to an earlier session that the tty may hold at the start

ASSUME ClientAssumption ==
    /\ Commands \subseteq Seq(Tokens)
    /\ MaxWrites \in Nat
    /\ ReadMax \in Nat \ {0}
    /\ Replies \subseteq Seq(BOOLEAN)
    /\ Stale \subseteq Seq(BOOLEAN)

VARIABLES
    main,              \* where the upload thread is in write()
    isWaitingForAck,   \* isWaitingForAck_
    timedOut,          \* the one-second deadline of wait_for has passed
    mutex,             \* owner of mutex_
    result,            \* how the last write() ended
    loop,              \* where the IOLoop thread is
    buf,               \* bytes onReadable has read and not yet scanned
    line,              \* tokens on their way to the board
    rx,                \* bytes the tty holds for the host
    written,           \* writes that reached the line
    acksRead,          \* history: ACK bytes scanned by onReadable
    lastAck,           \* history: the write that the last scanned ACK answers
    successes          \* history: calls of waitForAck that returned true

callerVars == <<main, timedOut, result, written, successes>>
loopVars   == <<loop, buf, acksRead, lastAck>>
sharedVars == <<isWaitingForAck, mutex>>
ttyVars    == <<line, rx>>
vars       == <<callerVars, loopVars, sharedVars, ttyVars>>

Byte  == [ack : BOOLEAN, of : Nat]
Token == [tok : Tokens, of : Nat]

\* Bytes of a reply, marked with the write they answer (0: an earlier session).
Answering(reply, w) == [i \in 1..Len(reply) |-> [ack |-> reply[i], of |-> w]]

\* The tokens of a command, marked with the ordinal of the write that sends them.
Carrying(toks, w) == [i \in 1..Len(toks) |-> [tok |-> toks[i], of |-> w]]

Init ==
    /\ main = "idle"
    /\ isWaitingForAck = FALSE
    /\ timedOut = FALSE
    /\ mutex = "free"
    /\ result = "none"
    /\ loop = "kevent"
    /\ buf = <<>>
    /\ line = <<>>
    /\ \E s \in Stale : rx = Answering(s, 0)
    /\ written = 0
    /\ acksRead = 0
    /\ lastAck = 0
    /\ successes = 0

-------------------------------------------------------------------------------
(* The upload thread. *)

\* writeChunk: ::write on the non-blocking tty took the tokens toks.
Write(toks) ==
    /\ main = "idle"
    /\ written < MaxWrites
    /\ line' = line \o Carrying(toks, written + 1)
    /\ written' = written + 1
    /\ main' = "sent"
    /\ UNCHANGED <<timedOut, result, successes, rx, loopVars, sharedVars>>

\* Mutation of WriteFails: the caller of a failed write is left in a place of its own.
WriteFailsStuck ==
    /\ main = "idle"
    /\ main' = "failed"
    /\ result' = "threw"
    /\ UNCHANGED <<timedOut, written, successes, loopVars, sharedVars, ttyVars>>

\* writeChunk: ::write returned a negative value; the exception leaves write()
\* before the flag is set.
WriteFails ==
    /\ main = "idle"
    /\ result' = "threw"
    /\ UNCHANGED <<main, timedOut, written, successes, loopVars, sharedVars, ttyVars>>

\* flush: tcflush(TCIOFLUSH) drops what the host has not read and the part of
\* the output that has not been transmitted yet.
Flush ==
    /\ main = "idle"
    /\ rx' = <<>>
    /\ \E k \in 0..Len(line) : line' = SubSeq(line, 1, k)
    /\ UNCHANGED <<callerVars, loopVars, sharedVars>>

\* Mutation of Arm: the flag is not set.
ArmForgotten ==
    /\ main = "sent"
    /\ timedOut' = FALSE
    /\ main' = "armed"
    /\ UNCHANGED <<result, written, successes, sharedVars, loopVars, ttyVars>>

\* writeChunk: isWaitingForAck_ = true, with no lock held.
Arm ==
    /\ main = "sent"
    /\ isWaitingForAck' = TRUE
    /\ timedOut' = FALSE
    /\ main' = "armed"
    /\ UNCHANGED <<result, written, successes, mutex, loopVars, ttyVars>>

\* waitForAck takes the lock, or wait_for takes it again after a wake-up.
Lock ==
    /\ main \in {"armed", "woken"}
    /\ mutex = "free"
    /\ mutex' = "main"
    /\ main' = "check"
    /\ UNCHANGED <<timedOut, result, written, successes, isWaitingForAck, loopVars, ttyVars>>

\* The predicate of wait_for holds: waitForAck returns true.
ReturnAcked ==
    /\ main = "check"
    /\ ~isWaitingForAck
    /\ mutex' = "free"
    /\ main' = "idle"
    /\ result' = "acked"
    /\ successes' = successes + 1
    /\ UNCHANGED <<timedOut, written, isWaitingForAck, loopVars, ttyVars>>

\* Mutation of ReturnTimeout: the predicate is not tested again after the deadline.
ReturnTimeoutUntested ==
    /\ main = "check"
    /\ timedOut
    /\ mutex' = "free"
    /\ main' = "idle"
    /\ result' = "timeout"
    /\ UNCHANGED <<timedOut, written, successes, isWaitingForAck, loopVars, ttyVars>>

\* The predicate fails after the deadline: waitForAck returns false.
ReturnTimeout ==
    /\ main = "check"
    /\ isWaitingForAck
    /\ timedOut
    /\ mutex' = "free"
    /\ main' = "idle"
    /\ result' = "timeout"
    /\ UNCHANGED <<timedOut, written, successes, isWaitingForAck, loopVars, ttyVars>>

\* The predicate fails before the deadline: the thread is going to sleep.
Commit ==
    /\ main = "check"
    /\ isWaitingForAck
    /\ ~timedOut
    /\ main' = "committed"
    /\ UNCHANGED <<timedOut, result, written, successes, loopVars, sharedVars, ttyVars>>

\* The condition variable releases the lock and puts the thread to sleep in one step.
Block ==
    /\ main = "committed"
    /\ mutex' = "free"
    /\ main' = "blocked"
    /\ UNCHANGED <<timedOut, result, written, successes, isWaitingForAck, loopVars, ttyVars>>

\* Mutation of DeadlinePasses: wait() in place of wait_for().
DeadlineIgnored ==
    /\ main \in {"blocked", "woken"}
    /\ ~timedOut
    /\ UNCHANGED vars

\* The absolute deadline of wait_for passes while the thread is asleep or is
\* taking the lock again.
DeadlinePasses ==
    /\ main \in {"blocked", "woken"}
    /\ ~timedOut
    /\ timedOut' = TRUE
    /\ main' = "woken"
    /\ UNCHANGED <<result, written, successes, loopVars, sharedVars, ttyVars>>

\* A condition variable may wake its waiter for no reason.
SpuriousWake ==
    /\ main = "blocked"
    /\ main' = "woken"
    /\ UNCHANGED <<timedOut, result, written, successes, loopVars, sharedVars, ttyVars>>

-------------------------------------------------------------------------------
(* The IOLoop thread. *)

\* IOLoop::run: kevent (level-triggered EVFILT_READ) reports the tty.
Kevent ==
    /\ loop = "kevent"
    /\ rx # <<>>
    /\ loop' = "dispatch"
    /\ UNCHANGED <<buf, acksRead, lastAck, callerVars, sharedVars, ttyVars>>

\* IOLoop::run finds the handler of the descriptor and calls it.
Dispatch ==
    /\ loop = "dispatch"
    /\ loop' = "readable"
    /\ UNCHANGED <<buf, acksRead, lastAck, callerVars, sharedVars, ttyVars>>

\* onReadable: ::read takes up to ReadMax bytes; with nothing left to read it returns.
Read ==
    /\ loop = "readable"
    /\ LET n == IF Len(rx) < ReadMax THEN Len(rx) ELSE ReadMax
       IN  /\ buf' = SubSeq(rx, 1, n)
           /\ rx' = SubSeq(rx, n + 1, Len(rx))
    /\ loop' = IF rx = <<>> THEN "kevent" ELSE "read"
    /\ UNCHANGED <<acksRead, lastAck, callerVars, sharedVars, line>>

\* Mutation of LoopLock: onReadable does not take the lock.
LoopLockSkipped ==
    /\ loop = "read"
    /\ loop' = "scan"
    /\ UNCHANGED <<buf, acksRead, lastAck, callerVars, sharedVars, ttyVars>>

LoopLock ==
    /\ loop = "read"
    /\ mutex = "free"
    /\ mutex' = "loop"
    /\ loop' = "scan"
    /\ UNCHANGED <<buf, acksRead, lastAck, callerVars, isWaitingForAck, ttyVars>>

\* An ACK byte clears the flag; notify_all follows.
ScanAck ==
    /\ loop = "scan"
    /\ buf # <<>>
    /\ Head(buf).ack
    /\ isWaitingForAck' = FALSE
    /\ acksRead' = acksRead + 1
    /\ lastAck' = Head(buf).of
    /\ buf' = Tail(buf)
    /\ loop' = "notify"
    /\ UNCHANGED <<callerVars, mutex, ttyVars>>

Notify ==
    /\ loop = "notify"
    /\ main' = IF main = "blocked" THEN "woken" ELSE main
    /\ loop' = "scan"
    /\ UNCHANGED <<timedOut, result, written, successes, buf, acksRead, lastAck, sharedVars, ttyVars>>

\* Any other byte goes to receivedData_, which is printed and cleared.
ScanOther ==
    /\ loop = "scan"
    /\ buf # <<>>
    /\ ~Head(buf).ack
    /\ buf' = Tail(buf)
    /\ UNCHANGED <<loop, acksRead, lastAck, callerVars, sharedVars, ttyVars>>

LoopUnlock ==
    /\ loop = "scan"
    /\ buf = <<>>
    /\ mutex' = "free"
    /\ loop' = "kevent"
    /\ UNCHANGED <<buf, acksRead, lastAck, callerVars, isWaitingForAck, ttyVars>>

-------------------------------------------------------------------------------
(* The board, as far as the client can tell: it takes a token off the line and *)
(* answers it with one of Replies.  It may stop doing so.                       *)
Board ==
    /\ line # <<>>
    /\ line' = Tail(line)
    /\ \E r \in Replies : rx' = rx \o Answering(r, Head(line).of)
    /\ UNCHANGED <<callerVars, loopVars, sharedVars>>

WaitStep == Arm \/ Lock \/ ReturnAcked \/ ReturnTimeout \/ Commit \/ Block

CallerStep == WaitStep \/ DeadlinePasses \/ SpuriousWake

LoopStep == Kevent \/ Dispatch \/ Read \/ LoopLock \/ ScanAck \/ Notify \/ ScanOther \/ LoopUnlock

Next ==
    \/ \E toks \in Commands : Write(toks)
    \/ WriteFails
    \/ Flush
    \/ CallerStep
    \/ LoopStep
    \/ Board

\* Both threads are scheduled; the deadline is absolute, so it passes however
\* often the thread is woken for nothing; the board owes nothing.
Fairness ==
    /\ WF_vars(WaitStep)
    /\ SF_vars(DeadlinePasses)
    /\ WF_vars(LoopStep)

Spec     == Init /\ [][Next]_vars
FairSpec == Spec /\ Fairness

-------------------------------------------------------------------------------
TypeOK ==
    /\ main \in {"idle", "sent", "armed", "check", "committed", "blocked", "woken"}
    /\ isWaitingForAck \in BOOLEAN
    /\ timedOut \in BOOLEAN
    /\ mutex \in {"free", "main", "loop"}
    /\ result \in {"none", "acked", "timeout", "threw"}
    /\ loop \in {"kevent", "dispatch", "readable", "read", "scan", "notify"}
    /\ buf \in Seq(Byte)
    /\ line \in Seq(Token)
    /\ rx \in Seq(Byte)
    /\ written \in Nat
    /\ acksRead \in Nat
    /\ lastAck \in Nat
    /\ successes \in Nat

(***************************************************************************)
(* A thread that sleeps in wait_for while the flag is already clear is      *)
(* about to be notified: the wake-up of an ACK is never lost, whatever the  *)
(* order of the unlocked store of the flag, the lock and notify_all.        *)
(***************************************************************************)
NoLostWakeup ==
    main = "blocked" /\ ~isWaitingForAck => loop = "notify"

(***************************************************************************)
(* One ACK never satisfies two waits: the waits that returned true are at   *)
(* most the ACK bytes read, and one fewer while an ACK that has cleared the *)
(* flag of an armed wait has not been reported yet.                         *)
(***************************************************************************)
AckSpentOnce ==
    /\ successes <= acksRead
    /\ main \notin {"idle", "sent"} /\ ~isWaitingForAck => successes < acksRead

(***************************************************************************)
(* The comment at waitForAck's return says true means that the ACK was      *)
(* received: about to return true, the last ACK answers this very write.    *)
(***************************************************************************)
TrueIsOwnAck ==
    main = "check" /\ ~isWaitingForAck => lastAck = written

(***************************************************************************)
(* The error text "Failed to receive ACK after sending chunk" says that no  *)
(* ACK of this write came: about to time out, onReadable has not read one.  *)
(* The flag is set only after ::write, so an ACK may be read before it.     *)
(***************************************************************************)
TimeoutMeansNoAck ==
    main = "check" /\ isWaitingForAck /\ timedOut => lastAck # written

(***************************************************************************)
(* A wait is armed from the store of the flag to the return, and an ACK has *)
(* arrived for it when the flag is clear.                                   *)
(***************************************************************************)
Armed == main \in {"armed", "check", "committed", "blocked", "woken"}

Service == INSTANCE AckService WITH
    phase <- IF Armed THEN "waiting" ELSE "idle",
    acked <- Armed /\ ~isWaitingForAck

(***************************************************************************)
(* The two threads implement AckService: write() waits successfully if and  *)
(* only if onReadable scanned an ACK between the store of the flag and the  *)
(* last test of the predicate; a time-out never hides such an ACK.          *)
(***************************************************************************)
KeepsPromise == Service!Safety

(***************************************************************************)
(* Every wait of write() ends, even if the board never answers or answers   *)
(* without end.                                                             *)
(***************************************************************************)
EveryWaitEnds == Service!WaitsEnd

===============================================================================
