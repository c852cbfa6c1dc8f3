------------------------ MODULE SerialPortClientProofs ------------------------
(***************************************************************************)
(* The safety of SerialPortClient for every board, every number of writes   *)
(* and every size of the read buffer: the lock is held by whom the program  *)
(* counters say, no wake-up is lost, no ACK is spent twice, and every step  *)
(* is a step of AckService or leaves it alone.                              *)
(***************************************************************************)
EXTENDS SerialPortClient, SequenceTheorems, TLAPS

\* The mutex is held exactly between lock and unlock.
LockOwned ==
    /\ mutex = "main" <=> main \in {"check", "committed"}
    /\ mutex = "loop" <=> loop \in {"scan", "notify"}

\* Once the predicate has failed, the flag stays set until the thread sleeps.
CommittedWaits == main = "committed" => isWaitingForAck

\* The inductive invariant: NoLostWakeup alone is not inductive, because Block
\* is safe only if the lock kept onReadable out since the predicate was tested.
IInv ==
    /\ TypeOK
    /\ LockOwned
    /\ CommittedWaits
    /\ NoLostWakeup
    /\ AckSpentOnce

\* A reply marked for a write is a sequence of bytes.
LEMMA AnsweringType ==
    ASSUME NEW r \in Seq(BOOLEAN), NEW w \in Nat
    PROVE  Answering(r, w) \in Seq(Byte)
<1>1. Len(r) \in Nat /\ DOMAIN r = 1..Len(r)
  OBVIOUS
<1>2. \A i \in 1..Len(r) : [ack |-> r[i], of |-> w] \in Byte
  BY <1>1, ElementOfSeq DEF Byte
<1> QED
  BY <1>1, <1>2, IsASeq DEF Answering

\* The tokens of a command are what the line carries.
LEMMA CarryingType ==
    ASSUME NEW toks \in Seq(Tokens), NEW w \in Nat
    PROVE  Carrying(toks, w) \in Seq(Token)
<1>1. Len(toks) \in Nat /\ DOMAIN toks = 1..Len(toks)
  OBVIOUS
<1>2. \A i \in 1..Len(toks) : [tok |-> toks[i], of |-> w] \in Token
  BY <1>1, ElementOfSeq DEF Token
<1> QED
  BY <1>1, <1>2, IsASeq DEF Carrying

-------------------------------------------------------------------------------
(* Types. *)

LEMMA InitTypes == Init => TypeOK
<1> SUFFICES ASSUME Init PROVE TypeOK
  OBVIOUS
<1>1. PICK s \in Stale : rx = Answering(s, 0)
  BY DEF Init
<1>2. s \in Seq(BOOLEAN)
  BY <1>1, ClientAssumption
<1>3. rx \in Seq(Byte)
  BY <1>1, <1>2, AnsweringType
<1>4. buf \in Seq(Byte) /\ line \in Seq(Token)
  BY EmptySeq DEF Init
<1> QED
  BY <1>3, <1>4 DEF Init, TypeOK

LEMMA WriteTypes ==
    ASSUME TypeOK, NEW toks \in Seq(Tokens), Write(toks)
    PROVE  TypeOK'
<1>1. written + 1 \in Nat
  BY DEF TypeOK
<1>2. line' \in Seq(Token)
  <2>1. Carrying(toks, written + 1) \in Seq(Token)
    BY <1>1, CarryingType
  <2> QED
    BY <2>1 DEF Write, TypeOK
<1> QED
  BY <1>1, <1>2 DEF Write, TypeOK, loopVars, sharedVars

LEMMA FlushTypes == TypeOK /\ Flush => TypeOK'
<1> SUFFICES ASSUME TypeOK, Flush PROVE TypeOK'
  OBVIOUS
<1>1. PICK k \in 0..Len(line) : line' = SubSeq(line, 1, k)
  BY DEF Flush
<1>2. line' \in Seq(Token)
  BY <1>1, SubSeqProperties DEF TypeOK
<1> QED
  BY <1>2 DEF Flush, TypeOK, callerVars, loopVars, sharedVars

LEMMA ReadTypes == TypeOK /\ Read => TypeOK'
<1> SUFFICES ASSUME TypeOK, Read PROVE TypeOK'
  OBVIOUS
<1> DEFINE n == IF Len(rx) < ReadMax THEN Len(rx) ELSE ReadMax
<1>1. Len(rx) \in Nat /\ n \in 0..Len(rx)
  BY ClientAssumption DEF TypeOK
<1>2. buf' = SubSeq(rx, 1, n) /\ rx' = SubSeq(rx, n + 1, Len(rx))
  BY DEF Read
<1>3. buf' \in Seq(Byte)
  BY <1>1, <1>2, SubSeqProperties DEF TypeOK
<1>4. rx' \in Seq(Byte)
  BY <1>1, <1>2, SubSeqProperties DEF TypeOK
<1>5. loop' \in {"kevent", "read"}
  BY DEF Read
<1> QED
  BY <1>3, <1>4, <1>5 DEF Read, TypeOK, callerVars, sharedVars

LEMMA BoardTypes == TypeOK /\ Board => TypeOK'
<1> SUFFICES ASSUME TypeOK, Board PROVE TypeOK'
  OBVIOUS
<1>1. PICK r \in Replies : rx' = rx \o Answering(r, Head(line).of)
  BY DEF Board
<1>2. Head(line) \in Token /\ line' \in Seq(Token)
  BY HeadTailProperties DEF Board, TypeOK
<1>3. r \in Seq(BOOLEAN) /\ Head(line).of \in Nat
  BY <1>1, <1>2, ClientAssumption DEF Token
<1>4. rx' \in Seq(Byte)
  <2>1. Answering(r, Head(line).of) \in Seq(Byte)
    BY <1>3, AnsweringType
  <2> QED
    BY <1>1, <2>1, ConcatProperties DEF TypeOK
<1> QED
  BY <1>2, <1>4 DEF Board, TypeOK, callerVars, loopVars, sharedVars

LEMMA CallerTypes == TypeOK /\ CallerStep => TypeOK'
<1> SUFFICES ASSUME TypeOK, CallerStep PROVE TypeOK'
  OBVIOUS
<1> USE DEF TypeOK, loopVars, sharedVars, ttyVars
<1>1. CASE Arm
  BY <1>1 DEF Arm
<1>2. CASE Lock
  BY <1>2 DEF Lock
<1>3. CASE ReturnAcked
  BY <1>3 DEF ReturnAcked
<1>4. CASE ReturnTimeout
  BY <1>4 DEF ReturnTimeout
<1>5. CASE Commit
  BY <1>5 DEF Commit
<1>6. CASE Block
  BY <1>6 DEF Block
<1>7. CASE DeadlinePasses
  BY <1>7 DEF DeadlinePasses
<1>8. CASE SpuriousWake
  BY <1>8 DEF SpuriousWake
<1> QED
  BY <1>1, <1>2, <1>3, <1>4, <1>5, <1>6, <1>7, <1>8 DEF CallerStep, WaitStep

LEMMA LoopTypes == TypeOK /\ LoopStep => TypeOK'
<1> SUFFICES ASSUME TypeOK, LoopStep PROVE TypeOK'
  OBVIOUS
<1>1. buf # <<>> => Head(buf) \in Byte /\ Tail(buf) \in Seq(Byte)
  BY HeadTailProperties DEF TypeOK
<1>2. CASE Kevent \/ Dispatch
  BY <1>2 DEF Kevent, Dispatch, TypeOK, callerVars, sharedVars, ttyVars
<1>3. CASE Read
  BY <1>3, ReadTypes
<1>4. CASE LoopLock
  BY <1>4 DEF LoopLock, TypeOK, callerVars, ttyVars
<1>5. CASE ScanAck
  <2>1. lastAck' \in Nat
    BY <1>1, <1>5 DEF ScanAck, Byte
  <2>2. buf' \in Seq(Byte)
    BY <1>1, <1>5 DEF ScanAck
  <2>3. acksRead' \in Nat /\ isWaitingForAck' = FALSE /\ loop' = "notify"
    BY <1>5 DEF ScanAck, TypeOK
  <2>4. UNCHANGED <<main, timedOut, mutex, result, line, rx, written, successes>>
    BY <1>5 DEF ScanAck, callerVars, ttyVars
  <2> QED
    BY <2>1, <2>2, <2>3, <2>4 DEF TypeOK
<1>6. CASE Notify
  BY <1>6 DEF Notify, TypeOK, sharedVars, ttyVars
<1>7. CASE ScanOther
  BY <1>1, <1>7 DEF ScanOther, TypeOK, callerVars, sharedVars, ttyVars
<1>8. CASE LoopUnlock
  BY <1>8 DEF LoopUnlock, TypeOK, callerVars, ttyVars
<1> QED
  BY <1>2, <1>3, <1>4, <1>5, <1>6, <1>7, <1>8 DEF LoopStep

LEMMA NextTypes == TypeOK /\ [Next]_vars => TypeOK'
<1> SUFFICES ASSUME TypeOK, [Next]_vars PROVE TypeOK'
  OBVIOUS
<1>1. ASSUME NEW toks \in Commands, Write(toks)
      PROVE  TypeOK'
  <2>1. toks \in Seq(Tokens)
    BY ClientAssumption
  <2> QED
    BY <1>1, <2>1, WriteTypes
<1>2. CASE WriteFails
  BY <1>2 DEF WriteFails, TypeOK, loopVars, sharedVars, ttyVars
<1>3. CASE Flush
  BY <1>3, FlushTypes
<1>4. CASE CallerStep
  BY <1>4, CallerTypes
<1>5. CASE LoopStep
  BY <1>5, LoopTypes
<1>6. CASE Board
  BY <1>6, BoardTypes
<1>7. CASE UNCHANGED vars
  BY <1>7 DEF TypeOK, vars, callerVars, loopVars, sharedVars, ttyVars
<1> QED
  BY <1>1, <1>2, <1>3, <1>4, <1>5, <1>6, <1>7 DEF Next

\* Every variable keeps its type in every reachable state.
THEOREM TypeCorrect == Spec => []TypeOK
<1> QED
  BY InitTypes, NextTypes, PTL DEF Spec

-------------------------------------------------------------------------------
(* The lock, the wake-ups and the ACKs. *)

\* Every conjunct of the invariant is about these variables only.
watched == <<main, isWaitingForAck, mutex, loop, acksRead, successes>>

LEMMA WatchedUnchanged == IInv /\ TypeOK' /\ UNCHANGED watched => IInv'
  BY DEF IInv, watched, LockOwned, CommittedWaits, NoLostWakeup, AckSpentOnce

LEMMA CallerKeepsIInv == IInv /\ CallerStep => IInv'
<1> SUFFICES ASSUME IInv, CallerStep PROVE IInv'
  OBVIOUS
<1>1. TypeOK'
  BY CallerTypes DEF IInv
<1> USE <1>1 DEF IInv, LockOwned, CommittedWaits, NoLostWakeup, AckSpentOnce,
                 loopVars, sharedVars, TypeOK
<1>2. CASE Arm
  BY <1>2 DEF Arm
<1>3. CASE Lock
  BY <1>3 DEF Lock
<1>4. CASE ReturnAcked
  BY <1>4 DEF ReturnAcked
<1>5. CASE ReturnTimeout
  BY <1>5 DEF ReturnTimeout
<1>6. CASE Commit
  BY <1>6 DEF Commit
<1>7. CASE Block
  BY <1>7 DEF Block
<1>8. CASE DeadlinePasses
  BY <1>8 DEF DeadlinePasses
<1>9. CASE SpuriousWake
  BY <1>9 DEF SpuriousWake
<1> QED
  BY <1>2, <1>3, <1>4, <1>5, <1>6, <1>7, <1>8, <1>9 DEF CallerStep, WaitStep

LEMMA LoopKeepsIInv == IInv /\ LoopStep => IInv'
<1> SUFFICES ASSUME IInv, LoopStep PROVE IInv'
  OBVIOUS
<1>1. TypeOK'
  BY LoopTypes DEF IInv
<1> USE <1>1 DEF IInv, LockOwned, CommittedWaits, NoLostWakeup, AckSpentOnce,
                 callerVars, sharedVars
<1>2. CASE Kevent \/ Dispatch
  BY <1>2 DEF Kevent, Dispatch
<1>3. CASE Read
  BY <1>3 DEF Read
<1>4. CASE LoopLock
  BY <1>4 DEF LoopLock
<1>5. CASE ScanAck
  BY <1>5 DEF ScanAck, TypeOK
<1>6. CASE Notify
  BY <1>6 DEF Notify
<1>7. CASE ScanOther
  BY <1>7, WatchedUnchanged DEF ScanOther, watched
<1>8. CASE LoopUnlock
  BY <1>8 DEF LoopUnlock
<1> QED
  BY <1>2, <1>3, <1>4, <1>5, <1>6, <1>7, <1>8 DEF LoopStep

LEMMA InitIInv == Init => IInv
<1> SUFFICES ASSUME Init PROVE IInv
  OBVIOUS
<1>1. TypeOK
  BY InitTypes
<1> QED
  BY <1>1 DEF Init, IInv, LockOwned, CommittedWaits, NoLostWakeup, AckSpentOnce

LEMMA NextIInv == IInv /\ [Next]_vars => IInv'
<1> SUFFICES ASSUME IInv, [Next]_vars PROVE IInv'
  OBVIOUS
<1>1. TypeOK'
  BY NextTypes DEF IInv
<1>2. ASSUME NEW toks \in Commands, Write(toks)
      PROVE  IInv'
  BY <1>1, <1>2 DEF Write, IInv, LockOwned, CommittedWaits, NoLostWakeup,
                    AckSpentOnce, loopVars, sharedVars
<1>3. CASE WriteFails
  BY <1>1, <1>3, WatchedUnchanged DEF WriteFails, watched, loopVars, sharedVars
<1>4. CASE Flush
  BY <1>1, <1>4, WatchedUnchanged DEF Flush, watched, callerVars, loopVars, sharedVars
<1>5. CASE CallerStep
  BY <1>5, CallerKeepsIInv
<1>6. CASE LoopStep
  BY <1>6, LoopKeepsIInv
<1>7. CASE Board
  BY <1>1, <1>7, WatchedUnchanged DEF Board, watched, callerVars, loopVars, sharedVars
<1>8. CASE UNCHANGED vars
  BY <1>1, <1>8, WatchedUnchanged
     DEF vars, watched, callerVars, loopVars, sharedVars
<1> QED
  BY <1>2, <1>3, <1>4, <1>5, <1>6, <1>7, <1>8 DEF Next

LEMMA Inductive == Spec => []IInv
<1> QED
  BY InitIInv, NextIInv, PTL DEF Spec

\* No interleaving of the unlocked store of the flag, the lock, the sleep and
\* notify_all leaves the upload thread asleep after its ACK was scanned.
THEOREM WakeupNeverLost == Spec => []NoLostWakeup
<1>1. IInv => NoLostWakeup
  BY DEF IInv
<1> QED
  BY <1>1, Inductive, PTL

\* However ACKs are delayed or repeated, no ACK byte satisfies two waits.
THEOREM AckNeverSpentTwice == Spec => []AckSpentOnce
<1>1. IInv => AckSpentOnce
  BY DEF IInv
<1> QED
  BY <1>1, Inductive, PTL

-------------------------------------------------------------------------------
(* The client implements AckService: Arm, ScanAck, ReturnAcked and            *)
(* ReturnTimeout are its four actions, every other step leaves it alone.       *)

LEMMA MappedUnchanged == UNCHANGED watched => UNCHANGED Service!vars
  BY DEF watched, Service!vars, Armed

LEMMA CallerImplements == IInv /\ CallerStep => [Service!Next]_Service!vars
<1> SUFFICES ASSUME IInv, CallerStep PROVE [Service!Next]_Service!vars
  OBVIOUS
<1> USE DEF IInv, TypeOK, Armed, Service!vars, Service!Next, loopVars, sharedVars
<1>1. CASE Arm
  BY <1>1 DEF Arm, Service!Arm
<1>2. CASE Lock
  BY <1>2 DEF Lock
<1>3. CASE ReturnAcked
  BY <1>3 DEF ReturnAcked, Service!Succeed
<1>4. CASE ReturnTimeout
  BY <1>4 DEF ReturnTimeout, Service!GiveUp
<1>5. CASE Commit
  BY <1>5 DEF Commit
<1>6. CASE Block
  BY <1>6 DEF Block
<1>7. CASE DeadlinePasses
  BY <1>7 DEF DeadlinePasses
<1>8. CASE SpuriousWake
  BY <1>8 DEF SpuriousWake
<1> QED
  BY <1>1, <1>2, <1>3, <1>4, <1>5, <1>6, <1>7, <1>8 DEF CallerStep, WaitStep

LEMMA LoopImplements == IInv /\ LoopStep => [Service!Next]_Service!vars
<1> SUFFICES ASSUME IInv, LoopStep PROVE [Service!Next]_Service!vars
  OBVIOUS
<1> USE DEF Armed, Service!vars, Service!Next, callerVars, sharedVars
<1>1. CASE Kevent \/ Dispatch
  BY <1>1 DEF Kevent, Dispatch
<1>2. CASE Read
  BY <1>2 DEF Read
<1>3. CASE LoopLock
  BY <1>3 DEF LoopLock
<1>4. CASE ScanAck
  BY <1>4 DEF ScanAck, Service!AckArrives
<1>5. CASE Notify
  BY <1>5 DEF Notify
<1>6. CASE ScanOther
  BY <1>6 DEF ScanOther
<1>7. CASE LoopUnlock
  BY <1>7 DEF LoopUnlock
<1> QED
  BY <1>1, <1>2, <1>3, <1>4, <1>5, <1>6, <1>7 DEF LoopStep

LEMMA NextImplements == IInv /\ [Next]_vars => [Service!Next]_Service!vars
<1> SUFFICES ASSUME IInv, [Next]_vars PROVE [Service!Next]_Service!vars
  OBVIOUS
<1>1. ASSUME NEW toks \in Commands, Write(toks)
      PROVE  UNCHANGED Service!vars
  BY <1>1 DEF Write, Armed, Service!vars, loopVars, sharedVars
<1>2. CASE WriteFails
  BY <1>2, MappedUnchanged DEF WriteFails, watched, loopVars, sharedVars
<1>3. CASE Flush
  BY <1>3, MappedUnchanged DEF Flush, watched, callerVars, loopVars, sharedVars
<1>4. CASE CallerStep
  BY <1>4, CallerImplements
<1>5. CASE LoopStep
  BY <1>5, LoopImplements
<1>6. CASE Board
  BY <1>6, MappedUnchanged DEF Board, watched, callerVars, loopVars, sharedVars
<1>7. CASE UNCHANGED vars
  BY <1>7, MappedUnchanged DEF vars, watched, callerVars, loopVars, sharedVars
<1> QED
  BY <1>1, <1>2, <1>3, <1>4, <1>5, <1>6, <1>7 DEF Next

\* What the two threads do is what AckService allows: a wait succeeds exactly
\* when an ACK was scanned between the store of the flag and the last test.
THEOREM ClientImplementsService == Spec => KeepsPromise
<1>1. Init => Service!Init
  BY DEF Init, Service!Init, Armed
<1> QED
  BY <1>1, Inductive, NextImplements, PTL DEF Spec, KeepsPromise, Service!Safety

===============================================================================
