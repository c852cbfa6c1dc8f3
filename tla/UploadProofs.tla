---------------------------- MODULE UploadProofs ----------------------------
(***************************************************************************)
(* The safety of the whole upload program, for every board, every number of *)
(* writes and every size of the read buffer.  A step of the program is a    *)
(* step of the client, leaves the client alone, or is the one callback that *)
(* runs on the destroyed client; the invariant of SerialPortClientProofs    *)
(* carries over, and with it that the client keeps what AckService says.    *)
(***************************************************************************)
EXTENDS Upload, SerialPortClientProofs

\* upload() makes all the calls of the client: outside it none is under way.
CallsInUpload == stage # "upload" => main = "idle"

\* The descriptor is in the kqueue only while upload() runs, after its handler
\* was stored.
Registration ==
    /\ stage = "register" => handler
    /\ registered => stage = "upload" /\ handler

\* The IOLoop thread leaves kevent only for an event of a descriptor that was
\* registered: the handler is there, and upload() is running or was.
EventsOfTheClient == loop # "kevent" => handler /\ (stage = "upload" \/ Gone)

\* A callback runs on the destroyed client at most once, and then never again:
\* the thread is back in kevent with nothing registered.
DeadOnce ==
    /\ deadCalls \in {0, 1}
    /\ deadCalls = 1 => Gone /\ loop = "kevent"

\* The inductive invariant of the program.
LifeInv ==
    /\ UploadTypeOK
    /\ IInv
    /\ CallsInUpload
    /\ Registration
    /\ EventsOfTheClient
    /\ DeadOnce

-------------------------------------------------------------------------------
(* The steps of the program and the steps of the client. *)

LEMMA StepIsClientStep ==
    ASSUME NoEventBeforeHandler, [UploadNext]_uploadVars, ~DeadCallback
    PROVE  [Next]_vars
<1>1. CASE MainStep
  BY <1>1 DEF MainStep, Spawn, OpenSerial, InsertHandler, RegisterEvent, Destroy, Join
<1>2. CASE Uploading
  BY <1>2 DEF Uploading, Next
<1>3. CASE KeventFails
  BY <1>3 DEF KeventFails
<1>4. CASE IOLoopKevent
  BY <1>4 DEF IOLoopKevent, Next, LoopStep
<1>5. CASE IOLoopFind
  BY <1>5 DEF IOLoopFind, NoEventBeforeHandler, Next, LoopStep
<1>6. CASE IOLoopCallback
  BY <1>6 DEF IOLoopCallback, Next, LoopStep
<1>7. CASE UploadBoard
  BY <1>7 DEF UploadBoard, Next
<1>8. CASE UNCHANGED uploadVars
  BY <1>8 DEF uploadVars
<1> QED
  BY <1>1, <1>2, <1>3, <1>4, <1>5, <1>6, <1>7, <1>8 DEF UploadNext, IOLoopStep

LEMMA DeadCallbackKeepsIInv ==
    ASSUME IInv, CallsInUpload, DeadCallback
    PROVE  IInv'
<1>1. main = "idle" /\ UNCHANGED main
  BY DEF CallsInUpload, DeadCallback, callerVars
<1>2. TypeOK'
  BY DEF IInv, TypeOK, DeadCallback, callerVars, ttyVars
<1>3. LockOwned'
  BY <1>1 DEF IInv, TypeOK, LockOwned, DeadCallback
<1>4. CommittedWaits' /\ NoLostWakeup'
  BY <1>1 DEF CommittedWaits, NoLostWakeup
<1>5. AckSpentOnce'
  BY <1>1 DEF IInv, AckSpentOnce, DeadCallback, callerVars
<1> QED
  BY <1>2, <1>3, <1>4, <1>5 DEF IInv

LEMMA StepKeepsIInv == LifeInv /\ [UploadNext]_uploadVars => IInv'
<1> SUFFICES ASSUME LifeInv, [UploadNext]_uploadVars PROVE IInv'
  OBVIOUS
<1>1. CASE DeadCallback
  BY <1>1, DeadCallbackKeepsIInv DEF LifeInv
<1>2. CASE ~DeadCallback
  <2>1. NoEventBeforeHandler
    BY DEF LifeInv, EventsOfTheClient, NoEventBeforeHandler
  <2>2. [Next]_vars
    BY <1>2, <2>1, StepIsClientStep
  <2> QED
    BY <2>2, NextIInv DEF LifeInv
<1> QED
  BY <1>1, <1>2

-------------------------------------------------------------------------------
(* The invariant is inductive. *)

\* What the part of the invariant about the life of the program reads.
lifeWatched == <<lifeVars, main, loop>>

LEMMA LifeUnchanged ==
    ASSUME LifeInv, IInv', UNCHANGED lifeWatched
    PROVE  LifeInv'
  BY DEF LifeInv, IInv, lifeWatched, lifeVars, UploadTypeOK, CallsInUpload, Registration,
         EventsOfTheClient, DeadOnce, Gone

LEMMA MainKeepsLifeInv == LifeInv /\ MainStep /\ IInv' => LifeInv'
<1> SUFFICES ASSUME LifeInv, MainStep, IInv' PROVE LifeInv'
  OBVIOUS
<1>1. UNCHANGED <<main, loop>>
  BY DEF MainStep, Spawn, OpenSerial, InsertHandler, RegisterEvent, Destroy, Join,
         vars, callerVars, loopVars
<1> USE <1>1 DEF LifeInv, IInv, UploadTypeOK, CallsInUpload, Registration,
                 EventsOfTheClient, DeadOnce, Gone
<1>2. CASE Spawn
  BY <1>2 DEF Spawn
<1>3. CASE OpenSerial
  BY <1>3 DEF OpenSerial
<1>4. CASE InsertHandler
  BY <1>4 DEF InsertHandler
<1>5. CASE RegisterEvent
  <2>1. stage = "register" /\ handler /\ ~registered /\ ~Gone
    BY <1>5 DEF RegisterEvent
  <2>2. /\ UNCHANGED <<handler, io, deadCalls>>
        /\ \/ stage' = "upload" /\ registered' = TRUE
           \/ stage' = "join" /\ UNCHANGED registered
    BY <1>5 DEF RegisterEvent
  <2>3. UploadTypeOK'
    BY <2>2
  <2>4. Registration'
    BY <2>1, <2>2
  <2>5. CallsInUpload' /\ EventsOfTheClient' /\ DeadOnce'
    BY <2>1, <2>2
  <2> QED
    BY <2>3, <2>4, <2>5
<1>6. CASE Destroy
  BY <1>6 DEF Destroy
<1>7. CASE Join
  BY <1>7 DEF Join
<1> QED
  BY <1>2, <1>3, <1>4, <1>5, <1>6, <1>7 DEF MainStep

LEMMA UploadingKeepsLifeInv == LifeInv /\ Uploading /\ IInv' => LifeInv'
<1> SUFFICES ASSUME LifeInv, Uploading, IInv' PROVE LifeInv'
  OBVIOUS
<1>1. stage = "upload" /\ UNCHANGED lifeVars
  BY DEF Uploading
<1>2. UNCHANGED loop
  BY DEF Uploading, Write, WriteFails, Flush, CallerStep, WaitStep, Arm, Lock, ReturnAcked,
         ReturnTimeout, Commit, Block, DeadlinePasses, SpuriousWake, loopVars
<1> QED
  BY <1>1, <1>2 DEF LifeInv, IInv, lifeVars, UploadTypeOK, CallsInUpload, Registration,
                    EventsOfTheClient, DeadOnce, Gone

LEMMA LoopKeepsLifeInv == LifeInv /\ IOLoopStep /\ IInv' => LifeInv'
<1> SUFFICES ASSUME LifeInv, IOLoopStep, IInv' PROVE LifeInv'
  OBVIOUS
<1> USE DEF LifeInv, IInv, UploadTypeOK, CallsInUpload, Registration,
            EventsOfTheClient, DeadOnce, Gone
<1>1. CASE IOLoopKevent
  BY <1>1 DEF IOLoopKevent, Kevent, lifeVars, callerVars
<1>2. CASE IOLoopFind
  BY <1>2 DEF IOLoopFind, Dispatch, lifeVars, callerVars
<1>3. CASE IOLoopCallback
  <2>1. loop # "kevent" /\ ~Gone /\ UNCHANGED lifeVars
    BY <1>3 DEF IOLoopCallback, Read, LoopLock, ScanAck, Notify, ScanOther, LoopUnlock
  <2>2. main # main' => stage = "upload"
    <3>1. main = "blocked" => stage = "upload"
      OBVIOUS
    <3>2. main # main' => main = "blocked"
      BY <1>3 DEF IOLoopCallback, Read, LoopLock, ScanAck, Notify, ScanOther, LoopUnlock,
                  callerVars
    <3> QED
      BY <3>1, <3>2
  <2> QED
    BY <2>1, <2>2 DEF lifeVars
<1>4. CASE DeadCallback
  BY <1>4 DEF DeadCallback, callerVars
<1> QED
  BY <1>1, <1>2, <1>3, <1>4 DEF IOLoopStep

LEMMA InitLifeInv == UploadInit => LifeInv
<1> SUFFICES ASSUME UploadInit PROVE LifeInv
  OBVIOUS
<1>1. IInv /\ main = "idle" /\ loop = "kevent"
  BY InitIInv DEF UploadInit, Init
<1>2. UploadTypeOK
  BY <1>1 DEF UploadInit, UploadTypeOK, IInv
<1>3. CallsInUpload /\ EventsOfTheClient /\ DeadOnce
  BY <1>1 DEF UploadInit, CallsInUpload, EventsOfTheClient, DeadOnce
<1>4. Registration
  BY DEF UploadInit, Registration
<1> QED
  BY <1>1, <1>2, <1>3, <1>4 DEF LifeInv

LEMMA NextLifeInv == LifeInv /\ [UploadNext]_uploadVars => LifeInv'
<1> SUFFICES ASSUME LifeInv, [UploadNext]_uploadVars PROVE LifeInv'
  OBVIOUS
<1>1. IInv'
  BY StepKeepsIInv
<1>2. CASE MainStep
  BY <1>1, <1>2, MainKeepsLifeInv
<1>3. CASE Uploading
  BY <1>1, <1>3, UploadingKeepsLifeInv
<1>4. CASE KeventFails
  BY <1>1, <1>4 DEF KeventFails, vars, callerVars, loopVars, LifeInv, IInv, UploadTypeOK,
                    CallsInUpload, Registration, EventsOfTheClient, DeadOnce, Gone
<1>5. CASE IOLoopStep
  BY <1>1, <1>5, LoopKeepsLifeInv
<1>6. CASE UploadBoard
  BY <1>1, <1>6, LifeUnchanged
     DEF UploadBoard, Board, lifeWatched, callerVars, loopVars
<1>7. CASE UNCHANGED uploadVars
  BY <1>1, <1>7, LifeUnchanged
     DEF uploadVars, vars, lifeWatched, callerVars, loopVars
<1> QED
  BY <1>2, <1>3, <1>4, <1>5, <1>6, <1>7 DEF UploadNext

LEMMA ProgramInductive == UploadSpec => []LifeInv
<1> QED
  BY InitLifeInv, NextLifeInv, PTL DEF UploadSpec

-------------------------------------------------------------------------------
\* Every variable of the program keeps its type in every reachable state.
THEOREM ProgramTypeCorrect == UploadSpec => []UploadTypeOK
<1>1. LifeInv => UploadTypeOK
  BY DEF LifeInv
<1> QED
  BY <1>1, ProgramInductive, PTL

\* However the two threads interleave, and whatever fails around the client, no
\* wait of upload() sleeps on after its ACK was scanned.
THEOREM ProgramLosesNoWakeup == UploadSpec => []NoLostWakeup
<1>1. LifeInv => NoLostWakeup
  BY DEF LifeInv, IInv
<1> QED
  BY <1>1, ProgramInductive, PTL

\* In the whole life of the program no ACK byte satisfies two waits.
THEOREM ProgramSpendsAckOnce == UploadSpec => []AckSpentOnce
<1>1. LifeInv => AckSpentOnce
  BY DEF LifeInv, IInv
<1> QED
  BY <1>1, ProgramInductive, PTL

\* handlers_ is written on one thread and read on another with no lock, and yet
\* the lookup never runs before the handler is stored.
THEOREM HandlerBeforeEvent == UploadSpec => []NoEventBeforeHandler
<1>1. LifeInv => NoEventBeforeHandler
  BY DEF LifeInv, EventsOfTheClient, NoEventBeforeHandler
<1> QED
  BY <1>1, ProgramInductive, PTL

\* The handler is never taken out of handlers_, and yet at most one callback
\* runs on the destroyed client.
THEOREM StaleCallbackOnce == UploadSpec => []OneStaleCallback
<1>1. LifeInv => OneStaleCallback
  BY DEF LifeInv, DeadOnce, OneStaleCallback
<1> QED
  BY <1>1, ProgramInductive, PTL

-------------------------------------------------------------------------------
LEMMA StepImplements == LifeInv /\ [UploadNext]_uploadVars => [Service!Next]_Service!vars
<1> SUFFICES ASSUME LifeInv, [UploadNext]_uploadVars PROVE [Service!Next]_Service!vars
  OBVIOUS
<1>1. CASE DeadCallback
  BY <1>1 DEF DeadCallback, callerVars, Armed, Service!vars
<1>2. CASE ~DeadCallback
  <2>1. NoEventBeforeHandler
    BY DEF LifeInv, EventsOfTheClient, NoEventBeforeHandler
  <2>2. [Next]_vars
    BY <1>2, <2>1, StepIsClientStep
  <2> QED
    BY <2>2, NextImplements DEF LifeInv
<1> QED
  BY <1>1, <1>2

\* The whole program does what AckService allows, from the first write to the
\* destruction of the client and after it.
THEOREM ProgramImplementsService == UploadSpec => KeepsPromise
<1>1. UploadInit => Service!Init
  BY DEF UploadInit, Init, Service!Init, Armed
<1> QED
  BY <1>1, ProgramInductive, StepImplements, PTL DEF UploadSpec, KeepsPromise, Service!Safety

===============================================================================
