-------------------------------- MODULE Upload --------------------------------
(***************************************************************************)
(* W2Uploader/Upload.m.cpp: the life of the program around the client of    *)
(* SerialPortClient.  main() starts the IOLoop thread, constructs the       *)
(* client (open the tty, store the handler, register the descriptor with    *)
(* the kqueue), uploads, destroys the client, which closes the descriptor   *)
(* and leaves the handler in the map, and joins the IOLoop thread.          *)
(*                                                                          *)
(* The callback captures the client by pointer: called on a destroyed       *)
(* client it is undefined behaviour, and either returns (its read fails) or *)
(* crashes the process.                                                     *)
(***************************************************************************)
EXTENDS SerialPortClient

VARIABLES
    stage,        \* where main() is
    handler,      \* is the descriptor a key of handlers_?
    registered,   \* does the kqueue watch the descriptor?
    io,           \* the IOLoop thread: "none", "running" or "ended"
    deadCalls     \* history: callbacks run, wholly or in part, on the destroyed client

lifeVars   == <<stage, handler, registered, io, deadCalls>>
uploadVars == <<vars, lifeVars>>

Gone == stage \in {"join", "ended", "crashed"}

UploadInit ==
    /\ Init
    /\ stage = "spawn"
    /\ handler = FALSE
    /\ registered = FALSE
    /\ io = "none"
    /\ deadCalls = 0

-------------------------------------------------------------------------------
(* main(). *)

Spawn ==
    /\ stage = "spawn"
    /\ stage' = "open"
    /\ io' = "running"
    /\ UNCHANGED <<handler, registered, deadCalls, vars>>

\* Mutation of OpenSerial: a failure leads to a stage main() does not have.
OpenSerialUncaught ==
    /\ stage = "open"
    /\ stage' \in {"insert", "terminate"}
    /\ UNCHANGED <<handler, registered, io, deadCalls, vars>>

\* openSerial, which may throw: main() catches and goes on to join.
OpenSerial ==
    /\ stage = "open"
    /\ stage' \in {"insert", "join"}
    /\ UNCHANGED <<handler, registered, io, deadCalls, vars>>

\* Mutation of InsertHandler: the descriptor is registered with the kqueue first.
InsertHandlerLate ==
    /\ stage = "insert"
    /\ stage' = "register"
    /\ registered' = TRUE
    /\ UNCHANGED <<handler, io, deadCalls, vars>>

\* registerHandle: handlers_[fd] = callback.
InsertHandler ==
    /\ stage = "insert"
    /\ stage' = "register"
    /\ handler' = TRUE
    /\ UNCHANGED <<registered, io, deadCalls, vars>>

\* registerHandle: kevent(EV_ADD).  If it fails the constructor throws, the
\* destructor does not run and the handler stays.
RegisterEvent ==
    /\ stage = "register"
    /\ \/ stage' = "upload" /\ registered' = TRUE
       \/ stage' = "join" /\ UNCHANGED registered
    /\ UNCHANGED <<handler, io, deadCalls, vars>>

\* The calls upload() makes of the client.
Uploading ==
    /\ stage = "upload"
    /\ (\E toks \in Commands : Write(toks)) \/ WriteFails \/ Flush \/ CallerStep
    /\ UNCHANGED lifeVars

\* Mutation of Destroy: the descriptor is not closed.
DestroyWithoutClose ==
    /\ stage = "upload"
    /\ main = "idle"
    /\ stage' = "join"
    /\ UNCHANGED <<handler, registered, io, deadCalls, vars>>

\* upload() has returned or thrown: the uploader goes out of scope, and close()
\* takes the descriptor out of the kqueue but not out of handlers_.
Destroy ==
    /\ stage = "upload"
    /\ main = "idle"
    /\ stage' = "join"
    /\ registered' = FALSE
    /\ UNCHANGED <<handler, io, deadCalls, vars>>

Join ==
    /\ stage = "join"
    /\ io = "ended"
    /\ stage' = "ended"
    /\ UNCHANGED <<handler, registered, io, deadCalls, vars>>

-------------------------------------------------------------------------------
(* IOLoop::run. *)

\* The one way out of the loop: kevent returns an error, for instance EINTR.
KeventFails ==
    /\ stage # "crashed"
    /\ io = "running"
    /\ loop = "kevent"
    /\ io' = "ended"
    /\ UNCHANGED <<stage, handler, registered, deadCalls, vars>>

IOLoopKevent ==
    /\ io = "running"
    /\ registered
    /\ Kevent
    /\ UNCHANGED lifeVars

\* handlers_.find(fd): without a handler the event is dropped.
IOLoopFind ==
    /\ ~Gone
    /\ IF handler
       THEN Dispatch
       ELSE /\ loop = "dispatch"
            /\ loop' = "kevent"
            /\ UNCHANGED <<buf, acksRead, lastAck, callerVars, sharedVars, ttyVars>>
    /\ UNCHANGED lifeVars

\* onReadable on a client that is alive.
IOLoopCallback ==
    /\ ~Gone
    /\ Read \/ LoopLock \/ ScanAck \/ Notify \/ ScanOther \/ LoopUnlock
    /\ UNCHANGED lifeVars

\* The client was destroyed after the event was taken from the kqueue: what is
\* left of the callback runs on a dead object.
DeadCallback ==
    /\ stage \in {"join", "ended"}
    /\ loop # "kevent"
    /\ loop' = "kevent"
    /\ mutex' = IF mutex = "loop" THEN "free" ELSE mutex
    /\ deadCalls' = deadCalls + 1
    /\ stage' \in {stage, "crashed"}
    /\ UNCHANGED <<handler, registered, io, buf, acksRead, lastAck, isWaitingForAck,
                   callerVars, ttyVars>>

UploadBoard == Board /\ UNCHANGED lifeVars

MainStep == Spawn \/ OpenSerial \/ InsertHandler \/ RegisterEvent \/ Destroy \/ Join

IOLoopStep == IOLoopKevent \/ IOLoopFind \/ IOLoopCallback \/ DeadCallback

UploadNext == MainStep \/ Uploading \/ KeventFails \/ IOLoopStep \/ UploadBoard

\* Both threads are scheduled and deadlines pass; kevent need not ever fail.
UploadSpec ==
    /\ UploadInit
    /\ [][UploadNext]_uploadVars
    /\ WF_uploadVars(MainStep)
    /\ WF_uploadVars(Uploading /\ WaitStep)
    /\ SF_uploadVars(Uploading /\ DeadlinePasses)
    /\ WF_uploadVars(IOLoopStep)

-------------------------------------------------------------------------------
UploadTypeOK ==
    /\ TypeOK
    /\ stage \in {"spawn", "open", "insert", "register", "upload", "join", "ended", "crashed"}
    /\ handler \in BOOLEAN
    /\ registered \in BOOLEAN
    /\ io \in {"none", "running", "ended"}
    /\ deadCalls \in Nat

(***************************************************************************)
(* registerHandle runs on the upload thread while IOLoop::run, on its own   *)
(* thread, looks handlers_ up with no lock: no event is taken from the      *)
(* kqueue before its handler is in the map, so no event is dropped and the  *)
(* lookup never meets the insertion.                                        *)
(***************************************************************************)
NoEventBeforeHandler == loop = "dispatch" => handler

(***************************************************************************)
(* The handler outlives the client in handlers_, yet at most one callback   *)
(* runs on the destroyed client: the one whose event had been taken from    *)
(* the kqueue when the destructor closed the descriptor.                    *)
(***************************************************************************)
OneStaleCallback == deadCalls <= 1

(***************************************************************************)
(* If the IOLoop thread dies in the middle of an upload, the upload thread  *)
(* is not stuck waiting for ACKs nobody reads: its waits time out, the      *)
(* upload runs to its end and the program joins and exits.                  *)
(***************************************************************************)
SurvivesLoopDeath == io = "ended" ~> stage \in {"ended", "crashed"}

===============================================================================
