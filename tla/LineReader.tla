------------------------------ MODULE LineReader ------------------------------
(***************************************************************************)
(* Test/SerialPort: a line reader on boost::asio.  One thread calls start() *)
(* and stop(); every start() detaches a thread that runs the io_service,    *)
(* whose handler on_receive_ splits what was read into lines and starts the *)
(* next read.  stop() and on_receive_ exclude each other by mutex_; start() *)
(* and the system's writes into read_buf_raw_ do not take it.               *)
(*                                                                          *)
(* io_service (external): it counts the operations it knows; run() returns  *)
(* when stopped is set, and sets it itself when it finds none left.         *)
(***************************************************************************)
EXTENDS Integers, Sequences, FiniteSets, FiniteSetsExt

CONSTANTS
    Chars,      \* characters of a line
    EOL,        \* end_of_line_char_
    ReadSize,   \* SERIAL_PORT_READ_BUF_SIZE, 256 in the code
    MaxStarts,  \* bound: calls of start() that get to open the port
    MaxStops,   \* bound: calls of stop()
    MaxChars    \* bound: characters that arrive

ASSUME LineAssumption ==
    /\ EOL \notin Chars
    /\ {ReadSize, MaxStarts} \subseteq Nat \ {0}
    /\ {MaxStops, MaxChars} \subseteq Nat

Threads == 1..MaxStarts      \* the threads that start() creates, in order
Nobody  == 0                 \* owner of a free mutex
Caller  == MaxStarts + 1     \* the thread that calls start() and stop()

VARIABLES
    user,       \* where the calling thread is: "idle" or inside a call
    port,       \* port_: "null", "made" (not open) or "open"
    mutex,      \* who holds mutex_
    stopped,    \* the io_service's flag
    reads,      \* reads in progress
    done,       \* completed operations: number of bytes read, 0 if aborted
    at,         \* where each thread is
    op,         \* the operation whose handler it runs
    raw,        \* read_buf_raw_
    str,        \* read_buf_str_
    lines,      \* the text of the lines delivered, each with its end
    tty         \* characters received and not read

VARIABLES       \* history: only properties and bounds read these
    starts, stops, arrived,
    heard,      \* has a handler scanned characters since the port was made?
    sent,       \* characters received since the port was opened
    before,     \* text delivered or begun by then
    carried     \* has a port been opened with an operation left of the last one?

callVars   == <<user, port, starts, stops>>
asioVars   == <<stopped, reads, done>>
threadVars == <<at, op>>
textVars   == <<str, lines, heard>>
deviceVars == <<raw, tty, sent, arrived>>
lineVars   == <<callVars, mutex, asioVars, threadVars, textVars, deviceVars, before, carried>>

Busy  == {t \in Threads : at[t] \in {"lock", "handle"}}
Known == reads + Len(done) + Cardinality(Busy)    \* the io_service's work

\* The text of the lines delivered and of the one begun.
Text == lines \o str

LineInit ==
    /\ user = "idle" /\ port = "null" /\ mutex = Nobody
    /\ stopped = FALSE /\ reads = 0 /\ done = <<>>
    /\ at = [t \in Threads |-> "none"] /\ op = [t \in Threads |-> 0]
    /\ raw = <<>> /\ str = <<>> /\ lines = <<>> /\ tty = <<>>
    /\ starts = 0 /\ stops = 0 /\ arrived = 0 /\ heard = FALSE
    /\ sent = <<>> /\ before = <<>> /\ carried = FALSE

-------------------------------------------------------------------------------
(* start(): nothing in it takes the mutex. *)

\* Mutation of StartNew: only an open port is refused.
StartNewIfClosed ==
    /\ user = "idle" /\ port # "open" /\ starts < MaxStarts
    /\ port' = "made"
    /\ user' = "open"
    /\ starts' = starts + 1
    /\ heard' = FALSE
    /\ UNCHANGED <<stops, mutex, asioVars, threadVars, str, lines, deviceVars, before, carried>>

\* A port that is not null, even one that failed to open: start() returns false.
\* Otherwise a serial_port is made.
StartNew ==
    /\ user = "idle" /\ port = "null" /\ starts < MaxStarts
    /\ port' = "made"
    /\ user' = "open"
    /\ starts' = starts + 1
    /\ heard' = FALSE
    /\ UNCHANGED <<stops, mutex, asioVars, threadVars, str, lines, deviceVars, before, carried>>

\* open() succeeds, or fails: start() returns false and the port stays made.
\* set_option may throw out of start() with the port open.
StartOpen ==
    /\ user = "open"
    /\ \/ port' = "open" /\ user' \in {"thread", "idle"}
       \/ port' = "made" /\ user' = "idle"
    /\ sent' = <<>>
    /\ before' = Text
    /\ carried' = (carried \/ Known > 0)
    /\ UNCHANGED <<starts, stops, mutex, asioVars, threadVars, textVars, raw, tty, arrived>>

StartThread ==
    /\ user = "thread"
    /\ at' = [at EXCEPT ![starts] = "enter"]
    /\ user' = "read"
    /\ UNCHANGED <<port, starts, stops, mutex, asioVars, op, textVars, deviceVars, before, carried>>

\* async_read_some_
AsyncRead == reads' = IF port = "open" THEN reads + 1 ELSE reads

StartRead ==
    /\ user = "read"
    /\ AsyncRead
    /\ user' = "idle"
    /\ UNCHANGED <<port, starts, stops, mutex, stopped, done, threadVars, textVars, deviceVars,
                   before, carried>>

-------------------------------------------------------------------------------
(* stop() *)

StopLock ==
    /\ user = "idle" /\ mutex = Nobody /\ stops < MaxStops
    /\ mutex' = Caller
    /\ user' = "close"
    /\ stops' = stops + 1
    /\ UNCHANGED <<port, starts, asioVars, threadVars, textVars, deviceVars, before, carried>>

\* Mutation of StopPort: the reads are not cancelled.
StopPortKeepsReads ==
    /\ user = "close"
    /\ port # "made"
    /\ port' = "null"
    /\ tty' = <<>>
    /\ user' = "stop"
    /\ sent' = <<>> /\ before' = <<>>
    /\ UNCHANGED <<starts, stops, mutex, asioVars, threadVars, textVars, raw, arrived, carried>>

\* cancel, close and reset of the port: its reads complete as aborted, and what
\* nobody has read is dropped.
StopPort ==
    /\ user = "close"
    /\ port # "made"
    /\ port' = "null"
    /\ done' = done \o [i \in 1..reads |-> 0]
    /\ reads' = 0
    /\ tty' = <<>>
    /\ user' = "stop"
    /\ sent' = <<>> /\ before' = <<>>
    /\ UNCHANGED <<starts, stops, mutex, stopped, threadVars, textVars, raw, arrived, carried>>

\* cancel() of a port that failed to open throws out of stop().
StopThrows ==
    /\ user = "close"
    /\ port = "made"
    /\ mutex' = Nobody
    /\ user' = "idle"
    /\ UNCHANGED <<port, starts, stops, asioVars, threadVars, textVars, deviceVars, before, carried>>

StopService ==
    /\ user = "stop"
    /\ stopped' = TRUE
    /\ user' = "reset"
    /\ UNCHANGED <<port, starts, stops, mutex, reads, done, threadVars, textVars, deviceVars,
                   before, carried>>

\* io_service_.reset(), and the lock is released.
ResetService ==
    /\ user = "reset"
    /\ stopped' = FALSE
    /\ mutex' = Nobody
    /\ user' = "idle"
    /\ UNCHANGED <<port, starts, stops, reads, done, threadVars, textVars, deviceVars, before, carried>>

UserStep ==
    \/ StartOpen \/ StartThread \/ StartRead
    \/ StopPort \/ StopThrows \/ StopService \/ ResetService

-------------------------------------------------------------------------------
(* A thread in io_service::run(). *)

\* On entry run() looks for work; without any it sets stopped and returns.
RunEnters(t) ==
    /\ at[t] = "enter"
    /\ IF Known = 0
       THEN at' = [at EXCEPT ![t] = "gone"] /\ stopped' = TRUE
       ELSE at' = [at EXCEPT ![t] = "loop"] /\ UNCHANGED stopped
    /\ UNCHANGED <<callVars, mutex, reads, done, op, textVars, deviceVars, before, carried>>

RunReturns(t) ==
    /\ at[t] = "loop" /\ stopped
    /\ at' = [at EXCEPT ![t] = "gone"]
    /\ UNCHANGED <<callVars, mutex, asioVars, op, textVars, deviceVars, before, carried>>

RunTakes(t) ==
    /\ at[t] = "loop" /\ ~stopped
    /\ done # <<>>
    /\ op' = [op EXCEPT ![t] = Head(done)]
    /\ done' = Tail(done)
    /\ at' = [at EXCEPT ![t] = "lock"]
    /\ UNCHANGED <<callVars, mutex, stopped, reads, textVars, deviceVars, before, carried>>

\* on_receive_ takes the mutex.
Lock(t) ==
    /\ at[t] = "lock" /\ mutex = Nobody
    /\ mutex' = t
    /\ at' = [at EXCEPT ![t] = "handle"]
    /\ UNCHANGED <<callVars, asioVars, op, textVars, deviceVars, before, carried>>

\* Where the last line of a text ends, 0 if none does.
LastEnd(cs) == Max({i \in DOMAIN cs : cs[i] = EOL} \cup {0})

\* The lines completed by the characters cs after the text s, and what is left.
NewLines(s, cs) == SubSeq(s \o cs, 1, LastEnd(s \o cs))

\* Mutation of Rest: the line begun is cleared with the last one delivered.
RestCleared(s, cs) == <<>>

Rest(s, cs) == SubSeq(s \o cs, LastEnd(s \o cs) + 1, Len(s \o cs))

\* Mutation of ReadAgain: the error branch does not return.
ReadAgainTwice(n) == reads' = IF port = "open" THEN reads + (IF n = 0 THEN 2 ELSE 1) ELSE reads

\* Mutation of ReadAgain: only the error branch starts a read.
ReadAgainOnError(n) == IF n = 0 THEN AsyncRead ELSE UNCHANGED reads

\* Both branches of on_receive_ end with the next read.
ReadAgain(n) == AsyncRead

\* on_receive_ and the return to run(), which sets stopped when no work is left.
Handle(t) ==
    /\ at[t] = "handle"
    /\ IF port = "open" /\ op[t] > 0
       THEN /\ lines' = lines \o NewLines(str, SubSeq(raw, 1, op[t]))
            /\ str' = Rest(str, SubSeq(raw, 1, op[t]))
            /\ heard' = TRUE
       ELSE UNCHANGED textVars
    /\ ReadAgain(op[t])
    /\ stopped' = (stopped \/ (Known = 1 /\ reads' = reads))
    /\ mutex' = Nobody
    /\ at' = [at EXCEPT ![t] = "loop"]
    /\ op' = [op EXCEPT ![t] = 0]
    /\ UNCHANGED <<callVars, done, deviceVars, before, carried>>

ThreadStep(t) == RunEnters(t) \/ RunReturns(t) \/ RunTakes(t) \/ Lock(t) \/ Handle(t)

-------------------------------------------------------------------------------
(* The serial port (external). *)

Receive(c) ==
    /\ port = "open" /\ arrived < MaxChars
    /\ arrived' = arrived + 1
    /\ tty' = Append(tty, c)
    /\ sent' = Append(sent, c)
    /\ UNCHANGED <<callVars, mutex, asioVars, threadVars, textVars, raw, before, carried>>

\* A read completes with some of the characters, in the one buffer there is.
ReadCompletes ==
    /\ reads > 0 /\ tty # <<>>
    /\ \E n \in 1..Len(tty) :
          /\ n <= ReadSize
          /\ raw' = SubSeq(tty, 1, n) \o SubSeq(raw, n + 1, Len(raw))
          /\ done' = Append(done, n)
          /\ tty' = SubSeq(tty, n + 1, Len(tty))
    /\ reads' = reads - 1
    /\ UNCHANGED <<callVars, mutex, stopped, threadVars, textVars, sent, arrived, before, carried>>

LineNext ==
    \/ StartNew \/ StopLock \/ UserStep
    \/ \E t \in Threads : ThreadStep(t)
    \/ \E c \in Chars \cup {EOL} : Receive(c)
    \/ ReadCompletes

\* A call that was begun goes on, threads are scheduled, reads complete.
LineSpec ==
    /\ LineInit /\ [][LineNext]_lineVars
    /\ WF_lineVars(UserStep)
    /\ \A t \in Threads : WF_lineVars(ThreadStep(t))
    /\ WF_lineVars(ReadCompletes)

-------------------------------------------------------------------------------
LineTypeOK ==
    /\ user \in {"idle", "open", "thread", "read", "close", "stop", "reset"}
    /\ port \in {"null", "made", "open"}
    /\ mutex \in {Nobody, Caller} \cup Threads
    /\ stopped \in BOOLEAN
    /\ reads \in 0..MaxStarts
    /\ done \in Seq(0..ReadSize)
    /\ at \in [Threads -> {"none", "enter", "loop", "lock", "handle", "gone"}]

\* What the operation under way, if any, has put into the buffer.
Unscanned ==
    IF Busy # {} THEN SubSeq(raw, 1, op[CHOOSE t \in Busy : TRUE])
    ELSE IF done # <<>> THEN SubSeq(raw, 1, Head(done)) ELSE <<>>

(***************************************************************************)
(* on_receive_: what is delivered ends with a line, and none ends in what   *)
(* is kept; and every character received since the port was opened is in a  *)
(* delivered line, in the line begun, in the buffer or still in the port,   *)
(* in the order it came, and a line begun before a stop() is completed by   *)
(* the next session, unless that stop() left an operation to it.            *)
(***************************************************************************)
WholeInOrder ==
    /\ lines # <<>> => lines[Len(lines)] = EOL
    /\ \A i \in DOMAIN str : str[i] # EOL
    /\ port = "open" /\ ~carried => Text \o Unscanned \o tty = before \o sent

(***************************************************************************)
(* Each start() leaves at most one read to the next: on_receive_ of an      *)
(* operation that an earlier stop() aborted starts a read of the new port,  *)
(* beside the one of start(), and no call ever starts more.                 *)
(***************************************************************************)
OneReadPerStart == Known <= starts

(***************************************************************************)
(* A failed open is final: start() refuses a port_ that is not null and     *)
(* stop() throws before it makes it null, so no sequence of calls ever      *)
(* opens a port again.                                                      *)
(***************************************************************************)
FailedOpenIsFinal == (port = "made" /\ user = "idle") ~> [](port # "open")

(***************************************************************************)
(* A session hears everything or nothing: run() may return before the first *)
(* read, and then no line is ever delivered, but once one read was handled  *)
(* the reader stays alive until stop() is called.                           *)
(***************************************************************************)
AllOrNothing ==
    (heard /\ tty # <<>>) ~> (tty = <<>> \/ user \in {"close", "stop", "reset"})

(***************************************************************************)
(* After the first stop() every thread leaves run(): io_service_.reset()    *)
(* may take the flag away before a thread saw it, but then the aborted read *)
(* is the work whose end stops the service for good.  (A second stop(), as  *)
(* the destructor's, may take away that flag too, and strand the thread.)   *)
(***************************************************************************)
ThreadsEnd ==
    <>[](port = "null" /\ stops = 1 => \A t \in Threads : at[t] \in {"none", "gone"})

===============================================================================
