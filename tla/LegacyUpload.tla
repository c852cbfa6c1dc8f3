----------------------------- MODULE LegacyUpload -----------------------------
(***************************************************************************)
(* The boost::asio uploaders of SerialPortMac/ and SerialPortWindows/: one  *)
(* thread runs main() and polls last_read for the ACK of each command with  *)
(* no time-out, another runs the io_service, whose handler on_receive       *)
(* stores every byte it reads in last_read.  The board is that of MiniBoot. *)
(*                                                                          *)
(* The two programs differ in the commands that prepare the flash, in the   *)
(* burst sizes with which they send the image, and in whether open_port     *)
(* looks at the pointer first.  Without the unlock and the erase it is up   *)
(* to the board whether a store reaches the flash; the model says it does.  *)
(***************************************************************************)
EXTENDS MiniBoot, FiniteSets, FiniteSetsExt

CONSTANTS
    Image,      \* the words of the binary file, its last one filled up from the heap
    FileBytes,  \* the size of the file
    Garbage,    \* what the heap holds after that word
    Programs,   \* the uploaders: [unlocks |-> TRUE, checks |-> TRUE, bursts |-> {16}] on
                \* the Mac, whose set_up_flash unlocks and erases and whose open_port
                \* tests the pointer; FALSE, FALSE and {16, 256} on Windows
    BufferSize  \* BUFFER_SIZE, 512 in the code

Address          == 268435456      \* 0x10000000, in upload.cpp
SPECIAL_SEQUENCE == 528482308      \* 0x1f800004
FLASH_UNLOCK     == 528485127      \* 0x1f800b07
WORD_BYTES       == 4

Cell(i) == Address + WORD_BYTES * (i - 1)

\* A burst has at most as many words as bytes are left: all that is sent for an
\* image ends before four times its size.  The flash is smaller than the
\* distance to its controller, whose registers are none of its words.
ASSUME LegacyAssumption ==
    /\ Image \in Seq(Nat) /\ Garbage \in Nat /\ Blank \in Nat
    /\ FileBytes \in Nat
    /\ WORD_BYTES * (Len(Image) - 1) < FileBytes /\ FileBytes <= WORD_BYTES * Len(Image)
    /\ Programs \subseteq [unlocks : BOOLEAN, checks : BOOLEAN, bursts : SUBSET (Nat \ {0})]
    /\ BufferSize \in Nat \ {0}
    /\ \A i \in 1..Len(Image) : Cell(i) \in Flash
    /\ EraseAddr \in Nat
    /\ Address + WORD_BYTES * FileBytes <= EraseAddr
    /\ Address + WORD_BYTES * FileBytes <= SPECIAL_SEQUENCE

VARIABLES
    program,     \* which of Programs runs
    pc,          \* where main() is
    options,     \* command-line options
    port,        \* the pointer: "null", "garbage" (never initialised) or "made"
    isOpen,      \* port->is_open()
    last_read,   \* "zero", "ack" or "other"
    offset,      \* offset of write_bytes_fast in the image, in bytes
    pos,         \* setup commands sent
    io,          \* where the io_service thread is
    read,        \* the asynchronous read: "none", "pending" or "failed"
    buffer,      \* bytes of buffer that on_receive has not stored yet
    line,        \* tokens on their way to the board
    rx           \* bytes the tty holds for the host

mainVars   == <<pc, options, port, offset, pos>>
ioVars     == <<io, read, buffer>>
wireVars   == <<line, rx>>
legacyVars == <<mainVars, isOpen, last_read, ioVars, wireVars, bootVars>>

num(v) == <<"num", v>>
key(k) == <<"key", k>>

Store1(a, v) == <<key("w"), num(a), num(1), num(v)>>

\* main()'s newline and the commands of set_up_flash.
Setup ==
    << <<key("newline")>>, <<key("a")>>, Store1(SPECIAL_SEQUENCE, 64) >>
    \o IF program.unlocks
       THEN <<Store1(FLASH_UNLOCK, 165), Store1(EraseAddr, 0)>>
       ELSE <<>>

\* write_bytes_fast, write_bytes_256: a burst of b words is sent whenever b
\* bytes are left.
BurstWords(left) ==
    LET fit == {b \in program.bursts : left >= b}
    IN  IF fit = {} THEN 1 ELSE Max(fit)

\* write_words reads the buffer wherever the count leads it.
WordAt(i) == IF i <= Len(Image) THEN Image[i] ELSE Garbage

\* Mutation of WriteWords: every burst goes to the same address.
WriteWordsInPlace(at, words) ==
    <<key("w"), num(Address), num(words)>>
        \o [i \in 1..words |-> num(WordAt(at \div WORD_BYTES + i))]

WriteWords(at, words) ==
    <<key("w"), num(Address + at), num(words)>>
        \o [i \in 1..words |-> num(WordAt(at \div WORD_BYTES + i))]

\* The code compares with "-r" and "-run".
Runs == options \cap {"-r", "-run"} # {}

LegacyInit ==
    /\ BootInit
    /\ program \in Programs
    /\ pc = "open"
    /\ options \in SUBSET {"-r", "-run"}
    /\ port \in {"null", "garbage"}
    /\ isOpen = FALSE
    /\ last_read = "zero"
    /\ offset = 0
    /\ pos = 0
    /\ io = "none"
    /\ read = "none"
    /\ buffer = <<>>
    /\ line = <<>>
    /\ rx = <<>>

-------------------------------------------------------------------------------
(* main(). *)

\* open_port; main() ignores what it returns.  On success a read is started and
\* the io_service thread runs; a set_option that throws is caught by nobody.
OpenPort ==
    /\ pc = "open"
    /\ port = "null" \/ ~program.checks
    /\ port' = "made"
    /\ \/ isOpen' = TRUE /\ read' = "pending" /\ io' = "run" /\ pc' = "setup"
       \/ UNCHANGED <<isOpen, read, io>> /\ pc' = "setup"
       \/ isOpen' = TRUE /\ UNCHANGED <<read, io>> /\ pc' = "crashed"
    /\ UNCHANGED <<options, offset, pos, last_read, buffer, wireVars, bootVars>>

\* open_port, where it tests the pointer, takes a garbage one for an open port.
OpenPortRefused ==
    /\ pc = "open"
    /\ port = "garbage" /\ program.checks
    /\ pc' = "setup"
    /\ UNCHANGED <<options, port, offset, pos, isOpen, last_read, ioVars, wireVars,
                   bootVars>>

\* write_bytes: write_some puts the command, or a part of it, on the line.  The
\* assertion fails if it fails, as on a port that is not open; a garbage pointer
\* crashes.  A part that ends inside a number is one that ends before it: with
\* no terminator the number is not read, and as no ACK comes nothing follows.
WriteBytes(toks, next) ==
    /\ \/ /\ isOpen
          /\ pc' = next
          /\ \E n \in 1..Len(toks) : line' = line \o SubSeq(toks, 1, n)
       \/ /\ pc' = IF port = "garbage" THEN "crashed" ELSE "asserted"
          /\ UNCHANGED line
    /\ UNCHANGED <<options, port, isOpen, last_read, ioVars, rx, bootVars>>

\* The newline and set_up_flash: no ACK is awaited for the newline, and 500 ms
\* after "a" last_read is cleared.
SendSetup ==
    /\ pc = "setup"
    /\ pos < Len(Setup)
    /\ WriteBytes(Setup[pos + 1], CASE pos = 0 -> "setup" [] pos = 1 -> "clear" [] OTHER -> "poll")
    /\ pos' = pos + 1
    /\ UNCHANGED offset

ClearLastRead ==
    /\ pc = "clear"
    /\ last_read' = "zero"
    /\ pc' = "setup"
    /\ UNCHANGED <<options, port, offset, pos, isOpen, ioVars, wireVars, bootVars>>

\* Mutation of PollAck: any byte ends the wait.
PollAny ==
    /\ pc = "poll"
    /\ last_read # "zero"
    /\ pc' = "reset"
    /\ UNCHANGED <<options, port, offset, pos, isOpen, last_read, ioVars, wireVars,
                   bootVars>>

\* wait_for_ack: the loop ends on an ACK ...
PollAck ==
    /\ pc = "poll"
    /\ last_read = "ack"
    /\ pc' = "reset"
    /\ UNCHANGED <<options, port, offset, pos, isOpen, last_read, ioVars, wireVars,
                   bootVars>>

\* Mutation of ResetLastRead: last_read keeps the ACK.
ResetForgotten ==
    /\ pc = "reset"
    /\ pc' = IF pos < Len(Setup) THEN "setup" ELSE IF offset = 0 THEN "readbin" ELSE "upload"
    /\ UNCHANGED <<options, port, offset, pos, isOpen, last_read, ioVars, wireVars,
                   bootVars>>

\* ... and clears last_read after it.
ResetLastRead ==
    /\ pc = "reset"
    /\ last_read' = "zero"
    /\ pc' = IF pos < Len(Setup) THEN "setup" ELSE IF offset = 0 THEN "readbin" ELSE "upload"
    /\ UNCHANGED <<options, port, offset, pos, isOpen, ioVars, wireVars, bootVars>>

\* read_bin, whose exception nobody catches.
ReadBin ==
    /\ pc = "readbin"
    /\ pc' \in {"upload", "crashed"}
    /\ UNCHANGED <<options, port, offset, pos, isOpen, last_read, ioVars, wireVars,
                   bootVars>>

\* One round of the loop of write_bytes_fast.
SendBurst ==
    /\ pc = "upload"
    /\ offset < FileBytes
    /\ LET words == BurstWords(FileBytes - offset)
       IN  /\ WriteBytes(WriteWords(offset, words), "poll")
           /\ offset' = offset + words * WORD_BYTES
    /\ UNCHANGED pos

Jump ==
    /\ pc = "upload"
    /\ offset >= FileBytes
    /\ Runs
    /\ WriteBytes(<<key("j"), num(Address)>>, "cancel")
    /\ UNCHANGED <<pos, offset>>

NoJump ==
    /\ pc = "upload"
    /\ offset >= FileBytes
    /\ ~Runs
    /\ pc' = "cancel"
    /\ UNCHANGED <<options, port, offset, pos, isOpen, last_read, ioVars, wireVars,
                   bootVars>>

\* close_port: cancel aborts the read, close closes the port, and the thread is
\* joined before the io_service is told to stop.
Cancel ==
    /\ pc = "cancel"
    /\ pc' = "close"
    /\ read' = IF read = "pending" THEN "failed" ELSE read
    /\ UNCHANGED <<options, port, offset, pos, isOpen, last_read, io, buffer, wireVars,
                   bootVars>>

\* What was written and not transmitted, and what was not read, goes with the port.
DropWire ==
    /\ rx' = <<>>
    /\ \E k \in 0..Len(line) : line' = SubSeq(line, 1, k)

\* Mutation of Close: a read started after cancel stays pending.
CloseLeavesRead ==
    /\ pc = "close"
    /\ pc' = "join"
    /\ isOpen' = FALSE
    /\ DropWire
    /\ UNCHANGED <<options, port, offset, pos, last_read, ioVars, bootVars>>

Close ==
    /\ pc = "close"
    /\ pc' = "join"
    /\ isOpen' = FALSE
    /\ read' = IF read = "pending" THEN "failed" ELSE read
    /\ DropWire
    /\ UNCHANGED <<options, port, offset, pos, last_read, io, buffer, bootVars>>

Join ==
    /\ pc = "join"
    /\ io \in {"none", "ended"}
    /\ pc' = "ended"
    /\ UNCHANGED <<options, port, offset, pos, isOpen, last_read, ioVars, wireVars,
                   bootVars>>

-------------------------------------------------------------------------------
(* io_service.run(). *)

\* A read completes and its handler is called.
ReadCompletes ==
    /\ io = "run"
    /\ read = "pending"
    /\ rx # <<>>
    /\ LET n == Min({Len(rx), BufferSize})
       IN  buffer' = SubSeq(rx, 1, n) /\ rx' = SubSeq(rx, n + 1, Len(rx))
    /\ read' = "none"
    /\ io' = "received"
    /\ UNCHANGED <<mainVars, isOpen, last_read, line, bootVars>>

\* A read that was aborted ends with an error ...
ReadAborted ==
    /\ io = "run"
    /\ read = "failed"
    /\ read' = "none"
    /\ io' = "error"
    /\ UNCHANGED <<mainVars, isOpen, last_read, buffer, wireVars, bootVars>>

\* ... and one on an open port may.
ReadFails ==
    /\ io = "run"
    /\ read = "pending"
    /\ read' = "none"
    /\ io' = "error"
    /\ UNCHANGED <<mainVars, isOpen, last_read, buffer, wireVars, bootVars>>

\* on_receive: nothing is done on a closed port; an error starts the next read.
OnReceive ==
    /\ io \in {"received", "error"}
    /\ io' = IF ~isOpen THEN "run" ELSE IF io = "error" THEN "read_bytes" ELSE "bytes"
    /\ UNCHANGED <<mainVars, isOpen, last_read, read, buffer, wireVars, bootVars>>

\* Mutation of StoreByte: the byte is stored as its digits.
StoreByteRaw ==
    /\ io = "bytes"
    /\ buffer # <<>>
    /\ last_read' = IF Head(buffer) THEN "6" ELSE "other"
    /\ buffer' = Tail(buffer)
    /\ UNCHANGED <<mainVars, isOpen, io, read, wireVars, bootVars>>

StoreByte ==
    /\ io = "bytes"
    /\ buffer # <<>>
    /\ last_read' = IF Head(buffer) THEN "ack" ELSE "other"
    /\ buffer' = Tail(buffer)
    /\ UNCHANGED <<mainVars, isOpen, io, read, wireVars, bootVars>>

BytesDone ==
    /\ io = "bytes"
    /\ buffer = <<>>
    /\ io' = "read_bytes"
    /\ UNCHANGED <<mainVars, isOpen, last_read, read, buffer, wireVars, bootVars>>

\* read_bytes: is_open() first, the read afterwards.
CheckOpen ==
    /\ io = "read_bytes"
    /\ io' = IF isOpen THEN "start" ELSE "run"
    /\ UNCHANGED <<mainVars, isOpen, last_read, read, buffer, wireVars, bootVars>>

StartRead ==
    /\ io = "start"
    /\ io' = "run"
    /\ read' = IF isOpen THEN "pending" ELSE "failed"
    /\ UNCHANGED <<mainVars, isOpen, last_read, buffer, wireVars, bootVars>>

\* run() returns when no operation is outstanding.
RunReturns ==
    /\ io = "run"
    /\ read = "none"
    /\ io' = "ended"
    /\ UNCHANGED <<mainVars, isOpen, last_read, read, buffer, wireVars, bootVars>>

\* The board takes the next token; nobody hears its answer on a closed port.
BoardExecutes ==
    /\ line # <<>>
    /\ LET tok == Head(line)
       IN  \E v \in Values(tok), rest \in Rests(tok) :
              Consume(tok, v) /\ line' = rest \o Tail(line)
    /\ rx' = IF isOpen THEN rx \o reply' ELSE rx
    /\ UNCHANGED <<mainVars, isOpen, last_read, ioVars>>

Stopped == pc \in {"ended", "crashed", "asserted"}

MainStep ==
    \/ OpenPort \/ OpenPortRefused \/ SendSetup \/ ClearLastRead \/ PollAck \/ ResetLastRead
    \/ ReadBin \/ SendBurst \/ Jump \/ NoJump \/ Cancel \/ Close \/ Join

\* What the io_service thread does when it is scheduled, failures of the port apart.
IoThread ==
    \/ ReadCompletes \/ ReadAborted \/ OnReceive \/ StoreByte \/ BytesDone
    \/ CheckOpen \/ StartRead \/ RunReturns

IoStep == ~Stopped /\ (IoThread \/ ReadFails)

LegacyNext ==
    /\ MainStep \/ IoStep \/ BoardExecutes
    /\ UNCHANGED program

\* Both threads are scheduled, the board reads its UART, and the reads of an open
\* port that has something to read do not fail for ever, nor need any of them fail.
LegacySpec ==
    /\ LegacyInit
    /\ [][LegacyNext]_<<legacyVars, program>>
    /\ WF_legacyVars(MainStep)
    /\ WF_legacyVars(~Stopped /\ IoThread)
    /\ SF_legacyVars(~Stopped /\ ReadCompletes)
    /\ WF_legacyVars(BoardExecutes)

-------------------------------------------------------------------------------
LegacyTypeOK ==
    /\ BootTypeOK
    /\ pc \in {"open", "setup", "clear", "poll", "reset", "readbin", "upload", "cancel",
               "close", "join", "ended", "crashed", "asserted"}
    /\ port \in {"null", "garbage", "made"}
    /\ isOpen \in BOOLEAN
    /\ last_read \in {"zero", "ack", "other"}
    /\ offset \in Nat
    /\ pos \in 0..Len(Setup)
    /\ io \in {"none", "run", "received", "error", "bytes", "read_bytes", "start", "ended"}
    /\ read \in {"none", "pending", "failed"}
    /\ buffer \in Seq(BOOLEAN)
    /\ rx \in Seq(BOOLEAN)

(***************************************************************************)
(* Polling an unsynchronised last_read keeps uploader and board in          *)
(* lockstep: once the first ACK has been taken, no command is sent before   *)
(* the board has executed every earlier one whole and its ACK has left the  *)
(* wire, and without -r the port is not closed before that either.  (With   *)
(* -r it is closed right behind the j, whose ACK nobody waits for.)         *)
(***************************************************************************)
Lockstep ==
    \/ pc \in {"readbin", "upload"}
    \/ pc = "setup" /\ pos > 2
    \/ pc \in {"cancel", "close", "join", "ended"} /\ ~Runs
        => line = <<>> /\ rx = <<>> /\ cmd = "none" /\ last_read # "ack"

(***************************************************************************)
(* "finished uploading buffer": the whole image is in the flash by then.    *)
(***************************************************************************)
UploadedMeansStored ==
    pc \in {"cancel", "close", "join", "ended"}
        => \A i \in 1..Len(Image) : mem[Cell(i)] = Image[i]

(***************************************************************************)
(* However write_some cuts the commands, no cell of the image ever holds    *)
(* anything but its old contents, a blank or its own word: the uploader     *)
(* would rather wait for ever.                                              *)
(***************************************************************************)
StoredInPlace ==
    \A i \in 1..Len(Image) : mem[Cell(i)] \in {0, Blank, Image[i]}

(***************************************************************************)
(* The program ends, unless write_some took only a part of a command: then  *)
(* the board waits in the middle of it, and the uploader, which has no      *)
(* time-out, for its ACK.  No ACK is overwritten in last_read before it is  *)
(* seen, and close_port, which joins the io_service thread before it stops  *)
(* the service, returns whatever the thread was doing at the time.          *)
(***************************************************************************)
Ends == <>Stopped \/ <>[](pc = "poll" /\ cmd # "none")

(***************************************************************************)
(* The transfer is that of the buffer, as in the call of write_bytes kept   *)
(* in the comment of upload_bin: nothing is written beyond the image.       *)
(***************************************************************************)
NothingBeyondImage ==
    \A f \in Flash : f >= Address + FileBytes => mem[f] \in {0, Blank}

===============================================================================
