------------------------------- MODULE W2Upload -------------------------------
(***************************************************************************)
(* W2Uploader::upload from end to end: the script of commands it sends, the *)
(* client of SerialPortClient that waits at most a second for the ACK of    *)
(* each, the IOLoop thread that reads what the board answers, the close of  *)
(* the tty when main() destroys uploader and client, and the board's loader *)
(* of MiniBoot, which executes tokens as they reach it, however far behind  *)
(* the uploader it is.                                                      *)
(***************************************************************************)
EXTENDS SerialPortClient, MiniBoot, FiniteSets

CONSTANTS
    Image,        \* the words of the binary file
    ChunkWords,   \* words per chunk, 256 in the code
    MayCut,       \* bound: which commands "short" is about
    FaultModels   \* sets of what may go wrong: "short" and "error", what ::write may do
                  \* on the non-blocking tty, and "stale", bytes of an earlier session

EXECUTION_ADDRESS == 268435456     \* 0x10000000
SPECIAL_SEQUENCE  == 528482308     \* 0x1f800004
FLASH_UNLOCK      == 528485127     \* 0x1f800b07

num(v)  == <<"num", v>>
key(k)  == <<"key", k>>
part(d) == <<"part", d>>

Cell(i) == EXECUTION_ADDRESS + 4 * (i - 1)

\* Every number that upload() may send.
Numbers ==
    {EXECUTION_ADDRESS, SPECIAL_SEQUENCE, FLASH_UNLOCK, EraseAddr, 0, 1, 64, 165}
        \cup 1..ChunkWords \cup {Image[i] : i \in 1..Len(Image)}

\* The image lies in the flash, whose controller is elsewhere.
ASSUME UploadAssumption ==
    /\ FaultModels \subseteq SUBSET {"short", "error", "stale"}
    /\ Image \in Seq(Nat) /\ ChunkWords \in Nat \ {0}
    /\ EraseAddr \in Nat /\ Blank \in Nat
    /\ {key("newline"), key("a"), key("w")} \cup {num(v) : v \in Numbers \cup Mixed}
          \cup {part(d) : d \in 1..DIGITS} \subseteq Tokens
    /\ \A i \in 1..Len(Image) : Cell(i) \in Flash
    /\ \A i \in 1..ChunkWords : Cell(i) # EraseAddr
    /\ SPECIAL_SEQUENCE \notin Flash /\ FLASH_UNLOCK \notin Flash

VARIABLES
    faults,       \* which of FaultModels applies
    stage,        \* where upload() is: "flush", "send", "finished" or "aborted", and
                  \* then "closed", or "lost" if the close cut output off
    pos,          \* commands given to write() so far
    erased        \* history: has the erase command been executed?

scriptVars == <<faults, stage, pos, erased>>
w2Vars     == <<vars, bootVars, scriptVars>>

\* Mutation of Setup: the flash is not erased.
SetupWithoutErase == <<
    <<key("newline")>>,
    <<key("a")>>,
    <<key("w"), num(SPECIAL_SEQUENCE), num(1), num(64)>>,
    <<key("w"), num(FLASH_UNLOCK), num(1), num(165)>>,
    <<key("w"), num(FLASH_UNLOCK), num(1), num(165)>> >>

\* The commands of sendStart and setUpFlash: newline, console mode, disable the
\* special sequence, unlock the flash, erase it.
Setup == <<
    <<key("newline")>>,
    <<key("a")>>,
    <<key("w"), num(SPECIAL_SEQUENCE), num(1), num(64)>>,
    <<key("w"), num(FLASH_UNLOCK), num(1), num(165)>>,
    <<key("w"), num(EraseAddr), num(1), num(0)>> >>

\* Mutation of WriteCommand: the count is one too many.
WriteCommandOverCount(words) ==
    <<key("w"), num(EXECUTION_ADDRESS), num(Len(words) + 1)>>
        \o [i \in 1..Len(words) |-> num(words[i])]

\* bytesToLittleEndianHexString: the command for one chunk, address and count
\* first.  The address is the same for every chunk.
WriteCommand(words) ==
    <<key("w"), num(EXECUTION_ADDRESS), num(Len(words))>>
        \o [i \in 1..Len(words) |-> num(words[i])]

\* Mutation of WriteSize: the last word of the last chunk is left out.
WriteSizeShort(offset) ==
    IF Len(Image) - offset > ChunkWords THEN ChunkWords ELSE Len(Image) - offset - 1

\* upload: how many words the chunk at a word offset has.
WriteSize(offset) ==
    IF Len(Image) - offset > ChunkWords THEN ChunkWords ELSE Len(Image) - offset

Chunks == (Len(Image) + ChunkWords - 1) \div ChunkWords

Chunk(c) ==
    LET offset == (c - 1) * ChunkWords
    IN  SubSeq(Image, offset + 1, offset + WriteSize(offset))

\* The p-th command of upload().
Script(p) ==
    IF p <= Len(Setup) THEN Setup[p] ELSE WriteCommand(Chunk(p - Len(Setup)))

ScriptLength == Len(Setup) + Chunks

\* How many digits the i-th token of that command has: the words of the setup
\* have two, and the count is not padded.
Printed(p, i) ==
    CASE i = 3 -> Cardinality({k \in 0..7 : Script(p)[i][2] >= 16^k})
      [] i > 3 /\ p <= Len(Setup) -> 2
      [] OTHER -> DIGITS

\* What ::write may take of it: its first tokens, and digits of the next number.
Cuts(p) ==
    LET whole == Script(p)
    IN  {SubSeq(whole, 1, n) : n \in 1..Len(whole)}
          \cup UNION {{Append(SubSeq(whole, 1, n), part(d)) :
                          d \in {k \in 1..DIGITS : k <= Printed(p, n + 1)}} :
                        n \in 1..(Len(whole) - 1)}

W2Init ==
    /\ faults \in FaultModels
    /\ Init
    /\ "stale" \notin faults => rx = <<>>
    /\ BootInit
    /\ stage = "flush"
    /\ pos = 0
    /\ erased = FALSE

-------------------------------------------------------------------------------
(* upload(), on the upload thread. *)

\* tcflush fails: upload() throws.
FlushFails ==
    /\ stage = "flush"
    /\ stage' = "aborted"
    /\ UNCHANGED <<faults, pos, erased, vars, bootVars>>

FlushFirst ==
    /\ stage = "flush"
    /\ Flush
    /\ stage' = "send"
    /\ UNCHANGED <<faults, pos, erased, bootVars>>

\* client_.write of the next command: the tty takes all of it, or a part whose
\* length nobody looks at.
Send ==
    /\ stage = "send"
    /\ pos < ScriptLength
    /\ \E toks \in IF "short" \in faults /\ pos + 1 \in MayCut THEN Cuts(pos + 1) ELSE {Script(pos + 1)} :
          Write(toks)
    /\ pos' = pos + 1
    /\ UNCHANGED <<faults, stage, erased, bootVars>>

\* Mutation of SendFails: every exception is swallowed, as in the chunk loop.
SendFailsSwallowed ==
    /\ "error" \in faults
    /\ stage = "send"
    /\ pos < ScriptLength
    /\ WriteFails
    /\ pos' = pos + 1
    /\ UNCHANGED <<faults, stage, erased, bootVars>>

\* ::write fails.  An exception in setUpFlash leaves upload(); one in the chunk
\* loop is swallowed there and the offset advances.
SendFails ==
    /\ "error" \in faults
    /\ stage = "send"
    /\ pos < ScriptLength
    /\ WriteFails
    /\ IF pos < Len(Setup)
       THEN stage' = "aborted" /\ UNCHANGED pos
       ELSE pos' = pos + 1 /\ UNCHANGED stage
    /\ UNCHANGED <<faults, erased, bootVars>>

\* Mutation of FinishUpload: the end is counted as a command.
FinishUploadCounted ==
    /\ stage = "send"
    /\ pos = ScriptLength
    /\ main = "idle"
    /\ stage' = "finished"
    /\ pos' = pos + 1
    /\ UNCHANGED <<faults, erased, vars, bootVars>>

\* The last wait is over: "Finished upload!".
FinishUpload ==
    /\ stage = "send"
    /\ pos = ScriptLength
    /\ main = "idle"
    /\ stage' = "finished"
    /\ UNCHANGED <<faults, pos, erased, vars, bootVars>>

\* main() destroys uploader and client: the destructor closes the non-blocking
\* tty, with which go what was not read and, it may be, what was not transmitted.
\* (A last token cut in two does no more than one that is not there.)
CloseClient ==
    /\ stage \in {"finished", "aborted"}
    /\ rx' = <<>>
    /\ \E k \in 0..Len(line) :
          /\ line' = SubSeq(line, 1, k)
          /\ stage' = IF k = Len(line) THEN "closed" ELSE "lost"
    /\ UNCHANGED <<faults, pos, erased, callerVars, loopVars, sharedVars, bootVars>>

Closed == stage \in {"closed", "lost"}

-------------------------------------------------------------------------------
\* The board executes the next token and its answer goes to the host, if there is
\* one.
BoardExecutes ==
    /\ line # <<>>
    /\ LET t == Head(line)
       IN  /\ \E v \in Values(t.tok), rest \in Rests(t.tok) :
                Consume(t.tok, v) /\ line' = Carrying(rest, t.of) \o Tail(line)
           /\ rx' = IF Closed THEN rx ELSE rx \o Answering(reply', t.of)
           /\ erased' = (erased \/ (Erasing /\ EndsNumber(t.tok)))
    /\ UNCHANGED <<faults, stage, pos, callerVars, loopVars, sharedVars>>

\* The steps of the client's two threads.  Nothing is readable on a closed tty;
\* Upload has the callback that the close may overtake.
Waiting         == WaitStep       /\ UNCHANGED <<bootVars, scriptVars>>
DeadlineReached == DeadlinePasses /\ UNCHANGED <<bootVars, scriptVars>>
WokenForNothing == SpuriousWake   /\ UNCHANGED <<bootVars, scriptVars>>
Looping         == ~Closed /\ LoopStep /\ UNCHANGED <<bootVars, scriptVars>>

W2Next ==
    \/ FlushFails
    \/ FlushFirst
    \/ Send
    \/ SendFails
    \/ FinishUpload
    \/ CloseClient
    \/ Waiting
    \/ DeadlineReached
    \/ WokenForNothing
    \/ Looping
    \/ BoardExecutes

\* Host threads are scheduled, deadlines pass, and the board reads its UART.
W2Spec ==
    /\ W2Init
    /\ [][W2Next]_w2Vars
    /\ WF_w2Vars(FlushFirst \/ Send \/ FinishUpload \/ CloseClient)
    /\ WF_w2Vars(Waiting)
    /\ SF_w2Vars(DeadlineReached)
    /\ WF_w2Vars(Looping)
    /\ WF_w2Vars(BoardExecutes)

-------------------------------------------------------------------------------
W2TypeOK ==
    /\ TypeOK
    /\ BootTypeOK
    /\ faults \in FaultModels
    /\ stage \in {"flush", "send", "finished", "aborted", "closed", "lost"}
    /\ pos \in 0..ScriptLength
    /\ erased \in BOOLEAN

Flashed == [i \in 1..Len(Image) |-> mem[Cell(i)]]

(***************************************************************************)
(* Although every chunk outlasts its wait and the uploader runs ahead of    *)
(* the board, the two never lose step: each letter the uploader sends as a  *)
(* command reaches the board at its prompt, never inside a number; no stray *)
(* digit starts a bridge; and the main menu, where digits are commands of   *)
(* their own, only ever sees the newline and the a that leaves it.  This    *)
(* holds even if commands are lost whole to a failing ::write.              *)
(***************************************************************************)
InStep ==
    /\ mode \in {"menu", "console"}
    /\ line # <<>> /\ Head(line).tok[1] = "key" /\ cmd # "none"
          => Head(line).tok = key("newline")
    /\ mode = "menu" /\ line # <<>> => Head(line).tok \in {key("newline"), key("a")}

(***************************************************************************)
(* No word is stored in the program flash before the erase command has been *)
(* executed: a setup command that ::write loses ends the upload, although a *)
(* chunk that it loses does not.                                            *)
(***************************************************************************)
EraseFirst == ~erased => \A f \in Flash : mem[f] = 0

(***************************************************************************)
(* Unless the close cuts output off, the program leaves the board to the    *)
(* next session as it would find it after a reset or at its prompt: nothing *)
(* of a command is left on the line, and no command waits for words, in     *)
(* whatever order waits timed out, commands were lost whole to a failing    *)
(* ::write, the upload aborted and the tty was closed.                      *)
(***************************************************************************)
NextSessionReady ==
    \/ <>(stage = "lost")
    \/ <>[](stage = "closed" /\ line = <<>> /\ cmd = "none" /\ mode \in {"menu", "console"})

\* Does ::write take every command whole?
WritesWhole == faults \cap {"short", "error"} = {}

Transfer == INSTANCE ImageTransfer WITH
    cells  <- IF WritesWhole THEN Flashed ELSE Image,
    erased <- WritesWhole /\ erased

(***************************************************************************)
(* When ::write takes commands whole, what the upload does to the flash is  *)
(* a transfer of the image: erase once, then word after word in place,      *)
(* whatever was left of an earlier session.                                 *)
(***************************************************************************)
TransfersImage == Transfer!Safety

(***************************************************************************)
(* Such an upload leaves the whole image in the flash, unless it aborts or  *)
(* the close, which waits for nothing, finds output that was not            *)
(* transmitted and cuts it off.                                             *)
(***************************************************************************)
ImageArrives == <>(stage \in {"aborted", "lost"}) \/ <>[]Transfer!Complete

(***************************************************************************)
(* The ACKs tell the truth even though upload() does not count them: if as  *)
(* many were read as the script has w commands, then every command reached  *)
(* the board whole and a one-chunk image is in the flash, whatever ::write  *)
(* cut off or refused on the way.  (An ACK of an earlier session would be   *)
(* counted too if it was read before the flush.)                            *)
(***************************************************************************)
AckedMeansStored ==
    acksRead = ScriptLength - 2 /\ "stale" \notin faults => Flashed = Image

(***************************************************************************)
(* "Uploads the binary data": once upload() has finished and the board has  *)
(* executed all that was sent, the image is in the flash.                   *)
(***************************************************************************)
SettledMeansStored == stage = "finished" /\ line = <<>> => Flashed = Image

===============================================================================
