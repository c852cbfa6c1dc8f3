# TLA+ models of the W2 upload tools and the board's boot loader

This directory specifies and checks the programs with which a binary is written
to the flash of a W2 board over a serial line, and the loader that receives it:

* `W2Uploader/`: the current macOS uploader. One thread writes commands to the
  tty and waits for ACK bytes, another (`IOLoop`) reads the tty through a kqueue.
* `SerialPortMac/`, `SerialPortWindows/`: the two older uploaders on
  `boost::asio`.
* `Binary/miniboot.s`: the disassembled boot loader of the board, with its menu
  and its command console (the copies in `SerialPortMac/Binary` and
  `SerialPortWindows/Binary` are identical).

* `Test/SerialPort.cpp`: a line reader on `boost::asio`.

TLC checks small instances of every module. TLAPS proves, for all values of their
constants, the safety results about the client, the whole upload program, the
pauses, the line reader and the loader, and about both generations of uploaders
composed with the loader: what keeps them in step with the board, that the image
ends up in the flash, and that the upload of one chunk implements the abstract
transfer.

## 1. The system

### Components

| Component | State | Operations | Talks to |
|---|---|---|---|
| `SerialPortClient` | `isWaitingForAck_`, `mutex_`, `ackReceived_`, the tty | `write`/`writeChunk`, `flush`, `waitForAck` (upload thread); `onReadable` (IOLoop thread) | tty; the flag and the condition variable are shared by the threads |
| `IOLoop` | kqueue, `handlers_` | `run`, `registerHandle` | calls `onReadable` through a stored callback |
| `Upload.m.cpp` | life of the two threads and of the uploader object | `main` | constructs and destroys the client, joins the loop |
| `W2Uploader` | the file, the offset in it | `upload`, `sendStart`, `setUpFlash`, `bytesToLittleEndianHexString` | `client_.write`, `client_.flush` |
| `SerialPortUploader` | file buffer | `readBinaryFile`, `upload` (overridden) | base class of `W2Uploader` |
| Loader console | the command in progress, flash | `w s j l r R`, `d` and `i` bridges | UART |
| Loader menu | function, address, the word of a download | keys `1` to `9`, `a`, bridges; raw download | UART, flash |
| Legacy uploaders | `last_read`, `port`, the `io_service` thread | `open_port`, `write_bytes`, `wait_for_ack`, `set_up_flash`, `upload_bin`, `jump`, `close_port` | tty; `last_read` is shared without a lock |
| `Test/SerialPort` | `port_`, `mutex_`, `read_buf_raw_`, `read_buf_str_`, the `io_service` with its detached threads | `start`, `stop`, `on_receive_` | the serial port, read only |
| `MockResponder.py` | none | reads, answers one ACK | stands in for a board |

The rest of the repository (a vendored MIPS compiler, package indexes,
`example.c`) contains no logic of these programs.

### What is hard here

* **Two threads, one flag.** `writeChunk` stores `isWaitingForAck_ = true` after
  `::write` and without the lock. `onReadable` clears it under the lock. The ACK
  can be read before, during and after the store, and while the deadline passes.
* **Late ACKs.** The wait lasts one second. A chunk of 256 words takes about
  2.4 s at 9600 baud, so its ACK regularly arrives while a *later* write waits.
  `write` only logs a time-out and `upload` goes on.
* **A board that cannot be resynchronised.** `getHex` accepts any letter as a
  digit and the console has no frame markers, so one token too many or too few
  makes the board read commands as data or data as commands.
* **Silent partial writes.** Nobody checks how much of a command `::write` or
  `write_some` took.
* **A close that waits for nothing.** The client is destroyed, and the
  non-blocking tty closed, as soon as `upload` returns, at most a second after the
  last chunk of 2.4 s was given to it. What was not transmitted then may be lost,
  and later ACKs are read by nobody. The old uploaders close as soon behind `j`.
* **Lifetime.** The callback in `handlers_` outlives the client it points to.
* **A board that is deaf while it prints.** The menu has 342 characters. What
  arrives meanwhile waits in the UART or is lost, and only the uploaders' pauses
  prevent it.
* **Ends by silence.** The raw download has no length: it ends when nothing came
  for 10000 polls, and only between words.
* **A reader that is stopped and started again.** `stop` resets the `io_service`
  while a thread may still be in `run`, an aborted read may complete in the next
  session, and `start` creates its thread before there is work for it.
* **Polling.** The old uploaders poll a plain variable that another thread
  overwrites with every byte, and have no time-out.

The full list, with lines and the properties that cover each item, is
`hazards` in `PROJECT.json`.

### What makes each component correct

* Client: no wake-up is lost, no ACK satisfies two waits, a wait succeeds if and
  only if an ACK was read since the flag was set, and every wait ends.
* Life of the program: no event without a handler, a bounded number of callbacks
  on the dead client, no hang when the loop dies.
* Upload: uploader and board stay in step however far the uploader runs ahead;
  erase before program; the image arrives unless the close cuts it off; the next
  session finds an empty line; a full count of ACKs is proof of the image.
* Loader: each command stores what its text means and takes exactly the numbers
  it announced; a download stores the words that were sent before the silence
  that ended it, and ends.
* Pauses: no character is lost and no command falls into the menu.
* Line reader: lines whole and in order, no more reads than calls of `start`,
  threads that leave `run` after `stop`.
* Text: what the uploaders write is what `getHex` reads.
* Legacy: lockstep by polling, only the image's own words in its cells, a
  shutdown that returns.

## 2. Modules

```
 AckService  <--refines--  SerialPortClient  <--EXTENDS--  Upload        Pacing      LineReader
                                  ^   ^                       ^             ^            ^
                 SerialPortClient-|   |                    Upload-      Console-     LineReader-
                 Proofs           |   |                    Proofs       Proofs        Proofs
                                      |
 ImageTransfer <--refines--       W2Upload ----EXTENDS---> MiniBoot <--EXTENDS-- MiniBootCommands
                                                              ^                       ^
                                                              +--- LegacyUpload   MiniBootMenu <-- MiniBootProofs

 HexCodec (justifies MiniBoot's tokens) <-- ConsoleProofs (about Pacing and HexCodec)

 BoardProofs (about MiniBoot) <-- LegacyUploadProofs (about LegacyUpload)
                              <-- W2UploadProofs (about W2Upload, EXTENDS SerialPortClientProofs)
```

**`AckService`** is the abstract promise of a wait: `Arm`, then ACKs may arrive,
then `Succeed` (only if one arrived since `Arm`) or `GiveUp` (only if none did).

**`SerialPortClient`** is `SerialPortClient.cpp`, one action per step that another
thread can interleave with.

| Code | TLA+ |
|---|---|
| `::write` took (part of) a command / failed | `Write(toks)` / `WriteFails` |
| `tcflush` | `Flush`: input dropped, output cut at any point |
| `isWaitingForAck_ = true` | `Arm` |
| `unique_lock`, `wait_for` with a predicate | `Lock`, `ReturnAcked`, `ReturnTimeout`, `Commit` (about to sleep), `Block` (asleep, lock released), `DeadlinePasses`, `SpuriousWake` |
| `kevent`, handler call | `Kevent`, `Dispatch` |
| `::read`, `lock_guard`, the scan, `notify_all` | `Read`, `LoopLock`, `ScanAck`, `Notify`, `ScanOther`, `LoopUnlock` |
| the board (external; `MockResponder.py` is one) | `Board`: consumes a token, answers any sequence of `Replies` |

`Commit` and `Block` are separate although both happen in `wait_for` with the
lock held: a library that released the lock before the thread was queued would
lose wake-ups, and `NoLostWakeup` is about that window. A byte carries, in the
model only, the ordinal of the write it answers. `acksRead`, `lastAck` and
`successes` are history variables, never read by a guard.

`isWaitingForAck_` is a plain `bool` that is stored outside the lock, a data race.
In the model a load or a store of it is one step, and the unlocked store may fall
between any two steps of the other thread: every outcome that a one-byte object
can show in a build that keeps the accesses in their places, which the system
calls and the lock around them make the compiler do.

**`Upload`** puts `main()` and `IOLoop` around the client: start of the thread,
`openSerial`, the two steps of `registerHandle`, any calls of the client,
destruction, join. A callback on the destroyed client (`DeadCallback`) is
undefined behaviour: it returns or it crashes the process.

**`MiniBoot`** is the console of the loader and as much of the menu as leads to it.
Its input is tokens: a letter (or a terminator alone), the digits of a number with
their terminator, or a `part`, the first digits of a number that was cut. `getHex`
takes letters for digits, so letters and parts met inside a number run into the
number that follows: `digits` counts the characters read, `Values` gives what the
number may be, and `Rests` what `getHex` leaves when it returns at its limit of
`MAX_DIGITS` characters (the surplus digits, or the terminator, are then numbers of
their own). `HexCodec` justifies it: what precedes `DIGITS` digits does not change
their low bits up to the limit. The value of a number made of letters and parts is
any of `Mixed`. `BootInit` is a board that was reset (the uploader's usage text asks
for it) or that an earlier session left at its prompt, which is how `W2Upload`
leaves it by `NextSessionReady`; after a close that cut output off the board has
to be reset, and a board left in the middle of a command is not a starting state.
Only the words of flash in `Flash` are kept, a store to
`EraseAddr` erases them (the flash controller is external), addresses do not
wrap. **`MiniBootCommands`** feeds it every sequence of tokens and interprets the
same sequence a second time as commands with a meaning: the word given for a
cell, unless a later word of the same command went to the flash controller and
erased it. The meaning is said of every moment, not only of the end of a command.

**`MiniBootMenu`** is the main menu around that console. A digit selects a
function, each of which reads an address first; some read an operand, one jumps,
one downloads. The download keeps the word being assembled, the address of the
next one, the count of bytes and the bytes discarded after the end (`load`, the
registers `s0` to `s3`). A silence, 10000 polls without a character, is one
action, `PollsRunOut`, that means something different in each phase. `sent` keeps
the bytes that were sent and `silences` how many had been when the sender paused,
and from these two `DownloadMeans` says a second time, byte by byte, what each
cell holds.

**`Pacing`** counts time in characters of 9600 baud (a second is 960). The host
sends a newline, an `a` and the commands of the setup with the pauses of the old
or of the new uploader; the board takes characters from a UART that holds `Depth`
of them and takes none while it prints. The pauses are lower bounds, since
threads may be late, and the board may have been switched on at any time before.
The new uploader's wait is counted in full when no ACK comes: the model assumes
that no ACK of an earlier session shortens it.

**`LineReader`** is `Test/SerialPort.cpp`: the thread that calls `start` and `stop`
one step a statement that matters, and each detached thread in `run`. The
`io_service` (external) is its work count, its stopped flag and its queue of
completed operations. `lines` is the text of the lines delivered, each with the
character that ended it. `arrived`, `sent`, `before`, `carried` and `heard` are
history variables.

**`ImageTransfer`** is the abstract upload: erase once, then word after word in
place. **`W2Upload`** is `W2Uploader::upload` composed with the client's two
threads and the board. `Script` is what `upload` sends, `Send`/`SendFails` what
`::write` does with it (an exception in the setup leaves `upload`, one in a chunk
is swallowed and the offset advances), `BoardExecutes` one token of the loader. A
short write takes any first bytes of a command (`Cuts`): whole tokens and, of the
next number, a part of as many digits as the code prints for it. `CloseClient` is
the destructor behind `upload`: nothing is readable any more, and of the line any
part from its end may be lost (`stage` is then `lost`, otherwise `closed`); the
board goes on with what is left. The callback that the close may overtake is in
`Upload`.

**`HexCodec`** works on characters: both uploaders' text of a `w` command, `xtoa`,
and `getHex` one character a step, with its backspace and its limit of 16
characters. The size of a word and the limit are constants, and so are the
addresses, the bytes, the counts, the numbers and what may stand before a command.
`AddressRead` says what becomes of an address with so many characters before it: it
is read as it is, or, when they fill the number up, a zero for its terminator
follows, or it loses its last digit to a number of its own.

**`LegacyUpload`** is `main()` of the two old programs with the `io_service` thread
and the same board. `Programs` tells the two apart: setup commands, burst sizes,
and whether `open_port` tests the pointer (on Windows the test is commented out).
`open_port` may fail, throw from `set_option`, or find a pointer that was never
initialised; `write_some` may fail on an open port, which the assertion then
catches, or take a part; a read may end with an error at any time. A cut inside a
number is not told from one before it: either way the number has no end, no ACK
comes, and nothing is sent any more. The file need not be whole words (`FileBytes`).
That a store reaches the flash without the unlock and the erase, as the Windows
program needs it, is an assumption about the board.

`MC*.tla` give the instances, `MC*.cfg` the constants of the runs.

## 3. Runs

| Run | Question | Result |
|---|---|---|
| `client` | the whole program: type, `NoLostWakeup`, `AckSpentOnce`, `NoEventBeforeHandler`, `OneStaleCallback`, `KeepsPromise` (refines `AckService`), `EveryWaitEnds`, `SurvivesLoopDeath` | hold |
| `client_own_ack` | does `true` mean that *this* command was ACKed? | **no**: a late ACK counts for the next write |
| `client_timeout` | does a time-out mean that no ACK came? | **no**: an ACK read between `::write` and the store of the flag is forgotten |
| `boot` | menu, console and download: type, `StoresWhatIsMeant`, `TakesWhatItAnnounced`, `DownloadMeans`, `OnlyPartialWordsHang` | hold |
| `w2_image` | one chunk: type, refines `ImageTransfer`, `ImageArrives`; with short and failing writes `AckedMeansStored` | hold |
| `w2_chunks` | two chunks, failing writes: `InStep`, `EraseFirst`, `NextSessionReady` | hold |
| `w2_settled` | two chunks: is the image in the flash in the end? | **no**: every chunk goes to 10000000 |
| `codec` | `Decoded` | holds |
| `legacy` | type, `Lockstep`, `UploadedMeansStored`, `StoredInPlace`, `Ends` | hold |
| `legacy_beyond` | does the upload stay within the image? | **no**: bytes are compared with words |
| `lines` | type, `WholeInOrder`, `OneReadPerStart`, `FailedOpenIsFinal`, `AllOrNothing`, `ThreadsEnd` | hold |
| `pacing` | `NothingOverrun`, `NeverAstray`, `SetupEnds` | hold |

What they show together. The uploader's waits are nearly meaningless one by one
(`client_own_ack`, `client_timeout`), and `upload()` ignores them; still nothing
is lost on a line that takes every command whole and is not closed over queued
output, because the board executes tokens in order and the script never depends on
an answer (`w2_image`, `InStep`). A count of the ACKs would turn them into a
reliable verdict even with short writes (`AckedMeansStored`). What the close does
to output that is still queued is up to the tty, and the code waits for nothing:
`ImageArrives` and `NextSessionReady` hold of closes that lose nothing, and say
that the program's own order of steps needs no more than that.

Three more facts were met while modelling and have no run of their own. In
`Test/SerialPort` some of the statements hold only as they are qualified: a
session whose thread found no work hears nothing (`AllOrNothing` starts with the
first read handled), a read aborted by `stop` starts a second read of the next
session into the same buffer (`WholeInOrder` excludes such sessions,
`OneReadPerStart` bounds their number), and a second `stop`, as the destructor
makes, may strand a thread (`ThreadsEnd` is about the first). After a successful
upload the program does not end, since `IOLoop::run` has no exit but a failing
`kevent`. With short writes the setup may be cut three times in a row such that
words are programmed before the erase, so `EraseFirst` is checked for writes that
fail whole.

### Bounds

* `client`: three writes. A late ACK needs two, an ACK that is late for two
  writes in a row three, and one more is in flight when the client dies. Replies
  are none, one ACK, a byte and an ACK, or two ACKs, so a board may be mute, fast
  or talkative; `ReadMax = 2` splits answers over reads.
* `boot`: eight tokens: a complete `w` with two words followed by another
  command, or a function of the menu and two commands. Three words are flash, at 2, 4 and 10,
  and 6 is the controller, so a command of three words to 2 stores, erases and
  stores again. Numbers include 0, a count, addresses of flash, from which a
  command reaches the others, and one with a digit d. Words of a download have two
  bytes, so that one to 4 stores a word and erases it with the next; its limit is
  two words and two bytes are discarded after it: six bytes pass the limit and the
  end of the discarding. Numbers have `DIGITS = 2` digits and `getHex` stops at
  `MAX_DIGITS = 4`, the ratio of 8 and 16; letters and parts of one and two digits
  before a number stop short of the limit, meet it and pass it. `Mixed = {2, 4}`: such
  a number may be a count or an address of flash.
* `lines`: two sessions and two calls of `stop`, three characters, a buffer of
  two: a line over two reads, an operation left over from the first session, a
  second `stop` with a thread still running.
* `pacing`: the real lengths and pauses, three commands, a UART of one character.
* `w2_*`: chunks of 2 words and an image of 3 give a full and a partial chunk.
  `w2_image` has one chunk; `FaultModels` says which faults may occur together:
  stale bytes on the line, or writes that fail and are cut. `MaxWrites` is the length of the script. `MayCut`
  names the commands that a short write may cut: the first store of the setup and
  the chunk, so that a cut is followed by commands or by nothing. `DIGITS` and
  `MAX_DIGITS` are as in `boot`; `Mixed = {0, 1}` lets a number made of leftovers be
  a count that ends the command at once or after a word.
* `codec`: words of 2 bytes and a limit of 8 characters; the ratio of digits and
  limit is that of the code (8 and 16). Commands of 0, 1 and 2 words of the bytes
  0, 6, 13, 128 and 255 (one digit, two, a return, the sign, all bits); numbers on
  both sides of a change in the number of digits; up to two characters before the
  `w`, and as many as fill the number up; the least full-width address and one of
  letters. `CodecReadsBack` holds for all of them.
* `legacy`: bursts of 5 (Mac) and of 5 and 25 (Windows) for 16 and 16/256, and an
  image of 31 words, the last of them half in the file: on Windows a large burst, a small one and a single word, on
  the Mac six small ones and a word. `legacy_beyond` has an image of 3 words.

No run uses symmetry.

### Fairness

* Each host thread: weak fairness of its steps. Both are ordinary threads of the
  operating system, and the mutex is held for bounded scans only.
* `DeadlinePasses`: strong fairness. The deadline is absolute, so it passes even
  if answers keep waking the thread, whose place in `wait_for` then alternates.
* The board in `W2Upload` and `LegacyUpload`: weak fairness, it runs a loop on its
  UART. In `SerialPortClient` and `Upload` it has none: a mute board is allowed,
  and `EveryWaitEnds` and `SurvivesLoopDeath` hold all the same.
* `MenuSpec`: weak fairness of `Pause` only. A silence that lasts is seen, because
  the loader polls the UART in a loop; nobody has to send anything.
* `LineSpec`: weak fairness of a call that was begun, of each thread in `run`, and
  of the completion of a read when there are characters. Nobody has to call
  `start` or `stop`, and nothing has to arrive.
* `PacingSpec`: weak fairness of the host's next command, of the board's taking a
  character and of time.
* `ReadCompletes` in `LegacyUpload`: strong fairness. A read may fail any number of
  times, but not always while bytes are there, and none has to (`IoThread` is what the
  handler thread does without `ReadFails`).
* `CloseClient`: weak fairness, `main` destroys the client when `upload` is over.
* Nothing makes `kevent`, `::write` or `openSerial` fail. `W2Spec` has weak
  fairness of `upload`'s next step in its successful form; a failure may always
  come first.

## 4. Proofs

Each theorem holds for every value of the constants that satisfies the module's
assumption (types, positive sizes, and for the uploaders that the image lies in
the flash and the controller's registers do not).

| Module | Theorem | Statement |
|---|---|---|
| `SerialPortClientProofs` | `TypeCorrect` | `Spec => []TypeOK` |
| | `WakeupNeverLost` | `Spec => []NoLostWakeup` |
| | `AckNeverSpentTwice` | `Spec => []AckSpentOnce` |
| | `ClientImplementsService` | `Spec => KeepsPromise` |
| `UploadProofs` | `ProgramTypeCorrect` | `UploadSpec => []UploadTypeOK` |
| | `ProgramLosesNoWakeup` | `UploadSpec => []NoLostWakeup` |
| | `ProgramSpendsAckOnce` | `UploadSpec => []AckSpentOnce` |
| | `HandlerBeforeEvent` | `UploadSpec => []NoEventBeforeHandler` |
| | `StaleCallbackOnce` | `UploadSpec => []OneStaleCallback` |
| | `ProgramImplementsService` | `UploadSpec => KeepsPromise` |
| `ConsoleProofs` | `PausesSuffice` | `PacingSpec => []NothingOverrun` |
| | `CommandsFindConsole` | `PacingSpec => []NeverAstray` |
| | `CodecReadsBack` | `CodecSpec => []Decoded` |
| `LineReaderProofs` | `ReadsBounded` | `LineSpec => []OneReadPerStart` |
| | `LineTypeCorrect` | `LineSpec => []LineTypeOK` |
| | `FailureIsFinal` | `LineSpec => FailedOpenIsFinal` |
| | `LinesWholeInOrder` | `LineSpec => []WholeInOrder` |
| `MiniBootProofs` | `CommandsAreFramed` | `MenuSpec => []TakesWhatItAnnounced` |
| | `MenuTypeCorrect` | `MenuSpec => []MenuTypeOK` |
| | `CommandsStoreWhatTheyMean` | `MenuSpec => []StoresWhatIsMeant` |
| | `DownloadStoresWhatWasSent` | `MenuSpec => []DownloadMeans` |
| `LegacyUploadProofs` | `LegacyTypeCorrect` | `LegacySpec => []LegacyTypeOK` |
| | `UploaderInLockstep` | `LegacySpec => []Lockstep` |
| | `NoWordMisplaced` | `LegacySpec => []StoredInPlace` |
| | `FinishedMeansStored` | `LegacySpec => []UploadedMeansStored` |
| `W2UploadProofs` | `W2TypeCorrect` | `W2Spec => []W2TypeOK` |
| | `BoardStaysInStep` | `W2Spec => []("short" \notin faults => InStep)` |
| | `NothingStoredBeforeErase` | `W2Spec => []("short" \notin faults => EraseFirst)` |
| | `AcksMeanStored` | one chunk: `W2Spec => []AckedMeansStored` |
| | `UploadTransfersImage` | one chunk: `W2Spec => TransfersImage` |

`BoardProofs` holds the lemmas about `MiniBoot` that the last two share: what one
token does to the types, and that a token of a `w` command takes the board from
having executed `k` of its tokens to `k + 1` (`Taking`), stores the word that the
token is, and answers the last one with an ACK.

Two hypotheses are not in the assumptions. `"short" \notin faults`: a write that
the tty cuts breaks `InStep` at once, and cut three times breaks `EraseFirst`, so
both are checked and proved for writes that are whole or fail. One chunk,
`Len(Image) <= ChunkWords`: the program sends every chunk to the same address, so
a longer image is not in the flash in the end (`w2_settled`) and the two theorems
would be false. Nothing is assumed of the pace of the board, of when waits end, of
stale bytes, nor, in `AcksMeanStored`, of what `::write` cuts or refuses.

### The arguments

**The client.** `IInv` is `TypeOK /\ LockOwned /\ CommittedWaits /\ NoLostWakeup /\
AckSpentOnce`. `NoLostWakeup` alone is not inductive. `LockOwned` ties the owner
of `mutex_` to the two program counters, so `ScanAck` cannot happen while the
upload thread is between its test and its sleep; `CommittedWaits` says that in
this window the flag it tested is still set, which is what the test established
and only the lock preserves. `AckSpentOnce` compares the number of successful
waits with the number of ACKs read, plus the wait in progress; it is inductive
with `TypeOK` because only `ScanAck` clears the flag. The refinement uses `IInv`
in both states: each of the actions maps to one of `AckService` or to a stutter.

**The program.** A step of `Upload` is a step of the client, leaves the client
alone, or is the callback on the destroyed client; so `IInv` and the refinement
carry over, and what is new in `LifeInv` is about the life. `EventsOfTheClient`
says that the loop is out of `kevent` only for a descriptor that was registered,
and `Registration` that a registered descriptor has its handler, which together
give `NoEventBeforeHandler`. `DeadOnce` says that after the one stale callback
the loop is back in `kevent` with nothing registered.

**The pauses.** `NothingOverrun` does not mention time, so the invariant is a
budget per thing sent: the characters still to be printed are bounded by what is
left of the pause plus a debt that the next pause pays (at most 249 characters of
the menu outlast the first pause, and fit into the second with the greeting).
After the third command begins, a character is taken as soon as it comes.

**The text of a command.** `Decoded` speaks of the end only. `ReadInv` says of every
moment that what is still to be read leads, from what has been read, to the numbers
that were meant. `Reads(t, s, u)`, reading `t` leads from `s` to `u`, is a walk
through `After`, which is `getHex` as a function of the character and of what it
has read so far (`StepReads`); one step takes the first character off the walk, so
the invariant is kept at once and the work lies in showing that it holds in the
beginning. There `ReadsBoth` puts the walks of two texts behind one another, so a
text is read part by part: `Spells(t, n)` says that `t`, read after anything that
leaves room for it, adds its digits to the number and stands for `n`. The digits
of a number spell it (`HexNumberSpells`, `xtoaSpells`), the bytes of a word its
little-endian value (`WordSpells`), and a terminator makes a number of it
(`FieldReads`). The `w` and what stands before it spell some number, too, and the
`DIGITS` digits of the address shift it out (`JunkSpells`, `Multiples`);
`CodecAssumption` lets them be as many as `MAX_DIGITS` has room for without one of
those digits, in the code's numbers eight characters before the `w`, so `AddressReads`
has a case for the address whose end is at the limit and one for the address that
is split there. Words, word values
and texts are recursive functions over an interval: each exists because a step
given as a function has a solution (`Recursion`), and is then what its equation
says. `HexNumber` recurs from `n` to `n \div 16`; it is put together from
functions on intervals, which agree where they meet (`ApproximationsExist`,
`ApproximationsAgree`). Induction is the least number principle again
(`AllNumbers`: a set of numbers that has 0 and the successor of each of its
members has all), so no theorem that takes an operator is needed.

The facts about powers of two that this and the download use are in both proof
modules: `HexCodec` and `MiniBootMenu` have names in common (`Bytes`,
`Numbers`), so neither proof module can extend the other.

**The line reader.** `OneReadPerStart` is not inductive while a call of `start` is
about to add its read; `Budget` counts that read in. `Handle` gives up the
operation it came from and may start one, so the sum does not grow.
`FailedOpenIsFinal` is a leads-to, but of a safe kind: `Refused`, once true, is
kept by every step, and the temporal prover does the rest.

`WholeInOrder` reads one buffer that several operations may share, so `TextInv`
says first whose it is: a session that began without an operation never has more
than one (`InOrder`), because `start` adds its read while there is none and each
handler gives one up for the one it starts. Whatever is completed or in a
handler's hands fits into the buffer (`Buffered`), and nothing waits in a port
that is not open (`Waiting`). Taking an operation then leaves text, buffer and
port as they are, a read moves characters from the port to the buffer, and a
handler from the buffer to the text (`Splitting`: a text cut after its last end
of line is the same text, cut). That there is a last end of line is the least
number principle again (`LargestNumber`).

**The console.** `FramingInv` says that the numbers the console has kept for the
command in progress are those the history has, and that they are not yet all
there; a command whose numbers are complete is finished in the same step. The
menu, its functions and the download leave this alone. `StoresWhatIsMeant` is
inductive with it and with the types once it is said of every moment: each data
word is the latest of its command, so it decides its own cell, or it is an erasure
and takes the words before it out. That `s` keeps its base needs `base` to equal
`Target` of the numbers kept, which holds from the moment its header is complete.

**The download.** `DownloadInv` ties the registers to the number of bytes sent
(`Position`: the index of the word in progress plus the bytes it has; and that the
discarding begins only at the limit or after a silence between two words) and says that the bytes of the word in
progress are the uppermost of the register (`Partial`) and that each cell holds
the bytes sent for it (`AsSent`), unless a later word went to the controller.
`ByteEnters` is the arithmetic of one byte: a shift moves the bytes before it one
place down and puts it at the top, so that after a full word the first byte sent is
the lowest. It needs powers of two to multiply, and since the prover knows no
exponent rules a power is counted as a number of subsets (`PowerOfSum`, by a
bijection). `WholeWords` says which words a new byte completes, and `SentAt` says
of one cell what `AsSent` says of all. Neither a silence nor a byte
after the end changes which words count.

**The old uploaders.** `IInv` is `TypeInv /\ HandlerInv /\ StoredInPlace /\ Phase`.
`Phase` has one disjunct per stretch of `main()`. While it polls, either the board
has executed the first `j` tokens of the one command under way, the line holds a
part of the rest and no ACK is anywhere (`Bursting`, `SettingUp`), or the board
has executed all and exactly one ACK is on its way, last in the line, last in the
buffer of the handler, or in `last_read` (`AckComing`). So an ACK that is polled
leaves nothing behind it, which is `Lockstep`. `Frontier(k)` says that the image
is stored up to its k-th word: a burst that runs past the image stores what the
heap holds behind it above the frontier, and `LegacyAssumption` says that this
does not reach the controller's registers.

**The new uploader.** Nothing ties its position to the board's. The invariant
`UploadInv` says that there is a history: a function `sigma` from the ordinal of a
write to the command of the script it sent (lost commands are skipped), and a
function `at` that gives every token on the line its write and its place in it,
`at[0]` being the token executed last. `OnTheLine` says that neighbours on the
line follow one another, and `InStepAt` that the board has executed its command up
to `at[0]` and no further; `ErasedAt` and `ImageAt` read the state of the flash off
that position. A `Send` extends `sigma` and `at`, a step of the board shifts `at`.
A piece of a number that was cut is on the line, too, as a position that is not
`exact`. With short writes the board may be anywhere after it, at the limit of
`getHex` it may even read a token twice, and `AcksMeanStored` then needs only what
`InOrder` keeps in any case: tokens come in the order of the writes, and a `w` is
the first of its write. An ACK carries the write whose token ended the command it
answers, and between two ACKs the board has taken another `w`, so ACKs on the wire
are in order with no two of a write (`AcksAt`); once a command was cut, some write
will never have one (`Unanswered`), so a full count of ACKs is impossible. The
invariant is the disjunction: the board is in step, or some write is unanswered.
The close cuts the line to a prefix, which keeps all of it except that the last
token is the last one sent.
For `TransfersImage` each execution of a token is an erase, the store of the next
word, or a stutter of `ImageTransfer`.

That among the burst sizes that fit there is a largest rests on the least number
principle, which `LeastNumber` derives from the library's `WFMin`: induction over
numbers needs no theorem that takes an operator.

### Only model-checked

* Liveness under fairness (`EveryWaitEnds`, `SurvivesLoopDeath`, `ImageArrives`,
  `NextSessionReady`, `Ends`, `OnlyPartialWordsHang`, `AllOrNothing`, `ThreadsEnd`,
  `SetupEnds`): the prover has no rules for `WF` and `SF`, which need `ENABLED`.
* The findings: they are single behaviours, which TLC shows.

## 5. Not modelled

* `SerialPortUploader::readBinaryFile` allocates `new char(fileSize)`, one char:
  undefined behaviour from the first byte read. `W2Upload` starts with the words
  of the file in memory, as intended.
* `W2Uploader::startExecute`, which nothing calls, and
  `Test/SerialPort::write_some`, which changes nothing of the reader.
* The loader's bridges: endless loops that pass bytes between the UART and the
  registers of other devices, whose answers are not in the repository. In the
  models a bridge is a place where input disappears. The autobaud routine, to
  which nothing in the listing jumps. Reset and interrupt code: registers are
  saved and device registers set whose meaning the repository does not give.
* The destruction of a `Test/SerialPort` object while a detached thread is still
  in `run` (undefined behaviour): the models end with the last `stop`.
* A board that starts in the middle of a command or of a number (`BootInit`).
* ACKs lost on the serial line itself: a board that answers is heard as long as
  the port is open. The old uploaders would wait for ever, as they do for a command
  that was cut (`Ends`).
* The crash or the failed assertion of the old uploaders as a property: both are
  steps of the model, which ends there.
* A second `stop` of the line reader as a property: the model has it, but the code
  gives it no guarantee.
* A stale ACK that shortens the new uploader's waits in `Pacing`; `W2Upload` has
  stale ACKs, without time.
* Everything else in the repository: it consists of a vendored MIPS GCC (its
  plugin headers alone are more than a hundred thousand lines), package indexes
  and an example. The first-party code is about a thousand lines of C++ and
  Python and the loader's listing of 2081, of which more than half is data,
  reset code and device access. So the share of all lines of the repository
  that models can cover is below one in a hundred, however much is modelled.

## 6. Plan

The modules above exist, and every safety property that the passing runs check is
stated by a theorem. What remains, in the order of value:

1. `Pacing` with stale ACKs: whether an ACK left of an earlier session may shorten
   a wait by more than the budget of the pauses allows.
2. `LineReader` with its destructor.
