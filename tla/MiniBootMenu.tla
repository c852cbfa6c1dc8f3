---------------------------- MODULE MiniBootMenu ----------------------------
(***************************************************************************)
(* The main menu of Binary/miniboot.s around the console of MiniBoot: the   *)
(* numbered functions, which all read an address first, and the raw         *)
(* download of function 5, which takes bytes and ends by a silence.         *)
(*                                                                          *)
(* The host sends keys at the menu, numbers at the prompts of a function,   *)
(* bytes in a download, and commands as in MiniBootCommands in the console. *)
(* A silence is a span of 10000 polls of the UART without a character.      *)
(***************************************************************************)
EXTENDS MiniBootCommands

CONSTANTS
    WordBytes,   \* bytes of a word, 4 in the code
    Bytes,       \* values of the bytes sent in a download
    MaxIndex,    \* where a download stops, 16#20000# in the code
    MaxDrain,    \* and how much it then discards, 16#100000#
    MaxStream    \* bound: bytes sent in a download

ASSUME MenuAssumption ==
    /\ Flash \cup {EraseAddr} \subseteq Nat
    /\ {WordBytes, MaxIndex, MaxDrain} \subseteq Nat \ {0}
    /\ MaxIndex % WordBytes = 0
    /\ Bytes \subseteq 0..255
    /\ MaxStream \in Nat

VARIABLES
    fn,          \* the numbered function, "none" at the menu
    address,     \* s4: its address
    load,        \* the download: s2, where its word goes, s3, the bytes before that
                 \* word, s1, the word, s0, the bytes of it it has, and, when the
                 \* rest is discarded, s1, the bytes discarded
    origin,      \* history: the flash before the download
    sent,        \* history: bytes sent to the download
    silences     \* history: after how many of them there was a silence

download == <<load, origin, sent, silences>>
menuVars == <<commandVars, fn, address, download>>

Downloading == {"word", "poll", "drain"}

\* A download of words to a and on.
From(a) == [at |-> a, index |-> 0, word |-> 0, have |-> 0, drained |-> 0]

MenuInit ==
    /\ CommandsInit
    /\ fn = "none" /\ address = 0
    /\ load = From(0)
    /\ origin = mem /\ sent = <<>> /\ silences = {}

\* Every function reads its address anew: at the menu the registers are dead.
ToMenu == mode' = "menu" /\ fn' = "none" /\ address' = 0 /\ load' = From(0)

-------------------------------------------------------------------------------
(* Keys at the menu and numbers at the prompts. *)

Functions == {"1", "2", "3", "4", "5", "6", "7", "8", "9"}

\* A digit selects a function, which asks for its address.
MenuFunction(tok) ==
    /\ mode = "menu"
    /\ tok[1] = "key" /\ tok[2] \in Functions
    /\ fn' = tok[2]
    /\ mode' = "address"
    /\ UNCHANGED <<digits, address, mem, load>>

\* c and d, e and f call bridges that never return.
MenuBridge(tok) ==
    /\ mode = "menu"
    /\ \/ tok \in {<<"key", "c">>, <<"key", "d">>} /\ mode' = "i2c"
       \/ tok \in {<<"key", "e">>, <<"key", "f">>} /\ mode' = "dmi"
    /\ UNCHANGED <<digits, fn, address, mem, load>>

\* getHex at a prompt takes a letter for a digit.
MenuAbsorb(tok) ==
    /\ mode \in {"address", "operand"}
    /\ ~EndsNumber(tok)
    /\ digits' = digits + Width(tok)
    /\ UNCHANGED <<mode, fn, address, mem, load>>

\* The address has been read.  1 and 7 ask for a value, 4 and 8 for a count, 3
\* jumps, 5 waits for a program; 2 and 6 print the word, 6 until a key is
\* pressed, and 9 does nothing.
MenuAddress(tok, v) ==
    /\ mode = "address"
    /\ EndsNumber(tok)
    /\ digits' = 0
    /\ IF fn \in {"2", "6", "9"}
       THEN ToMenu
       ELSE /\ mode' = CASE fn \in {"1", "4", "7", "8"} -> "operand"
                         [] fn = "3" -> "run"
                         [] fn = "5" -> "word"
            /\ address' = v
            /\ load' = From(v)
            /\ UNCHANGED fn
    /\ UNCHANGED mem

\* 1 stores the value, and 7 stores it again until a key is pressed, which is
\* then the menu's; 4 and 8 print words.
MenuOperand(tok, v) ==
    /\ mode = "operand"
    /\ EndsNumber(tok)
    /\ digits' = 0
    /\ mem' = IF fn \in {"1", "7"} THEN Store(address, v) ELSE mem
    /\ ToMenu

\* A program that was jumped to returns to the menu, or to the console.
ProgramReturns ==
    /\ mode = "run"
    /\ IF fn = "3" THEN ToMenu ELSE mode' = "console" /\ UNCHANGED <<fn, address, load>>
    /\ UNCHANGED mem

-------------------------------------------------------------------------------
(* The raw download. *)

\* Each byte enters at the top of s1 and is shifted down by those that follow.
Shift(n, b) == b * 2^(8 * (WordBytes - 1)) + n \div 256
WithByte(l, b) == [l EXCEPT !.word = Shift(@, b), !.have = @ + 1]

\* A word whose bytes are complete is stored, and the UART is polled for more.
Assemble(l) ==
    /\ IF l.have < WordBytes
       THEN load' = l /\ mode' = "word" /\ UNCHANGED mem
       ELSE /\ load' = [l EXCEPT !.word = 0, !.have = 0]
            /\ mode' = "poll"
            /\ mem' = Store(l.at, l.word)
    /\ UNCHANGED <<fn, address>>

ReadByte(b) ==
    /\ mode = "word"
    /\ Assemble(WithByte(load, b))

\* n bytes have been discarded.
Discard(l, n) ==
    /\ IF n = MaxDrain
       THEN ToMenu
       ELSE mode' = "drain" /\ load' = [l EXCEPT !.drained = n] /\ UNCHANGED <<fn, address>>
    /\ UNCHANGED mem

\* Mutation of MoreBytes: the next word goes where the last one went.
MoreBytesInPlace(b) ==
    /\ mode = "poll"
    /\ LET next == [load EXCEPT !.index = @ + WordBytes]
       IN  IF next.index = MaxIndex
           THEN Discard(next, 1)
           ELSE Assemble(WithByte(next, b))

\* Mutation of MoreBytes: the limit is tested before the count is advanced.
MoreBytesTooMany(b) ==
    /\ mode = "poll"
    /\ LET next == [load EXCEPT !.index = @ + WordBytes]
       IN  IF load.index = MaxIndex
           THEN Discard(next, 1)
           ELSE Assemble(WithByte([next EXCEPT !.at = @ + WordBytes], b))

\* A byte came in time: it begins the next word, unless the limit is reached,
\* when it is the first to be discarded.
MoreBytes(b) ==
    /\ mode = "poll"
    /\ LET next == [load EXCEPT !.index = @ + WordBytes]
       IN  IF next.index = MaxIndex
           THEN Discard(next, 1)
           ELSE Assemble(WithByte([next EXCEPT !.at = @ + WordBytes], b))

DiscardByte(b) ==
    /\ mode = "drain"
    /\ Discard(load, load.drained + 1)

\* Mutation of PollsRunOut: only the limit ends the discarding.
PollsRunOutOnce ==
    /\ mode = "poll"
    /\ Discard(load, 0)

\* 10000 polls without a character end the download after a whole word, and the
\* discarding at any time; in the middle of a word getchar waits on.
PollsRunOut ==
    \/ mode = "poll" /\ Discard(load, 0)
    \/ mode = "drain" /\ ToMenu /\ UNCHANGED mem
    \/ mode = "word" /\ UNCHANGED <<mode, fn, address, mem, load>>

-------------------------------------------------------------------------------
(* The loader with the host, and the history of both. *)

MenuHistory ==
    /\ before' = mem' /\ letter' = "none" /\ numbers' = <<>>
    /\ UNCHANGED <<cmd, args, base>>

\* A token at the menu or a prompt, where text is printed, or in the console.
MenuFeed(tok) ==
    \/ /\ fed < MaxTokens
       /\ \/ MenuFunction(tok) \/ MenuBridge(tok) \/ MenuAbsorb(tok)
          \/ \E v \in Values(tok) : MenuAddress(tok, v) \/ MenuOperand(tok, v)
       /\ fed' = fed + 1
       /\ reply' = <<FALSE>>
       /\ origin' = mem' /\ sent' = <<>> /\ silences' = {}
       /\ MenuHistory
    \/ /\ Feed(tok)
       /\ UNCHANGED <<fn, address, download>>

\* What was sent is remembered as long as the download lasts.
Streamed(bs, ns) ==
    /\ IF mode' = "menu" THEN sent' = <<>> /\ silences' = {}
                         ELSE sent' = bs /\ silences' = ns
    /\ reply' = <<>>
    /\ UNCHANGED <<origin, fed, digits>>
    /\ MenuHistory

SendByte(b) ==
    /\ Len(sent) < MaxStream
    /\ ReadByte(b) \/ MoreBytes(b) \/ DiscardByte(b)
    /\ Streamed(Append(sent, b), silences)

\* In the middle of a word a second silence is like the first.
Pause ==
    /\ ~(mode = "word" /\ Len(sent) \in silences)
    /\ PollsRunOut
    /\ Streamed(sent, silences \cup {Len(sent)})

Return ==
    /\ ProgramReturns
    /\ reply' = <<FALSE>>
    /\ UNCHANGED <<origin, sent, silences, fed, digits>>
    /\ MenuHistory

MenuKeys == Keys \cup Functions \cup {"c", "e", "f"}

MenuNext ==
    \/ \E k \in MenuKeys : MenuFeed(<<"key", k>>)
    \/ \E v \in Numbers : MenuFeed(<<"num", v>>)
    \/ \E d \in 1..DIGITS : MenuFeed(<<"part", d>>)
    \/ \E b \in Bytes : SendByte(b)
    \/ Pause
    \/ Return

\* The loader polls its UART: a silence, once it lasts, is seen.
MenuSpec ==
    /\ MenuInit
    /\ [][MenuNext]_menuVars
    /\ WF_menuVars(Pause)

-------------------------------------------------------------------------------
MenuTypeOK ==
    /\ mode \in {"menu", "console", "run", "dmi", "i2c", "address", "operand"} \cup Downloading
    /\ fn \in Functions \cup {"none"}
    /\ mode = "address" => fn # "none"
    /\ address \in Nat
    /\ load \in [at : Nat, index : 0..MaxIndex, word : Nat, have : 0..(WordBytes - 1),
                 drained : 0..(MaxDrain - 1)]
    /\ digits \in 0..(MAX_DIGITS - 1)
    /\ load.index % WordBytes = 0
    /\ mode \in {"word", "poll"} => load.index < MaxIndex /\ load.at = address + load.index

\* After n bytes the last word is complete, and there is one.
Whole(n) == n > 0 /\ n % WordBytes = 0

\* The bytes after the first n make a word: all were sent, before the limit and
\* before the first silence that follows a whole word.
WordSent(n) ==
    /\ n >= 0 /\ n % WordBytes = 0
    /\ n + WordBytes <= Len(sent) /\ n + WordBytes <= MaxIndex
    /\ \A p \in silences : Whole(p) => n + WordBytes <= p

\* Byte i of a word, from the lowest, and the word of the bytes after the first n.
ByteOf(w, i) == (w \div 2^(8 * (i - 1))) % 256
IsWord(w, n) ==
    /\ w < 2^(8 * WordBytes)
    /\ \A i \in 1..WordBytes : ByteOf(w, i) = sent[n + i]

\* A word after that one goes to the flash controller.
ErasedAfter(n) == n < EraseAddr - address /\ WordSent(EraseAddr - address)

(***************************************************************************)
(* The raw download of function 5: the flash holds, from the address on,    *)
(* the whole little-endian words that were sent before the first silence    *)
(* that follows a whole word, and before the limit; pauses within a word or *)
(* before the first do not matter, and nothing that is sent afterwards is   *)
(* stored.  A word that goes to the flash controller erases what was there  *)
(* before, the words already sent included.                                 *)
(***************************************************************************)
DownloadMeans ==
    mode \in Downloading =>
        \A f \in Flash :
            IF WordSent(f - address) /\ ~ErasedAfter(f - address)
            THEN IsWord(mem[f], f - address)
            ELSE mem[f] = IF WordSent(EraseAddr - address) THEN Blank ELSE origin[f]

(***************************************************************************)
(* A download whose sender falls silent is over, and the menu is back: only *)
(* one that was sent nothing, or a part of a word at its end, waits for     *)
(* ever in getchar.                                                         *)
(***************************************************************************)
OnlyPartialWordsHang ==
    <>[](mode \in Downloading =>
            mode = "word" /\ (sent = <<>> \/ Len(sent) % WordBytes # 0))

===============================================================================
