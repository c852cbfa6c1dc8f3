------------------------------- MODULE MiniBoot -------------------------------
(***************************************************************************)
(* Binary/miniboot.s: the command console of the board's boot loader, and   *)
(* as much of its main menu as leads to it.  The console reads a command    *)
(* letter, then hexadecimal numbers with getHex, and answers w, s and j     *)
(* with an ACK (6) and l, R and r with STX, words, ETX.                     *)
(*                                                                          *)
(* Input is a sequence of tokens: <<"key", k>> is one letter (or "newline", *)
(* any terminator on its own), <<"num", v>> the digits of a number with     *)
(* their terminator, and <<"part", d>> the first d digits of a number whose *)
(* end did not come.  getHex takes letters for digits: a letter or a part   *)
(* met inside a command runs into the number that follows, and disappears   *)
(* from its low 32 bits unless the sixteenth character, which ends a number *)
(* like a terminator, comes first.  Conversely digits met at the prompt are *)
(* single letters, of which only d is a command.                            *)
(***************************************************************************)
EXTENDS Integers, Sequences

CONSTANTS
    Flash,       \* byte addresses of the words of program flash that matter
    EraseAddr,   \* a store here erases the flash (external: the flash controller)
    Blank,       \* what an erased word reads
    DIGITS,      \* digits of a number that follows a letter, 8: an address
    MAX_DIGITS,  \* characters of a number getHex reads at most, 16
    Mixed        \* values of numbers made of letters, parts and surplus digits

ASSUME BootAssumption ==
    /\ DIGITS \in Nat \ {0}
    /\ MAX_DIGITS \in Nat /\ DIGITS < MAX_DIGITS
    /\ Mixed \subseteq Nat /\ Mixed # {}

VARIABLES
    mode,        \* "menu", "console", "run" (jumped), "dmi" or "i2c" (bridges)
    cmd,         \* command letter being executed, "none" at the prompt
    args,        \* numbers the command has read
    digits,      \* characters getHex has read of its next number
    base,        \* where its next word is stored
    mem,         \* program flash
    reply        \* bytes answered to the last token: TRUE an ACK

bootVars == <<mode, cmd, args, digits, base, mem, reply>>

\* How many numbers a command reads before its data.
Header == [j |-> 1, w |-> 2, s |-> 3, r |-> 2, l |-> 3, R |-> 1]

\* The last number of the header is the count of numbers that follow, for the
\* commands that read data.
DataCount(c, a) == IF c \in {"w", "s", "R"} THEN a[Header[c]] ELSE 0

\* Does v have the hexadecimal digit d?
HasD(v) == \E i \in 0..7 : (v \div 16^i) % 16 = 13

Load(a) == IF a \in Flash THEN mem[a] ELSE 0

\* Does the next number, when its digits end, go to the address that erases?
Erasing == cmd \in {"w", "s"} /\ Len(args) >= Header[cmd] /\ base = EraseAddr

\* Memory after word v is stored at a: flash, its controller, or elsewhere.
Store(a, v) ==
    IF a = EraseAddr THEN [f \in Flash |-> Blank]
    ELSE [f \in Flash |-> IF f = a THEN v ELSE mem[f]]

\* The board was reset, or an earlier session left it at its prompt.
BootInit ==
    /\ mode \in {"menu", "console"}
    /\ cmd = "none"
    /\ args = <<>>
    /\ digits = 0
    /\ base = 0
    /\ mem = [f \in Flash |-> 0]
    /\ reply = <<>>

-------------------------------------------------------------------------------
\* Main menu: 'a' starts the console, which prints its greeting.
MenuConsole(tok) ==
    /\ mode = "menu"
    /\ tok = <<"key", "a">>
    /\ mode' = "console"
    /\ reply' = <<FALSE>>
    /\ UNCHANGED <<cmd, args, digits, base, mem>>

\* Main menu: a key that selects nothing prints the menu again.
MenuAgain(tok) ==
    /\ mode = "menu"
    /\ tok[1] = "key"
    /\ tok[2] \notin {"1", "2", "3", "4", "5", "6", "7", "8", "9", "a", "c", "d", "e", "f"}
    /\ reply' = <<FALSE>>
    /\ UNCHANGED <<mode, cmd, args, digits, base, mem>>

AtPrompt == mode = "console" /\ cmd = "none"

Select(tok) ==
    /\ AtPrompt
    /\ tok[1] = "key"
    /\ tok[2] \in DOMAIN Header
    /\ cmd' = tok[2]
    /\ args' = <<>>
    /\ digits' = 0
    /\ base' = 0
    /\ reply' = <<>>
    /\ UNCHANGED <<mode, mem>>

\* d and i call bridges that never return; d may be a digit of a stray number.
EnterBridge(tok) ==
    /\ AtPrompt
    /\ \/ tok = <<"key", "i">> /\ mode' = "i2c"
       \/ tok = <<"key", "d">> /\ mode' = "dmi"
       \/ tok[1] = "num" /\ HasD(tok[2]) /\ mode' = "dmi"
       \/ tok[1] = "part" /\ mode' = "dmi"
    /\ reply' = <<>>
    /\ UNCHANGED <<cmd, args, digits, base, mem>>

Ignore(tok) ==
    /\ AtPrompt
    /\ \/ tok[1] = "key" /\ tok[2] \notin DOMAIN Header \cup {"d", "i"}
       \/ tok[1] = "num" /\ ~HasD(tok[2])
       \/ tok[1] = "part"
    /\ reply' = <<>>
    /\ UNCHANGED <<mode, cmd, args, digits, base, mem>>

\* How many characters a token adds to the number that getHex is reading.
Width(tok) ==
    CASE tok[1] = "num" -> DIGITS
      [] tok[1] = "part" -> tok[2]
      [] OTHER -> IF tok[2] = "newline" THEN 0 ELSE 1

\* getHex returns at a terminator, or with the last character it reads at most.
AtLimit(tok)    == digits + Width(tok) >= MAX_DIGITS
EndsNumber(tok) == tok[1] = "num" \/ tok = <<"key", "newline">> \/ AtLimit(tok)

\* The values a number that ends with tok may have: its own if all its digits
\* were read, 0 for a terminator alone, and any of Mixed if it is made of letters.
Values(tok) ==
    CASE tok[1] = "num" /\ digits + DIGITS <= MAX_DIGITS -> {tok[2]}
      [] tok = <<"key", "newline">> /\ digits = 0 -> {0}
      [] OTHER -> IF EndsNumber(tok) THEN Mixed ELSE {0}

\* What getHex leaves of tok to be read next: the digits beyond its limit and
\* the terminator.
Rests(tok) ==
    LET surplus == digits + Width(tok) - MAX_DIGITS
    IN  CASE tok[1] = "num" /\ surplus = 0 -> {<< <<"key", "newline">> >>}
          [] tok[1] = "num" /\ surplus > 0 -> {<< <<"num", r>> >> : r \in Mixed}
          [] tok[1] = "part" /\ surplus > 0 -> {<< <<"part", surplus>> >>}
          [] OTHER -> {<<>>}

\* getHex: a letter is a digit of the number that follows.
Absorb(tok) ==
    /\ cmd # "none"
    /\ ~EndsNumber(tok)
    /\ digits' = digits + Width(tok)
    /\ reply' = <<>>
    /\ UNCHANGED <<mode, cmd, args, base, mem>>

\* What a command does when it has read its last number.
Finish ==
    /\ cmd' = "none"
    /\ args' = <<>>
    /\ base' = 0
    /\ mode' = IF cmd = "j" THEN "run" ELSE mode
    /\ reply' = <<cmd \in {"w", "s", "j"}>>

\* Mutation of ReadHeader: a count of zero is not looked at.
ReadHeaderNoZero(v) ==
    /\ cmd # "none"
    /\ Len(args) < Header[cmd]
    /\ digits' = 0
    /\ LET a == Append(args, v)
       IN  IF Len(a) = Header[cmd] /\ cmd \in {"j", "r", "l"}
           THEN Finish
           ELSE /\ args' = a
                /\ base' = CASE cmd = "w" -> a[1]
                             [] cmd = "s" /\ Len(a) = 3 -> a[2] + Load(a[1])
                             [] OTHER -> base
                /\ reply' = <<>>
                /\ UNCHANGED <<mode, cmd>>
    /\ UNCHANGED mem

\* A number of the header; after the last one the first address is known: that
\* of w is its argument, that of s is an offset from the word at a pointer.
ReadHeader(v) ==
    /\ cmd # "none"
    /\ Len(args) < Header[cmd]
    /\ digits' = 0
    /\ LET a == Append(args, v)
       IN  IF Len(a) = Header[cmd] /\ DataCount(cmd, a) = 0
           THEN Finish
           ELSE /\ args' = a
                /\ base' = CASE cmd = "w" -> a[1]
                             [] cmd = "s" /\ Len(a) = 3 -> a[2] + Load(a[1])
                             [] OTHER -> base
                /\ reply' = <<>>
                /\ UNCHANGED <<mode, cmd>>
    /\ UNCHANGED mem

\* Mutation of ReadData: the next word goes to the next byte.
ReadDataByByte(v) ==
    /\ cmd # "none"
    /\ Len(args) >= Header[cmd]
    /\ digits' = 0
    /\ mem' = IF cmd = "R" THEN mem ELSE Store(base, v)
    /\ LET a == Append(args, v)
       IN  IF Len(a) = Header[cmd] + DataCount(cmd, a)
           THEN Finish
           ELSE /\ args' = a
                /\ base' = base + 1
                /\ reply' = <<>>
                /\ UNCHANGED <<mode, cmd>>

\* A data number: w and s store it, R keeps it as an address to read.
ReadData(v) ==
    /\ cmd # "none"
    /\ Len(args) >= Header[cmd]
    /\ digits' = 0
    /\ mem' = IF cmd = "R" THEN mem ELSE Store(base, v)
    /\ LET a == Append(args, v)
       IN  IF Len(a) = Header[cmd] + DataCount(cmd, a)
           THEN Finish
           ELSE /\ args' = a
                /\ base' = base + 4
                /\ reply' = <<>>
                /\ UNCHANGED <<mode, cmd>>

\* A started program or a bridge owns the input.
Elsewhere(tok) ==
    /\ mode \in {"run", "dmi", "i2c"}
    /\ reply' = <<>>
    /\ UNCHANGED <<mode, cmd, args, digits, base, mem>>

\* The loader takes tok; a number that ends with it has the value v, one of
\* Values(tok), and one of Rests(tok) stays to be taken next.
Consume(tok, v) ==
    \/ MenuConsole(tok)
    \/ MenuAgain(tok)
    \/ Select(tok)
    \/ EnterBridge(tok)
    \/ Ignore(tok)
    \/ Absorb(tok)
    \/ EndsNumber(tok) /\ ReadHeader(v)
    \/ EndsNumber(tok) /\ ReadData(v)
    \/ Elsewhere(tok)

BootTypeOK ==
    /\ mode \in {"menu", "console", "run", "dmi", "i2c"}
    /\ cmd \in DOMAIN Header \cup {"none"}
    /\ args \in Seq(Nat)
    /\ digits \in 0..(MAX_DIGITS - 1)
    /\ base \in Nat
    /\ mem \in [Flash -> Nat]
    /\ reply \in Seq(BOOLEAN)
===============================================================================
