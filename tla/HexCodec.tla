------------------------------- MODULE HexCodec -------------------------------
(***************************************************************************)
(* The text of a w command: how the uploaders write it                      *)
(* (bytesToLittleEndianHexString, write_words), and how getHex of           *)
(* Binary/miniboot.s reads it back, one character at a time.  Characters    *)
(* are their ASCII codes.                                                   *)
(*                                                                          *)
(* A word has WORD_SIZE bytes and getHex gives up after MAX_DIGITS          *)
(* characters: 4 and 16 in the code.                                        *)
(***************************************************************************)
EXTENDS Integers, Sequences

CONSTANTS
    WORD_SIZE, MAX_DIGITS,
    Addresses,  \* where commands go
    Bytes,      \* bytes of the words that are sent
    Counts,     \* how many words a command has
    Junks,      \* what may precede a command
    Numbers     \* numbers printed or typed

DIGITS  == 2 * WORD_SIZE
MODULUS == 2^(8 * WORD_SIZE)
ADDRESS == 2^(4 * (DIGITS - 1))     \* the digits 10...0, 0x10000000 in the code; no
                                    \* address is lower, so that all have DIGITS digits

Backspace == 8
NewLine   == 10
CarriageReturn == 13
Space     == 32
LetterW   == 119
Byte      == 0..255
Terminators == {CarriageReturn, NewLine, Space}

ASSUME CodecAssumption ==
    /\ WORD_SIZE \in Nat \ {0} /\ MAX_DIGITS \in Nat /\ MAX_DIGITS > DIGITS
    /\ Addresses \subseteq ADDRESS..(MODULUS - 1)
    /\ Bytes \subseteq Byte
    /\ Counts \subseteq 0..(MODULUS - 1) /\ Numbers \subseteq 0..(MODULUS - 1)
    /\ \A junk \in Junks : /\ junk \in Seq(Byte \ (Terminators \cup {Backspace}))
                           /\ Len(junk) + DIGITS <= MAX_DIGITS

-------------------------------------------------------------------------------
(* The uploaders. *)

\* std::hex prints lower-case digits.
HexDigit(n) == IF n < 10 THEN 48 + n ELSE 87 + n

\* std::hex prints as many digits as the number needs.
HexNumber[n \in Nat] ==
    IF n < 16 THEN <<HexDigit(n)>> ELSE Append(HexNumber[n \div 16], HexDigit(n % 16))

\* Mutation of charToHexString: without setw and setfill.
charToHexStringUnpadded(c) == HexNumber[c]

\* W2Uploader: setw(2) with fill '0'.
charToHexString(c) ==
    LET digits == HexNumber[c]
    IN  [i \in 1..(2 - Len(digits)) |-> 48] \o digits

\* The legacy uploaders: a zero in front of one digit.
byteToAsciiString(c) ==
    (IF c <= 15 THEN <<48>> ELSE <<>>) \o HexNumber[c]

\* A word, most significant byte first; encode has the text of each byte.
WordText(word, encode) ==
    LET text[j \in 0..WORD_SIZE] ==
            IF j = 0 THEN <<>> ELSE encode[word[j]] \o text[j - 1]
    IN  text[WORD_SIZE]

\* The words, separated by spaces and ended by a return.
WordsText(words, encode) ==
    LET text[i \in 0..Len(words)] ==
            IF i = 0 THEN <<>>
            ELSE text[i - 1] \o WordText(words[i], encode)
                     \o <<IF i < Len(words) THEN Space ELSE CarriageReturn>>
    IN  text[Len(words)]

Command(address, words, encode) ==
    <<LetterW>> \o HexNumber[address] \o <<Space>> \o HexNumber[Len(words)] \o <<Space>>
        \o WordsText(words, encode)

\* What the loader prints for a word: DIGITS upper-case digits.
xtoa(v) ==
    [i \in 1..DIGITS |->
        LET d == (v \div 2^(4 * (DIGITS - i))) % 16 IN IF d < 10 THEN 48 + d ELSE 55 + d]

\* A little-endian word.
WordValue(word) ==
    LET value[j \in 0..WORD_SIZE] ==
            IF j = 0 THEN 0 ELSE value[j - 1] + word[j] * 2^(8 * (j - 1))
    IN  value[WORD_SIZE]

-------------------------------------------------------------------------------
(* getHex. *)

VARIABLES
    text,      \* characters still to be read
    acc,       \* s1: the number so far
    digits,    \* s0: characters counted so far
    values,    \* numbers returned
    expected   \* numbers the text stands for

vars == <<text, acc, digits, values, expected>>

IsDigit(c)  == c \in 48..57
IsUpper(c)  == c \in 65..90
IsLower(c)  == c \in 97..122

\* The numbers that stand for an address with so many letters before it: if
\* they end where getHex gives up, the terminator is a number of its own, and if
\* they go a digit beyond, the last digit is.
AddressRead(address, letters) ==
    CASE letters + DIGITS < MAX_DIGITS -> <<address>>
      [] letters + DIGITS = MAX_DIGITS -> <<address, 0>>
      [] OTHER -> <<address \div 16, address % 16>>

\* A command that is read as the numbers it holds: junk and the w itself, as
\* when the reader was still inside a number, are digits of the address.
InitCommand ==
    \E n \in Counts, address \in Addresses :
      \E words \in [1..n -> [1..WORD_SIZE -> Bytes]], junk \in Junks :
        /\ \/ text = junk \o Command(address, words, [c \in Byte |-> charToHexString(c)])
           \/ text = junk \o Command(address, words, [c \in Byte |-> byteToAsciiString(c)])
        /\ expected = AddressRead(address, Len(junk) + 1)
                          \o <<n>> \o [i \in 1..n |-> WordValue(words[i])]

\* What the loader prints, read back; and a number with a digit typed by
\* mistake and taken back.
InitNumber ==
    \E v \in Numbers :
        /\ \/ text = xtoa(v) \o <<Space>>
           \/ v < ADDRESS /\ \E d \in 0..15 :
                 text = HexNumber[v] \o <<HexDigit(d), Backspace, NewLine>>
        /\ expected = <<v>>

InitReader ==
    /\ acc = 0
    /\ digits = 0
    /\ values = <<>>

\* getHex returns; the caller calls it again for the next number.
Return(v) ==
    /\ values' = Append(values, v)
    /\ acc' = 0
    /\ digits' = 0

\* A character has been added to the number: the loop ends after MAX_DIGITS.
Count(value) ==
    IF digits + 1 = MAX_DIGITS
    THEN Return(value)
    ELSE acc' = value /\ digits' = digits + 1 /\ UNCHANGED values

Shifted(d) == (acc * 16 + d) % MODULUS

Terminator(c) == c \in Terminators /\ Return(acc)
Digit(c)      == IsDigit(c) /\ Count(Shifted(c - 48))
Upper(c)      == IsUpper(c) /\ Count(Shifted(c - 55))
Lower(c)      == IsLower(c) /\ Count(Shifted(c - 87))

\* Backspace takes the last digit out, and one from the count unless it is zero.
Erase(c) ==
    /\ c = Backspace
    /\ acc' = acc \div 16
    /\ digits' = IF digits > 0 THEN digits - 1 ELSE 0
    /\ UNCHANGED values

\* Any other character is added with its code.
Other(c) ==
    /\ c \notin Terminators \cup {Backspace}
    /\ ~IsDigit(c) /\ ~IsUpper(c) /\ ~IsLower(c)
    /\ Count(Shifted(c))

getHex ==
    /\ text # <<>>
    /\ LET c == Head(text)
       IN  Terminator(c) \/ Digit(c) \/ Upper(c) \/ Lower(c) \/ Erase(c) \/ Other(c)
    /\ text' = Tail(text)
    /\ UNCHANGED expected

CodecInit == InitReader /\ (InitCommand \/ InitNumber)

CodecSpec == CodecInit /\ [][getHex]_vars

-------------------------------------------------------------------------------
(***************************************************************************)
(* Reader and writers agree: when the text of a command has been read, the  *)
(* numbers getHex returned are the address, the count and the words of the  *)
(* file in little-endian order, even if the command letter and letters      *)
(* before it were taken for digits of the address.  Only if they fill the   *)
(* number up does it end before its terminator: then the terminator counts  *)
(* as a zero, or the last digit as a number, and every number that follows  *)
(* is one place off.  What xtoa prints is read back as it was; a digit      *)
(* taken back leaves no trace.                                              *)
(***************************************************************************)
Decoded == text = <<>> => values = expected

===============================================================================
