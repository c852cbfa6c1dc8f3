-------------------------- MODULE LegacyUploadProofs --------------------------
(***************************************************************************)
(* The legacy uploaders, for every image, every set of burst sizes and      *)
(* every way write_some may cut a command: polling last_read without a lock *)
(* keeps uploader and board in lockstep, every word goes to its own cell,   *)
(* and an upload that ends has stored the whole image.                      *)
(***************************************************************************)
EXTENDS LegacyUpload, BoardProofs, WellFoundedInduction

LineToken == {key(k) : k \in {"newline", "a", "w", "j"}} \cup {num(v) : v \in Nat}

TypeInv == LegacyTypeOK /\ line \in Seq(LineToken) /\ program \in Programs

-------------------------------------------------------------------------------
(* The sizes of bursts. *)

Below == {ss \in Nat \X Nat : ss[1] < ss[2]}

\* A set of numbers that is not empty has a least one.
LEMMA LeastNumber ==
    ASSUME NEW T \in SUBSET Nat, T # {}
    PROVE  \E x \in T : \A y \in T : x <= y
<1>1. IsWellFoundedOn(Below, Nat)
  BY NatLessThanWellFounded DEF OpToRel, Below
<1>2. PICK x \in T : \A y \in T : ~(<<y, x>> \in Below)
  BY <1>1, WFMin
<1>3. ASSUME NEW y \in T, y < x PROVE FALSE
  <2>1. <<y, x>> \in Below
    BY <1>3 DEF Below
  <2> QED
    BY <1>2, <2>1
<1> QED
  BY <1>2, <1>3

\* The largest burst that fits: the least of the bounds of those that do.
LEMMA LargestIsMember ==
    ASSUME NEW S \in SUBSET Nat, S # {}, NEW n \in Nat, \A b \in S : b <= n
    PROVE  Max(S) \in S
<1> DEFINE bounds == {u \in Nat : \A b \in S : b <= u}
<1>1. n \in bounds
  OBVIOUS
<1>2. PICK u \in bounds : \A y \in bounds : u <= y
  BY <1>1, LeastNumber
<1>3. u \in S
  <2> SUFFICES ASSUME u \notin S PROVE FALSE
    OBVIOUS
  <2>1. \A b \in S : b < u
    BY <1>2
  <2>2. u >= 1
    <3>1. PICK b \in S : TRUE
      OBVIOUS
    <3>2. b < u /\ b \in Nat /\ u \in Nat
      BY <2>1
    <3> QED
      BY <3>2
  <2>3. u - 1 \in bounds
    BY <2>1, <2>2
  <2> QED
    BY <1>2, <2>3
<1>4. \E x \in S : \A y \in S : x >= y
  BY <1>2, <1>3
<1> QED
  BY <1>4 DEF Max

LEMMA BurstFits ==
    ASSUME program \in Programs, NEW left \in Nat \ {0}
    PROVE  BurstWords(left) \in 1..left
<1> DEFINE fit == {b \in program.bursts : left >= b}
<1>1. program.bursts \subseteq Nat \ {0}
  BY LegacyAssumption
<1>2. CASE fit = {}
  BY <1>2 DEF BurstWords
<1>3. CASE fit # {}
  <2>1. Max(fit) \in fit
    BY <1>1, <1>3, LargestIsMember
  <2>2. BurstWords(left) = Max(fit)
    BY <1>3 DEF BurstWords
  <2> QED
    BY <1>1, <2>1, <2>2
<1> QED
  BY <1>2, <1>3

-------------------------------------------------------------------------------
(* The commands, token by token. *)

LEMMA SetupCommands ==
    ASSUME program \in Programs
    PROVE  /\ Len(Setup) \in {3, 5}
           /\ Setup[1] = <<key("newline")>> /\ Setup[2] = <<key("a")>>
           /\ Setup[3] = Store1(SPECIAL_SEQUENCE, 64)
           /\ Len(Setup) = 5 => /\ Setup[4] = Store1(FLASH_UNLOCK, 165)
                                /\ Setup[5] = Store1(EraseAddr, 0)
  BY DEF Setup

\* One or two tokens and their beginnings.
LEMMA OneToken ==
    ASSUME NEW t
    PROVE  /\ Head(<<t>>) = t /\ Tail(<<t>>) = <<>> /\ Len(<<t>>) = 1
           /\ SubSeq(<<t>>, 1, 0) = <<>> /\ SubSeq(<<t>>, 1, 1) = <<t>>
<1>1. Len(<<t>>) = 1 /\ <<t>>[1] = t /\ <<t>> \in Seq({t})
  OBVIOUS
<1>2. Head(<<t>>) = t /\ Tail(<<t>>) = <<>>
  BY <1>1, HeadTailProperties, EmptySeq
<1>3. SubSeq(<<t>>, 1, 0) = <<>>
  BY <1>1, SubSeqProperties, EmptySeq
<1>4. SubSeq(<<t>>, 1, 1) = <<t>>
  <2>1. SubSeq(<<t>>, 1, 1) \in Seq({t}) /\ Len(SubSeq(<<t>>, 1, 1)) = 1
    BY <1>1, SubSeqProperties
  <2>2. \A i \in 1..1 : SubSeq(<<t>>, 1, 1)[i] = <<t>>[i]
    <3>1. \A i \in 1..1 : SubSeq(<<t>>, 1, 1)[i] \in {t} /\ i = 1
      BY <2>1, ElementOfSeq
    <3> QED
      BY <1>1, <3>1
  <2> QED
    BY <1>1, <2>1, <2>2, SeqEqual
<1> QED
  BY <1>1, <1>2, <1>3, <1>4

LEMMA TwoTokens ==
    ASSUME NEW t, NEW u
    PROVE  /\ Head(<<t, u>>) = t /\ Tail(<<t, u>>) = <<u>> /\ Len(<<t, u>>) = 2
           /\ SubSeq(<<t, u>>, 1, 0) = <<>> /\ SubSeq(<<t, u>>, 1, 1) = <<t>>
           /\ SubSeq(<<t, u>>, 1, 2) = <<t, u>>
<1> DEFINE s == <<t, u>>
<1>1. Len(s) = 2 /\ s[1] = t /\ s[2] = u /\ s \in Seq({t, u})
  OBVIOUS
<1>a. <<u>> \in Seq({t, u}) /\ Len(<<u>>) = 1 /\ <<u>>[1] = u
      /\ <<t>> \in Seq({t, u}) /\ Len(<<t>>) = 1 /\ <<t>>[1] = t
  OBVIOUS
<1>2. s # <<>>
  OBVIOUS
<1>b. \A i \in 1..1 : i = 1
  OBVIOUS
<1> HIDE DEF s
<1>3. Head(s) = t /\ Tail(s) \in Seq({t, u}) /\ Len(Tail(s)) = 1 /\ Tail(s)[1] = u
  BY <1>1, <1>2, HeadTailProperties
<1>4. Tail(s) = <<u>>
  <2>1. \A i \in 1..1 : Tail(s)[i] = <<u>>[i]
    BY <1>3, <1>a, <1>b
  <2> QED
    BY <1>3, <1>a, <2>1, SeqEqual
<1>5. ASSUME NEW n \in 0..2
      PROVE  /\ SubSeq(s, 1, n) \in Seq({t, u}) /\ Len(SubSeq(s, 1, n)) = n
             /\ \A i \in 1..n : SubSeq(s, 1, n)[i] = s[i]
  BY <1>1, SubSeqProperties
<1>6. SubSeq(s, 1, 0) = <<>>
  BY <1>5, EmptySeq
<1>7. SubSeq(s, 1, 1) = <<t>>
  <2>1. SubSeq(s, 1, 1) \in Seq({t, u}) /\ Len(SubSeq(s, 1, 1)) = 1
        /\ \A i \in 1..1 : SubSeq(s, 1, 1)[i] = <<t>>[i]
    BY <1>1, <1>5, <1>a
  <2> QED
    BY <1>a, <2>1, SeqEqual
<1>8. SubSeq(s, 1, 2) = s
  <2>1. SubSeq(s, 1, 2) \in Seq({t, u}) /\ Len(SubSeq(s, 1, 2)) = 2
        /\ \A i \in 1..2 : SubSeq(s, 1, 2)[i] = s[i]
    BY <1>5
  <2> QED
    BY <1>1, <2>1, SeqEqual
<1> QED
  BY <1>1, <1>3, <1>4, <1>6, <1>7, <1>8 DEF s

LEMMA StoreTokens ==
    ASSUME NEW a \in Nat, NEW v \in Nat
    PROVE  /\ Len(Store1(a, v)) = 4 /\ Store1(a, v) \in Seq(LineToken)
           /\ \A i \in 1..4 : Store1(a, v)[i] = TokenAt(0, a, <<v>>, i)
<1>1. /\ Store1(a, v)[1] = key("w") /\ Store1(a, v)[2] = num(a)
      /\ Store1(a, v)[3] = num(1) /\ Store1(a, v)[4] = num(v)
      /\ Len(Store1(a, v)) = 4
  BY DEF Store1
<1>2. /\ TokenAt(0, a, <<v>>, 1) = key("w") /\ TokenAt(0, a, <<v>>, 2) = num(a)
      /\ TokenAt(0, a, <<v>>, 3) = num(1) /\ TokenAt(0, a, <<v>>, 4) = num(v)
  BY DEF TokenAt, Number, key, num
<1>3. {key("w"), num(a), num(1), num(v)} \subseteq LineToken
  BY DEF LineToken
<1>4. Store1(a, v) \in Seq(LineToken)
  BY <1>3 DEF Store1
<1>5. \A i \in 1..4 : i \in {1, 2, 3, 4}
  OBVIOUS
<1> QED
  BY <1>1, <1>2, <1>4, <1>5

\* The words of a burst of n, from the k-th on.
WordsFrom(k, n) == [d \in 1..n |-> WordAt(k + d)]

LEMMA WordsTypes ==
    ASSUME NEW k \in Nat, NEW n \in Nat
    PROVE  /\ WordsFrom(k, n) \in Seq(Nat) /\ Len(WordsFrom(k, n)) = n
           /\ \A d \in 1..n : /\ WordsFrom(k, n)[d] = WordAt(k + d)
                              /\ WordAt(k + d) \in Nat
<1>1. \A i \in Nat \ {0} : WordAt(i) \in Nat
  BY LegacyAssumption, ElementOfSeq, LenProperties DEF WordAt
<1>2. \A d \in 1..n : WordAt(k + d) \in Nat
  BY <1>1
<1> QED
  BY <1>2, IsASeq DEF WordsFrom

\* A command of header h and data d.
LEMMA HeaderAndData ==
    ASSUME NEW h \in Seq(LineToken), NEW d \in Seq(LineToken)
    PROVE  /\ h \o d \in Seq(LineToken) /\ Len(h \o d) = Len(h) + Len(d)
           /\ \A i \in 1..(Len(h) + Len(d)) :
                 (h \o d)[i] = IF i <= Len(h) THEN h[i] ELSE d[i - Len(h)]
  BY ConcatProperties

LEMMA BurstTokens ==
    ASSUME NEW k \in Nat, NEW n \in Nat
    PROVE  LET toks == WriteWords(WORD_BYTES * k, n)
           IN  /\ Len(toks) = 3 + n /\ toks \in Seq(LineToken)
               /\ \A i \in 1..(3 + n) : toks[i] = TokenAt(0, Cell(k + 1), WordsFrom(k, n), i)
<1> DEFINE toks   == WriteWords(WORD_BYTES * k, n)
           header == <<key("w"), num(Address + WORD_BYTES * k), num(n)>>
           data   == [i \in 1..n |-> num(WordAt(k + i))]
<1>1. (WORD_BYTES * k) \div WORD_BYTES = k /\ Address + WORD_BYTES * k \in Nat
  BY DEF WORD_BYTES, Address
<1>2. toks = header \o data
  BY <1>1 DEF WriteWords
<1>3. header \in Seq(LineToken) /\ Len(header) = 3
  <2>1. {key("w"), num(Address + WORD_BYTES * k), num(n)} \subseteq LineToken
    BY <1>1 DEF LineToken
  <2> QED
    BY <2>1
<1>4. data \in Seq(LineToken) /\ Len(data) = n
  <2>1. \A i \in 1..n : WordAt(k + i) \in Nat
    BY WordsTypes
  <2>2. \A i \in 1..n : num(WordAt(k + i)) \in LineToken
    BY <2>1 DEF LineToken
  <2> QED
    BY <2>2, IsASeq
<1>5. Cell(k + 1) = Address + WORD_BYTES * k
  BY DEF Cell, WORD_BYTES, Address
<1>6. /\ header[1] = key("w") /\ header[2] = num(Address + WORD_BYTES * k)
      /\ header[3] = num(n)
      /\ \A i \in 1..n : data[i] = num(WordAt(k + i))
  OBVIOUS
<1> HIDE DEF header, data
<1>7. \A i \in 1..(3 + n) : toks[i] = IF i <= 3 THEN header[i] ELSE data[i - 3]
  <2>1. \A i \in 1..(Len(header) + Len(data)) :
           (header \o data)[i] = IF i <= Len(header) THEN header[i] ELSE data[i - Len(header)]
    BY <1>3, <1>4, HeaderAndData
  <2> QED
    BY <1>2, <1>3, <1>4, <2>1
<1> HIDE DEF toks
<1>8. ASSUME NEW i \in 1..(3 + n)
      PROVE  toks[i] = TokenAt(0, Cell(k + 1), WordsFrom(k, n), i)
  <2>1. toks[i] = IF i <= 3 THEN header[i] ELSE data[i - 3]
    BY <1>7
  <2>2. CASE i \in {1, 2, 3}
    <3>1. Len(WordsFrom(k, n)) = n
      BY WordsTypes
    <3>2. /\ TokenAt(0, Cell(k + 1), WordsFrom(k, n), 1) = key("w")
          /\ TokenAt(0, Cell(k + 1), WordsFrom(k, n), 2) = num(Cell(k + 1))
          /\ TokenAt(0, Cell(k + 1), WordsFrom(k, n), 3) = num(n)
      BY <3>1 DEF TokenAt, Number, key, num
    <3> QED
      BY <1>5, <1>6, <2>1, <2>2, <3>2
  <2>3. CASE i > 3
    <3>1. i - 3 \in 1..n
      BY <2>3
    <3>2. toks[i] = num(WordAt(k + (i - 3)))
      BY <1>6, <2>1, <2>3, <3>1
    <3>3. WordsFrom(k, n)[i - 3] = WordAt(k + (i - 3))
      BY <3>1, WordsTypes
    <3>4. (i - 0 - 1) - 2 = i - 3
      OBVIOUS
    <3>5. TokenAt(0, Cell(k + 1), WordsFrom(k, n), i) = num(WordsFrom(k, n)[i - 3])
      BY <2>3, <3>4 DEF TokenAt, Number, num
    <3> QED
      BY <3>2, <3>3, <3>5
  <2> QED
    BY <2>2, <2>3
<1>9. Len(toks) = 3 + n /\ toks \in Seq(LineToken)
  BY <1>2, <1>3, <1>4, HeaderAndData
<1> QED
  BY <1>8, <1>9 DEF toks


-------------------------------------------------------------------------------
(* The inductive invariant.  Every state of main() but the last ones fixes      *)
(* how much of its last command the board has executed, and whether the ACK    *)
(* of that command is still to come, on its way, or taken.                     *)

\* The image is in the flash up to its k-th word.
Frontier(k) == \A i \in 1..Len(Image) : i <= k => mem[Cell(i)] = Image[i]

\* The board has executed j tokens of a command and the line holds the next.
Sending(m, a, ws, j) ==
    /\ j < Total(m, ws)
    /\ BoardAt(m, a, ws, j)
    /\ Len(line) <= Total(m, ws) - j
    /\ \A i \in 1..Len(line) : line[i] = TokenAt(m, a, ws, j + i)

\* The p-th setup command; the newline and the a precede the first store.
Ahead(p)        == IF p = 3 THEN 2 ELSE 0
SetupAddress(p) == CASE p = 3 -> SPECIAL_SEQUENCE [] p = 4 -> FLASH_UNLOCK [] OTHER -> EraseAddr
SetupWord(p)    == CASE p = 3 -> 64 [] p = 4 -> 165 [] OTHER -> 0

\* Before the first ACK is awaited.
Starting ==
    /\ offset = 0
    /\ pos > 0 => isOpen
    /\ pc = "open" => pos = 0 /\ ~isOpen /\ io = "none"
    /\ pc = "clear" => pos = 2
    /\ \E j \in 0..pos : /\ Sending(2, SPECIAL_SEQUENCE, <<64>>, j)
                         /\ j + Len(line) = pos

SettingUp ==
    /\ offset = 0
    /\ pos \in 3..Len(Setup)
    /\ \E j \in 0..5 : Sending(Ahead(pos), SetupAddress(pos), <<SetupWord(pos)>>, j)

Bursting ==
    /\ pos = Len(Setup)
    /\ \E k \in 0..FileBytes, n \in 1..FileBytes :
          /\ offset = WORD_BYTES * (k + n)
          /\ k + n <= FileBytes
          /\ \E j \in 0..(2 + n) : /\ Sending(0, Cell(k + 1), WordsFrom(k, n), j)
                                   /\ Frontier(k + StoredBy(0, j))

\* The board is at its prompt again and holds all that was sent.
Executed ==
    /\ isOpen
    /\ line = <<>>
    /\ Prompt
    /\ pos \in 3..Len(Setup)
    /\ offset > 0 => pos = Len(Setup)
    /\ \E k \in 0..FileBytes : offset = WORD_BYTES * k /\ Frontier(k)

\* All that can still happen is the jump, or a part of it.
JumpOnItsWay ==
    \/ Prompt /\ line \in {<<>>, <<key("j")>>, <<key("j"), num(Address)>>}
    \/ /\ mode = "console" /\ cmd = "j" /\ args = <<>> /\ digits = 0
       /\ line \in {<<>>, <<num(Address)>>}
    \/ mode = "run" /\ line = <<>>

Uploaded == Frontier(Len(Image)) /\ JumpOnItsWay

Quiet(s) == \A i \in 1..Len(s) : ~s[i]

AckEnds(s) == s # <<>> /\ \A i \in 1..Len(s) : s[i] <=> i = Len(s)

NoAck == last_read # "ack" /\ Quiet(buffer) /\ Quiet(rx)

\* An ACK is taken only after every byte before it, and none follows it.
AckComing ==
    \/ last_read = "ack" /\ buffer = <<>> /\ rx = <<>>
    \/ last_read # "ack" /\ AckEnds(buffer) /\ rx = <<>>
    \/ last_read # "ack" /\ Quiet(buffer) /\ AckEnds(rx)

Drained == buffer = <<>> /\ rx = <<>>

\* Without -r nothing was sent behind the last ACK.
NothingLeft == line = <<>> /\ cmd = "none" /\ Drained /\ last_read # "ack"

\* What a program that stopped while it started left on the line.
Crashed ==
    \/ line = <<>>
    \/ \E j \in Nat : /\ Sending(2, SPECIAL_SEQUENCE, <<64>>, j)
                       /\ j + Len(line) <= 2

Phase ==
    \/ pc \in {"open", "setup", "clear"} /\ pos < 3 /\ Starting /\ NoAck
    \/ pc = "poll" /\ isOpen /\ (SettingUp \/ Bursting) /\ NoAck
    \/ pc = "poll" /\ Executed /\ AckComing
    \/ pc = "reset" /\ Executed /\ Drained
    \/ pc = "setup" /\ pos < Len(Setup) /\ Executed /\ Drained /\ last_read # "ack"
    \/ pc = "readbin" /\ pos = Len(Setup) /\ offset = 0 /\ Executed /\ Drained /\ last_read # "ack"
    \/ pc = "upload" /\ pos = Len(Setup) /\ Executed /\ Drained /\ last_read # "ack"
    \/ pc \in {"cancel", "close", "join", "ended"} /\ Uploaded /\ (~Runs => NothingLeft)
    \/ pc \in {"crashed", "asserted"} /\ Crashed

\* Until the port is closed, the handler finds it open and leaves no byte behind.
HandlerInv ==
    pc \notin {"cancel", "close", "join", "ended", "crashed", "asserted"} =>
        /\ io # "none" => isOpen
        /\ io \notin {"received", "bytes"} => buffer = <<>>

IInv == TypeInv /\ HandlerInv /\ StoredInPlace /\ Phase


-------------------------------------------------------------------------------
(* Types. *)

LEMMA SetupTypes ==
    ASSUME program \in Programs, NEW p \in 0..(Len(Setup) - 1)
    PROVE  Setup[p + 1] \in Seq(LineToken)
<1> DEFINE S == Setup
<1>1. /\ Len(S) \in {3, 5}
      /\ S[1] = <<key("newline")>> /\ S[2] = <<key("a")>>
      /\ S[3] = Store1(SPECIAL_SEQUENCE, 64)
      /\ Len(S) = 5 => S[4] = Store1(FLASH_UNLOCK, 165) /\ S[5] = Store1(EraseAddr, 0)
  BY SetupCommands
<1>2. p \in 0..(Len(S) - 1)
  OBVIOUS
<1> HIDE DEF S
<1>3. key("newline") \in LineToken /\ key("a") \in LineToken
  BY DEF LineToken
<1>4. <<key("newline")>> \in Seq(LineToken) /\ <<key("a")>> \in Seq(LineToken)
  BY <1>3
<1>5. SPECIAL_SEQUENCE \in Nat /\ FLASH_UNLOCK \in Nat /\ EraseAddr \in Nat
  BY LegacyAssumption DEF SPECIAL_SEQUENCE, FLASH_UNLOCK
<1>6. /\ Store1(SPECIAL_SEQUENCE, 64) \in Seq(LineToken)
      /\ Store1(FLASH_UNLOCK, 165) \in Seq(LineToken)
      /\ Store1(EraseAddr, 0) \in Seq(LineToken)
  BY ZenonT(30), <1>5, StoreTokens
<1>7. S[1] \in Seq(LineToken) /\ S[2] \in Seq(LineToken) /\ S[3] \in Seq(LineToken)
  BY <1>1, <1>4, <1>6
<1>8. S[p + 1] \in Seq(LineToken)
  <2>1. CASE Len(S) = 3
    <3>1. p + 1 \in {1, 2, 3}
      BY <1>2, <2>1
    <3> QED
      BY <1>7, <3>1
  <2>2. CASE Len(S) = 5
    <3>1. p + 1 \in {1, 2, 3, 4, 5}
      BY <1>2, <2>2
    <3>2. S[4] \in Seq(LineToken) /\ S[5] \in Seq(LineToken)
      BY <1>1, <1>6, <2>2
    <3> QED
      BY <1>7, <3>1, <3>2
  <2> QED
    BY <1>1, <2>1, <2>2
<1> QED
  BY <1>8 DEF S

\* What write_some puts on the line.
LEMMA LineGrows ==
    ASSUME line \in Seq(LineToken), NEW toks \in Seq(LineToken), NEW n \in 1..Len(toks),
           line' = line \o SubSeq(toks, 1, n)
    PROVE  /\ line' \in Seq(LineToken) /\ Len(line') = Len(line) + n
           /\ \A i \in 1..Len(line) : line'[i] = line[i]
           /\ \A i \in 1..n : line'[Len(line) + i] = toks[i]
<1>1. Len(toks) \in Nat /\ Len(line) \in Nat
  BY LenProperties
<1>2. /\ SubSeq(toks, 1, n) \in Seq(LineToken) /\ Len(SubSeq(toks, 1, n)) = n
      /\ \A i \in 1..n : SubSeq(toks, 1, n)[i] = toks[i]
  BY <1>1, SubSeqProperties
<1>3. /\ line' \in Seq(LineToken) /\ Len(line') = Len(line) + n
      /\ \A i \in 1..(Len(line) + n) :
            line'[i] = IF i <= Len(line) THEN line[i] ELSE SubSeq(toks, 1, n)[i - Len(line)]
  BY <1>2, HeaderAndData
<1>4. ASSUME NEW i \in 1..n PROVE line'[Len(line) + i] = toks[i]
  <2>1. Len(line) + i \in 1..(Len(line) + n) /\ ~(Len(line) + i <= Len(line))
    BY <1>1
  <2>2. (Len(line) + i) - Len(line) = i
    BY <1>1
  <2> QED
    BY <1>2, <1>3, <2>1, <2>2
<1>5. \A i \in 1..Len(line) : line'[i] = line[i]
  BY <1>1, <1>3
<1> QED
  BY <1>3, <1>4, <1>5

LEMMA WriteBytesTypes ==
    ASSUME line \in Seq(LineToken), NEW toks \in Seq(LineToken), NEW next, WriteBytes(toks, next)
    PROVE  /\ line' \in Seq(LineToken)
           /\ pc' \in {next, "crashed", "asserted"}
           /\ UNCHANGED <<options, port, isOpen, last_read, ioVars, rx, bootVars>>
<1>1. line' \in Seq(LineToken)
  <2>1. CASE \E n \in 1..Len(toks) : line' = line \o SubSeq(toks, 1, n)
    BY <2>1, LineGrows
  <2>2. CASE UNCHANGED line
    BY <2>2
  <2> QED
    BY <2>1, <2>2 DEF WriteBytes
<1> QED
  BY <1>1 DEF WriteBytes

\* A completed read takes the front of what the tty holds.
LEMMA ChunkRead ==
    ASSUME rx \in Seq(BOOLEAN), ReadCompletes
    PROVE  \E n \in 1..Len(rx) : buffer' = SubSeq(rx, 1, n) /\ rx' = SubSeq(rx, n + 1, Len(rx))
<1> DEFINE n == Min({Len(rx), BufferSize})
<1>1. Len(rx) \in Nat /\ Len(rx) >= 1
  BY LenProperties, EmptySeq DEF ReadCompletes
<1>2. BufferSize \in Nat \ {0}
  BY LegacyAssumption
<1>3. \E x \in {Len(rx), BufferSize} : \A y \in {Len(rx), BufferSize} : x <= y
  BY <1>1, <1>2
<1>4. n \in {Len(rx), BufferSize} /\ n <= Len(rx)
  BY <1>3 DEF Min
<1>5. n \in 1..Len(rx)
  BY <1>1, <1>2, <1>4
<1>6. buffer' = SubSeq(rx, 1, n) /\ rx' = SubSeq(rx, n + 1, Len(rx))
  BY DEF ReadCompletes
<1> QED
  BY <1>5, <1>6

LEMMA InitTypes == LegacyInit => TypeInv
<1> SUFFICES ASSUME LegacyInit PROVE TypeInv
  OBVIOUS
<1>d. 0 \in 0..(MAX_DIGITS - 1)
  BY BootAssumption
<1>1. BootTypeOK
  BY <1>d, EmptySeq, LegacyAssumption DEF LegacyInit, BootInit, BootTypeOK
<1>2. program \in Programs /\ Len(Setup) \in {3, 5}
  BY SetupCommands DEF LegacyInit
<1>3. line \in Seq(LineToken) /\ buffer \in Seq(BOOLEAN) /\ rx \in Seq(BOOLEAN)
  BY EmptySeq DEF LegacyInit
<1>4. pos = 0 /\ 0 \in 0..Len(Setup)
  BY <1>2 DEF LegacyInit
<1>5. pos \in 0..Len(Setup)
  BY <1>4
<1> QED
  BY <1>1, <1>2, <1>3, <1>5 DEF LegacyInit, TypeInv, LegacyTypeOK

\* A command of main() leaves the board's variables alone.
LEMMA BootUnchanged == BootTypeOK /\ UNCHANGED bootVars => BootTypeOK'
  BY DEF BootTypeOK, bootVars

LEMMA SendTypes ==
    ASSUME TypeInv, UNCHANGED program, SendSetup \/ SendBurst \/ Jump
    PROVE  TypeInv'
<1> USE DEF TypeInv, LegacyTypeOK
<1>1. Setup' = Setup /\ Len(Setup) \in {3, 5}
  BY SetupCommands DEF Setup
<1>2. CASE SendSetup
  <2>1. pos + 1 \in 0..Len(Setup) /\ pos \in 0..(Len(Setup) - 1)
    BY <1>1, <1>2 DEF SendSetup
  <2>2. PICK next \in {"setup", "clear", "poll"} : WriteBytes(Setup[pos + 1], next)
    BY <1>2 DEF SendSetup
  <2>3. Setup[pos + 1] \in Seq(LineToken)
    BY <2>1, SetupTypes
  <2>4. /\ line' \in Seq(LineToken) /\ pc' \in {next, "crashed", "asserted"}
        /\ UNCHANGED <<options, port, isOpen, last_read, ioVars, rx, bootVars>>
    BY <2>2, <2>3, WriteBytesTypes
  <2>5. pos' = pos + 1 /\ offset' = offset
    BY <1>2 DEF SendSetup
  <2> QED
    BY <1>1, <2>1, <2>2, <2>4, <2>5, BootUnchanged DEF ioVars
<1>3. CASE SendBurst
  <2> DEFINE n == BurstWords(FileBytes - offset)
  <2>1. Len(Image) \in Nat /\ FileBytes \in Nat /\ FileBytes - offset \in Nat \ {0}
    BY <1>3, LegacyAssumption, LenProperties DEF SendBurst, WORD_BYTES
  <2>2. n \in Nat
    BY <2>1, BurstFits
  <2> HIDE DEF n
  <2>3. WriteBytes(WriteWords(offset, n), "poll") /\ offset' = offset + n * WORD_BYTES /\ pos' = pos
    BY <1>3 DEF SendBurst, n
  <2>4. offset' \in Nat
    BY <2>2, <2>3 DEF WORD_BYTES
  <2>5. WriteWords(offset, n) \in Seq(LineToken)
    <3>1. offset \div WORD_BYTES \in Nat
      BY DEF WORD_BYTES
    <3>2. \A i \in 1..n : WordAt(offset \div WORD_BYTES + i) \in Nat
      BY <2>2, <3>1, WordsTypes
    <3>3. [i \in 1..n |-> num(WordAt(offset \div WORD_BYTES + i))] \in Seq(LineToken)
      <4>1. \A i \in 1..n : num(WordAt(offset \div WORD_BYTES + i)) \in LineToken
        BY <3>2 DEF LineToken
      <4> QED
        BY <2>2, <4>1, IsASeq
    <3>4. {key("w"), num(Address + offset), num(n)} \subseteq LineToken
      BY <2>2 DEF LineToken, Address
    <3>5. <<key("w"), num(Address + offset), num(n)>> \in Seq(LineToken)
      BY <3>4
    <3> QED
      BY <3>3, <3>5, HeaderAndData DEF WriteWords
  <2>6. /\ line' \in Seq(LineToken) /\ pc' \in {"poll", "crashed", "asserted"}
        /\ UNCHANGED <<options, port, isOpen, last_read, ioVars, rx, bootVars>>
    BY <2>3, <2>5, WriteBytesTypes
  <2> QED
    BY <1>1, <2>3, <2>4, <2>6, BootUnchanged DEF ioVars
<1>4. CASE Jump
  <2>1. {key("j"), num(Address)} \subseteq LineToken
    BY DEF LineToken, Address
  <2>2. <<key("j"), num(Address)>> \in Seq(LineToken)
    BY <2>1
  <2>3. /\ line' \in Seq(LineToken) /\ pc' \in {"cancel", "crashed", "asserted"}
        /\ UNCHANGED <<options, port, isOpen, last_read, ioVars, rx, bootVars>>
    BY <1>4, <2>2, WriteBytesTypes DEF Jump
  <2>4. UNCHANGED <<pos, offset>>
    BY <1>4 DEF Jump
  <2> QED
    BY <1>1, <2>3, <2>4, BootUnchanged DEF ioVars
<1> QED
  BY <1>2, <1>3, <1>4

LEMMA BoardTypes ==
    ASSUME TypeInv, UNCHANGED program, BoardExecutes
    PROVE  TypeInv'
<1>0. PICK v \in Values(Head(line)), rest \in Rests(Head(line)) :
         Consume(Head(line), v) /\ line' = rest \o Tail(line)
  BY DEF BoardExecutes
<1>1. Head(line) \in LineToken /\ Tail(line) \in Seq(LineToken)
  BY HeadTailProperties DEF BoardExecutes, TypeInv
<1>2. BoardToken(Head(line))
  BY <1>1 DEF BoardToken, LineToken, key, num
<1>3. BootTypeOK'
  BY <1>0, <1>2, LegacyAssumption, ConsumeTypes DEF TypeInv, LegacyTypeOK
<1>6. rest \in Seq(LineToken)
  <2>1. \/ rest = <<>>
        \/ rest = << <<"key", "newline">> >>
        \/ \E r \in Mixed : rest = << <<"num", r>> >>
    BY <1>1 DEF Rests, LineToken, key, num
  <2>2. <<"key", "newline">> \in LineToken /\ \A r \in Mixed : <<"num", r>> \in LineToken
    BY BootAssumption DEF LineToken, key, num
  <2>3. <<>> \in Seq(LineToken) /\ \A t \in LineToken : <<t>> \in Seq(LineToken)
    BY EmptySeq
  <2> QED
    BY <2>1, <2>2, <2>3, Zenon
<1>7. line' \in Seq(LineToken)
  BY <1>0, <1>1, <1>6, ConcatProperties
<1>4. rx' \in Seq(BOOLEAN)
  BY <1>3, ConcatProperties DEF BoardExecutes, BootTypeOK, TypeInv, LegacyTypeOK
<1>5. Setup' = Setup
  BY DEF Setup
<1> QED
  BY <1>3, <1>4, <1>5, <1>7 DEF BoardExecutes, TypeInv, LegacyTypeOK, mainVars, ioVars

LEMMA IoTypes ==
    ASSUME TypeInv, UNCHANGED program, IoStep
    PROVE  TypeInv'
<1> USE DEF TypeInv, LegacyTypeOK
<1>1. Setup' = Setup
  BY DEF Setup
<1>2. UNCHANGED <<mainVars, isOpen, line, bootVars>>
  BY DEF IoStep, IoThread, ReadCompletes, ReadAborted, ReadFails,
         OnReceive, StoreByte, BytesDone, CheckOpen, StartRead,
         RunReturns, wireVars
<1>3. buffer' \in Seq(BOOLEAN) /\ rx' \in Seq(BOOLEAN)
  <2>1. CASE ReadCompletes
    <3>1. PICK n \in 1..Len(rx) : buffer' = SubSeq(rx, 1, n) /\ rx' = SubSeq(rx, n + 1, Len(rx))
      BY <2>1, ChunkRead
    <3> QED
      BY <3>1, SubSeqProperties, LenProperties
  <2>2. CASE StoreByte
    BY <2>2, HeadTailProperties DEF StoreByte, wireVars
  <2>3. CASE ~ReadCompletes /\ ~StoreByte
    BY <2>3 DEF IoStep, IoThread, ReadAborted, ReadFails, OnReceive,
                BytesDone, CheckOpen, StartRead, RunReturns, wireVars
  <2> QED
    BY <2>1, <2>2, <2>3
<1>4. /\ io' \in {"none", "run", "received", "error", "bytes", "read_bytes", "start", "ended"}
      /\ read' \in {"none", "pending", "failed"}
      /\ last_read' \in {"zero", "ack", "other"}
  BY DEF IoStep, IoThread, ReadCompletes, ReadAborted, ReadFails,
         OnReceive, StoreByte, BytesDone, CheckOpen, StartRead,
         RunReturns
<1> QED
  BY <1>1, <1>2, <1>3, <1>4, BootUnchanged DEF mainVars

\* What is left on the line when the port is closed.
LEMMA PrefixTypes ==
    ASSUME line \in Seq(LineToken), NEW k \in 0..Len(line)
    PROVE  /\ SubSeq(line, 1, k) \in Seq(LineToken)
           /\ Len(SubSeq(line, 1, k)) = k
           /\ \A i \in 1..k : SubSeq(line, 1, k)[i] = line[i]
<1>1. Len(line) \in Nat
  BY LenProperties
<1> QED
  BY <1>1, SubSeqProperties

LEMMA StepTypes == TypeInv /\ [LegacyNext]_<<legacyVars, program>> => TypeInv'
<1> SUFFICES ASSUME TypeInv, [LegacyNext]_<<legacyVars, program>> PROVE TypeInv'
  OBVIOUS
<1>1. UNCHANGED program /\ Setup' = Setup
  BY DEF LegacyNext, Setup
<1>2. CASE SendSetup \/ SendBurst \/ Jump
  BY <1>1, <1>2, SendTypes
<1>3. CASE MainStep /\ ~(SendSetup \/ SendBurst \/ Jump)
  <2>1. UNCHANGED <<offset, pos, buffer, bootVars>>
    BY <1>3 DEF MainStep, OpenPort, OpenPortRefused, ClearLastRead, PollAck, ResetLastRead,
                ReadBin, NoJump, Cancel, Close, Join, ioVars
  <2>2. /\ pc' \in {"open", "setup", "clear", "poll", "reset", "readbin", "upload", "cancel",
                    "close", "join", "ended", "crashed", "asserted"}
        /\ port' \in {"null", "garbage", "made"}
        /\ isOpen' \in BOOLEAN
        /\ last_read' \in {"zero", "ack", "other"}
        /\ io' \in {"none", "run", "received", "error", "bytes", "read_bytes", "start", "ended"}
        /\ read' \in {"none", "pending", "failed"}
    BY <1>3 DEF TypeInv, LegacyTypeOK, MainStep, OpenPort, OpenPortRefused, ClearLastRead, PollAck,
                ResetLastRead, ReadBin, NoJump, Cancel, Close, Join, ioVars
  <2>3. line' \in Seq(LineToken) /\ rx' \in Seq(BOOLEAN)
    <3>1. CASE Close
      BY <3>1, PrefixTypes, EmptySeq DEF Close, DropWire, TypeInv
    <3>2. CASE ~Close
      BY <1>3, <3>2 DEF MainStep, OpenPort, OpenPortRefused, ClearLastRead, PollAck,
                        ResetLastRead, ReadBin, NoJump, Cancel, Join, wireVars, TypeInv,
                        LegacyTypeOK
    <3> QED
      BY <3>1, <3>2
  <2> QED
    BY <1>1, <2>1, <2>2, <2>3, BootUnchanged DEF TypeInv, LegacyTypeOK
<1>4. CASE IoStep
  BY <1>1, <1>4, IoTypes
<1>5. CASE BoardExecutes
  BY <1>1, <1>5, BoardTypes
<1>6. CASE UNCHANGED <<legacyVars, program>>
  BY <1>1, <1>6, BootUnchanged DEF TypeInv, LegacyTypeOK, legacyVars, mainVars, ioVars, wireVars
<1> QED
  BY <1>2, <1>3, <1>4, <1>5, <1>6 DEF LegacyNext

\* Every variable keeps its type in every reachable state, for every image,
\* every burst size and every way a command is cut.
THEOREM LegacyTypeCorrect == LegacySpec => []LegacyTypeOK
<1>1. TypeInv => LegacyTypeOK
  BY DEF TypeInv
<1> QED
  BY <1>1, InitTypes, StepTypes, PTL DEF LegacySpec


-------------------------------------------------------------------------------
(* What the board stores. *)

LEMMA CellsInOrder ==
    ASSUME NEW q \in 1..FileBytes
    PROVE  /\ Cell(q) \in Nat /\ Cell(q) # EraseAddr
           /\ Cell(q) # SPECIAL_SEQUENCE /\ Cell(q) # FLASH_UNLOCK
           /\ \A i \in Nat : Cell(i) = Cell(q) => i = q
<1>1. FileBytes \in Nat
  BY LegacyAssumption
<1>2. Cell(q) \in Nat /\ Cell(q) < Address + WORD_BYTES * FileBytes
  BY <1>1 DEF Cell, Address, WORD_BYTES
<1>3. Cell(q) # EraseAddr /\ Cell(q) # SPECIAL_SEQUENCE /\ Cell(q) # FLASH_UNLOCK
  BY <1>1, <1>2, LegacyAssumption DEF SPECIAL_SEQUENCE, FLASH_UNLOCK, Address, WORD_BYTES
<1>4. \A i \in Nat : Cell(i) = Cell(q) => i = q
  BY <1>1 DEF Cell, Address, WORD_BYTES
<1> QED
  BY <1>2, <1>3, <1>4

LEMMA ImageCells ==
    /\ Len(Image) \in Nat /\ FileBytes \in Nat /\ Len(Image) <= FileBytes
    /\ \A i \in 1..Len(Image) : i \in 1..FileBytes /\ Cell(i) \in Flash /\ WordAt(i) = Image[i]
<1>1. Len(Image) \in Nat /\ FileBytes \in Nat /\ 4 * (Len(Image) - 1) < FileBytes
  BY LegacyAssumption, LenProperties DEF WORD_BYTES
<1>2. Len(Image) <= FileBytes
  BY <1>1
<1> QED
  BY <1>1, <1>2, LegacyAssumption DEF WordAt

\* A word of the image goes to its own cell, a word beyond it to none of them.
LEMMA WordStored ==
    ASSUME mem \in [Flash -> Nat], StoredInPlace, NEW q \in 1..FileBytes,
           mem' = Store(Cell(q), WordAt(q))
    PROVE  /\ StoredInPlace'
           /\ Frontier(q - 1) => Frontier(q)'
<1>1. ASSUME NEW i \in 1..Len(Image)
      PROVE  mem'[Cell(i)] = IF i = q THEN Image[i] ELSE mem[Cell(i)]
  <2>1. Cell(i) \in Flash /\ WordAt(i) = Image[i] /\ i \in Nat
    BY ImageCells
  <2>2. Cell(q) # EraseAddr /\ (Cell(i) = Cell(q) => i = q)
    BY <2>1, CellsInOrder
  <2>3. mem'[Cell(i)] = IF Cell(i) = Cell(q) THEN WordAt(q) ELSE mem[Cell(i)]
    BY <2>1, <2>2 DEF Store
  <2> QED
    BY <2>1, <2>2, <2>3
<1>2. StoredInPlace'
  BY <1>1 DEF StoredInPlace
<1>3. ASSUME Frontier(q - 1), NEW i \in 1..Len(Image), i <= q
      PROVE  mem'[Cell(i)] = Image[i]
  <2>1. i # q => i <= q - 1
    BY <1>3, ImageCells
  <2> QED
    BY <1>1, <1>3, <2>1 DEF Frontier
<1> QED
  BY <1>2, <1>3 DEF Frontier

\* The setup commands store nothing in a cell, unless they blank it.
LEMMA SetupStored ==
    ASSUME StoredInPlace, NEW a \in {SPECIAL_SEQUENCE, FLASH_UNLOCK, EraseAddr}, NEW v,
           mem' = Store(a, v)
    PROVE  StoredInPlace'
<1>1. ASSUME NEW i \in 1..Len(Image)
      PROVE  mem'[Cell(i)] \in {Blank, mem[Cell(i)]}
  <2>1. Cell(i) \in Flash /\ Cell(i) # SPECIAL_SEQUENCE /\ Cell(i) # FLASH_UNLOCK
    BY CellsInOrder, ImageCells
  <2> QED
    BY <2>1 DEF Store
<1> QED
  BY <1>1 DEF StoredInPlace

LEMMA SendingStep ==
    ASSUME NEW a \in Nat, NEW ws \in Seq(Nat), ws # <<>>, NEW m \in {0, 2}, NEW j \in Nat,
           line \in Seq(LineToken), Sending(m, a, ws, j), BoardExecutes
    PROVE  /\ mem' = IF j < m + 3 THEN mem ELSE Store(a + 4 * (j - m - 3), ws[j - m - 2])
           /\ j + 1 < Total(m, ws) =>
                 Sending(m, a, ws, j + 1)' /\ reply' \in {<<>>, <<FALSE>>}
           /\ j + 1 = Total(m, ws) => line' = <<>> /\ Prompt' /\ reply' = <<TRUE>>
           /\ Len(line') = Len(line) - 1
<1> DEFINE T == Total(m, ws)
<1>1. j < T /\ T \in Nat
  BY LenProperties DEF Sending, Total
<1>2. line # <<>> /\ Head(line) = line[1] /\ Len(line) \in Nat /\ Len(line) >= 1
  BY LenProperties, EmptySeq DEF BoardExecutes
<1>a. PICK v \in Values(Head(line)), rest \in Rests(Head(line)) :
         Consume(Head(line), v) /\ line' = rest \o Tail(line)
  BY DEF BoardExecutes
<1>b. Head(line) = TokenAt(m, a, ws, j + 1)
  BY <1>2 DEF Sending
<1>3. v \in Values(TokenAt(m, a, ws, j + 1)) /\ Consume(TokenAt(m, a, ws, j + 1), v)
  BY <1>a, <1>b
<1>c. line' = Tail(line)
  <2>1. digits = 0
    BY <1>1 DEF Sending, BoardAt, Prompt, Taking
  <2>2. Head(line)[1] \in {"num", "key"}
    BY <1>b DEF TokenAt
  <2>3. rest = <<>>
    BY <2>1, <2>2, ExactTokens
  <2>4. Tail(line) \in Seq(LineToken)
    BY <1>2, HeadTailProperties
  <2> QED
    BY <1>a, <2>3, <2>4, ConcatEmptySeq
<1>4. /\ mem' = IF j < m + 3 THEN mem ELSE Store(a + 4 * (j - m - 3), ws[j - m - 2])
      /\ j + 1 < T => BoardAt(m, a, ws, j + 1)' /\ reply' \in {<<>>, <<FALSE>>}
      /\ j + 1 = T => Prompt' /\ reply' = <<TRUE>>
  BY <1>1, <1>3, BoardStep DEF Sending
<1>5. /\ Len(line') = Len(line) - 1 /\ line' \in Seq(LineToken)
      /\ \A i \in 1..Len(line') : line'[i] = line[i + 1]
  BY <1>2, <1>c, HeadTailProperties
<1>6. \A i \in 1..Len(line') : line'[i] = TokenAt(m, a, ws, (j + 1) + i)
  <2> TAKE i \in 1..Len(line')
  <2>1. i + 1 \in 1..Len(line) /\ j + (i + 1) = (j + 1) + i
    BY <1>2, <1>5
  <2> QED
    BY <1>5, <2>1 DEF Sending
<1>7. Len(line') <= T - (j + 1)
  BY <1>1, <1>2, <1>5 DEF Sending
<1> HIDE DEF T
<1>8. j + 1 < T => Sending(m, a, ws, j + 1)'
  BY <1>4, <1>6, <1>7 DEF Sending, T
<1>9. j + 1 = T => line' = <<>>
  <2>1. j + 1 = T => Len(line') = 0
    BY <1>1, <1>2, <1>5, <1>7
  <2> QED
    BY <1>5, <2>1, EmptySeq
<1> QED
  BY <1>4, <1>5, <1>8, <1>9 DEF T

-------------------------------------------------------------------------------
(* FileBytes on their way to main(). *)

LEMMA BoardAnswers ==
    ASSUME rx \in Seq(BOOLEAN), Quiet(rx), NEW r \in {<<>>, <<FALSE>>, <<TRUE>>}
    PROVE  IF r = <<TRUE>> THEN AckEnds(rx \o r) ELSE Quiet(rx \o r)
<1>1. Len(rx) \in Nat
  BY LenProperties
<1>2. CASE r = <<>>
  BY <1>2, ConcatEmptySeq
<1>3. ASSUME NEW b \in BOOLEAN, r = <<b>>
      PROVE  /\ rx \o r # <<>> /\ Len(rx \o r) = Len(rx) + 1
             /\ \A i \in 1..(Len(rx) + 1) : (rx \o r)[i] <=> (i = Len(rx) + 1 /\ b)
  <2>1. r \in Seq(BOOLEAN) /\ Len(r) = 1 /\ r[1] = b
    BY <1>3
  <2>2. /\ rx \o r \in Seq(BOOLEAN) /\ Len(rx \o r) = Len(rx) + 1
        /\ \A i \in 1..(Len(rx) + 1) : (rx \o r)[i] = IF i <= Len(rx) THEN rx[i] ELSE r[i - Len(rx)]
    BY <2>1, ConcatProperties
  <2>3. rx \o r # <<>>
    BY <1>1, <2>2, EmptySeq
  <2>4. \A i \in 1..(Len(rx) + 1) : ~(i <= Len(rx)) => i = Len(rx) + 1 /\ i - Len(rx) = 1
    BY <1>1
  <2>5. \A i \in 1..(Len(rx) + 1) : i <= Len(rx) => ~rx[i] /\ i # Len(rx) + 1
    BY <1>1 DEF Quiet
  <2> QED
    BY <2>1, <2>2, <2>3, <2>4, <2>5
<1>4. <<TRUE>>[1] # <<FALSE>>[1] /\ <<TRUE>> # <<>>
  OBVIOUS
<1>5. CASE r = <<FALSE>>
  BY <1>3, <1>4, <1>5 DEF Quiet
<1>6. CASE r = <<TRUE>>
  BY <1>3, <1>6 DEF AckEnds
<1> QED
  BY <1>2, <1>4, <1>5, <1>6


\* The io_service thread moves bytes towards last_read and loses none.
LEMMA IoKeepsBytes ==
    ASSUME TypeInv, HandlerInv, IoStep,
           pc \notin {"cancel", "close", "join", "ended", "crashed", "asserted"}
    PROVE  /\ NoAck => NoAck'
           /\ AckComing => AckComing'
           /\ Drained => Drained' /\ last_read' = last_read
<1>1. buffer \in Seq(BOOLEAN) /\ rx \in Seq(BOOLEAN) /\ Len(buffer) \in Nat /\ Len(rx) \in Nat
  BY LenProperties DEF TypeInv, LegacyTypeOK
<1>2. CASE ReadCompletes
  <2>1. PICK n \in 1..Len(rx) : buffer' = SubSeq(rx, 1, n) /\ rx' = SubSeq(rx, n + 1, Len(rx))
    BY <1>1, <1>2, ChunkRead
  <2>2. buffer = <<>> /\ rx # <<>> /\ last_read' = last_read
    BY <1>2 DEF ReadCompletes, HandlerInv
  <2>3. /\ buffer' \in Seq(BOOLEAN) /\ Len(buffer') = n
        /\ \A i \in 1..n : buffer'[i] = rx[i]
    BY <1>1, <2>1, SubSeqProperties
  <2>4. /\ rx' \in Seq(BOOLEAN) /\ Len(rx') = Len(rx) - n
        /\ \A i \in 1..(Len(rx) - n) : rx'[i] = rx[n + i]
    <3>1. Len(SubSeq(rx, n + 1, Len(rx))) = Len(rx) - n
      BY <1>1, SubSeqProperties
    <3>2. \A i \in 1..(Len(rx) - n) : SubSeq(rx, n + 1, Len(rx))[i] = rx[(n + 1) + i - 1]
      BY <1>1, <3>1, SubSeqProperties
    <3>3. \A i \in 1..(Len(rx) - n) : (n + 1) + i - 1 = n + i
      BY <1>1
    <3>4. SubSeq(rx, n + 1, Len(rx)) \in Seq(BOOLEAN)
      BY <1>1, SubSeqProperties
    <3> QED
      BY <2>1, <3>1, <3>2, <3>3, <3>4
  <2>5. Quiet(rx) => Quiet(buffer') /\ Quiet(rx')
    <3>1. \A i \in 1..(Len(rx) - n) : n + i \in 1..Len(rx)
      BY <1>1
    <3> QED
      BY <1>1, <2>3, <2>4, <3>1 DEF Quiet
  <2>6. AckEnds(rx) => \/ AckEnds(buffer') /\ rx' = <<>>
                       \/ Quiet(buffer') /\ AckEnds(rx')
    <3>1. CASE n = Len(rx)
      <4>1. rx' = <<>> /\ buffer' # <<>>
        BY <1>1, <2>3, <2>4, <3>1, EmptySeq
      <4> QED
        BY <2>3, <3>1, <4>1 DEF AckEnds
    <3>2. CASE n # Len(rx)
      <4>1. rx' # <<>> /\ n < Len(rx)
        BY <1>1, <2>4, <3>2, EmptySeq
      <4>2. \A i \in 1..n : i \in 1..Len(rx) /\ i # Len(rx)
        BY <1>1, <4>1
      <4>3. AckEnds(rx) => Quiet(buffer')
        BY <2>3, <4>2 DEF AckEnds, Quiet
      <4>4. \A i \in 1..(Len(rx) - n) :
               n + i \in 1..Len(rx) /\ (n + i = Len(rx) <=> i = Len(rx) - n)
        BY <1>1
      <4>5. AckEnds(rx) => AckEnds(rx')
        BY <2>4, <4>1, <4>4 DEF AckEnds
      <4> QED
        BY <4>3, <4>5
    <3> QED
      BY <3>1, <3>2
  <2>7. ~AckEnds(buffer)
    BY <2>2 DEF AckEnds
  <2> QED
    BY <2>2, <2>5, <2>6, <2>7 DEF NoAck, AckComing, Drained
<1>3. CASE StoreByte
  <2>1. /\ buffer # <<>> /\ buffer' = Tail(buffer) /\ rx' = rx
        /\ last_read' = IF Head(buffer) THEN "ack" ELSE "other"
    BY <1>3 DEF StoreByte, wireVars
  <2>2. /\ Head(buffer) = buffer[1] /\ Len(buffer) >= 1 /\ Len(buffer') = Len(buffer) - 1
        /\ \A i \in 1..Len(buffer') : buffer'[i] = buffer[i + 1] /\ i + 1 \in 1..Len(buffer)
        /\ buffer' \in Seq(BOOLEAN)
    <3>1. buffer # <<>> /\ buffer' = Tail(buffer)
      BY <2>1
    <3>2. Len(buffer) >= 1
      BY <1>1, <3>1, EmptySeq
    <3>3. /\ Head(buffer) = buffer[1] /\ Len(buffer') = Len(buffer) - 1
          /\ \A i \in 1..Len(buffer') : buffer'[i] = buffer[i + 1]
          /\ buffer' \in Seq(BOOLEAN)
      BY <1>1, <3>1, HeadTailProperties
    <3> QED
      BY <1>1, <3>2, <3>3
  <2>3. 1 \in 1..Len(buffer)
    BY <1>1, <2>2
  <2>4. Quiet(buffer) => last_read' = "other" /\ Quiet(buffer')
    BY <2>1, <2>2, <2>3 DEF Quiet
  <2>5. AckEnds(buffer) => \/ last_read' = "ack" /\ buffer' = <<>>
                           \/ last_read' = "other" /\ AckEnds(buffer')
    <3>1. CASE Len(buffer) = 1
      <4>1. buffer' = <<>>
        BY <2>2, <3>1, EmptySeq
      <4> QED
        BY <2>1, <2>2, <2>3, <3>1, <4>1 DEF AckEnds
    <3>2. CASE Len(buffer) # 1
      <4>1. buffer' # <<>>
        BY <1>1, <2>2, <3>2, EmptySeq
      <4>2. \A i \in 1..Len(buffer') : i + 1 = Len(buffer) <=> i = Len(buffer')
        BY <1>1, <2>2
      <4>3. AckEnds(buffer) => AckEnds(buffer')
        BY <2>2, <4>1, <4>2 DEF AckEnds
      <4>4. AckEnds(buffer) => ~buffer[1]
        BY <2>3, <3>2 DEF AckEnds
      <4> QED
        BY <2>1, <2>2, <4>3, <4>4
    <3> QED
      BY <3>1, <3>2
  <2>6. Quiet(rx)' = Quiet(rx) /\ AckEnds(rx)' = AckEnds(rx)
    BY <2>1
  <2> QED
    BY <2>1, <2>4, <2>5, <2>6 DEF NoAck, AckComing, Drained
<1>4. CASE ~ReadCompletes /\ ~StoreByte
  <2>1. UNCHANGED <<buffer, rx, last_read>>
    BY <1>4 DEF IoStep, IoThread, ReadAborted, ReadFails, OnReceive,
                BytesDone, CheckOpen, StartRead, RunReturns, wireVars
  <2> QED
    BY <2>1 DEF NoAck, AckComing, Drained, Quiet, AckEnds
<1> QED
  BY <1>2, <1>3, <1>4

\* With no byte left for it, it changes nothing.
LEMMA IoKeepsDrained ==
    ASSUME Drained, IoStep
    PROVE  Drained' /\ last_read' = last_read
<1>1. ~ReadCompletes /\ ~StoreByte
  BY DEF ReadCompletes, StoreByte, Drained
<1> QED
  BY <1>1 DEF IoStep, IoThread, ReadAborted, ReadFails, OnReceive,
              BytesDone, CheckOpen, StartRead, RunReturns, wireVars,
              Drained

LEMMA IoKeepsHandler ==
    ASSUME TypeInv, HandlerInv, IoStep
    PROVE  HandlerInv'
<1> USE DEF HandlerInv, mainVars, wireVars, ioVars
<1>1. CASE ReadCompletes
  BY <1>1 DEF ReadCompletes
<1>2. CASE ReadAborted \/ ReadFails \/ StartRead \/ RunReturns \/ CheckOpen \/ BytesDone
  BY <1>2 DEF ReadAborted, ReadFails, StartRead, RunReturns, CheckOpen, BytesDone
<1>3. CASE OnReceive
  BY <1>3 DEF OnReceive
<1>4. CASE StoreByte
  BY <1>4 DEF StoreByte
<1> QED
  BY <1>1, <1>2, <1>3, <1>4 DEF IoStep, IoThread

-------------------------------------------------------------------------------
(* The steps of the invariant. *)

boardSide == <<pc, offset, pos, isOpen, line, bootVars, program>>

LEMMA SendingUnchanged ==
    ASSUME NEW m, NEW a, NEW ws, NEW j, Sending(m, a, ws, j), UNCHANGED <<line, bootVars>>
    PROVE  Sending(m, a, ws, j)'
  BY DEF Sending, BoardAt, Taking, Prompt, bootVars

LEMMA BoardSideUnchanged ==
    ASSUME UNCHANGED <<offset, pos, isOpen, line, bootVars, program>>
    PROVE  /\ SettingUp => SettingUp'
           /\ Bursting => Bursting'
           /\ Executed => Executed'
           /\ Uploaded => Uploaded'
           /\ Crashed => Crashed'
           /\ StoredInPlace => StoredInPlace'
           /\ Setup' = Setup
<1>1. Setup' = Setup /\ mem' = mem /\ Prompt' = Prompt
  BY DEF Setup, bootVars, Prompt
<1>2. \A k : Frontier(k) => Frontier(k)'
  BY <1>1 DEF Frontier
<1>3. ASSUME SettingUp PROVE SettingUp'
  <2>1. PICK j \in 0..5 : Sending(Ahead(pos), SetupAddress(pos), <<SetupWord(pos)>>, j)
    BY <1>3 DEF SettingUp
  <2>2. PICK p : p = pos
    OBVIOUS
  <2>3. Sending(Ahead(p), SetupAddress(p), <<SetupWord(p)>>, j)'
    BY <2>1, <2>2, SendingUnchanged
  <2> QED
    BY <1>1, <1>3, <2>2, <2>3 DEF SettingUp
<1>4. ASSUME Bursting PROVE Bursting'
  <2>1. PICK k \in 0..FileBytes, n \in 1..FileBytes :
           /\ offset = WORD_BYTES * (k + n) /\ k + n <= FileBytes
           /\ \E j \in 0..(2 + n) : /\ Sending(0, Cell(k + 1), WordsFrom(k, n), j)
                                    /\ Frontier(k + StoredBy(0, j))
    BY <1>4 DEF Bursting
  <2>4. PICK j \in 0..(2 + n) : /\ Sending(0, Cell(k + 1), WordsFrom(k, n), j)
                                /\ Frontier(k + StoredBy(0, j))
    BY <2>1
  <2>2. Sending(0, Cell(k + 1), WordsFrom(k, n), j)'
    BY <2>4, SendingUnchanged
  <2>3. Frontier(k + StoredBy(0, j))'
    BY <1>2, <2>4
  <2> QED
    BY <1>1, <1>4, <2>1, <2>2, <2>3 DEF Bursting
<1>5. ASSUME Executed PROVE Executed'
  BY <1>1, <1>2, <1>5 DEF Executed
<1>6. ASSUME Uploaded PROVE Uploaded'
  BY <1>1, <1>2, <1>6 DEF Uploaded, JumpOnItsWay, bootVars
<1>7. ASSUME Crashed PROVE Crashed'
  <2>1. CASE line = <<>>
    BY <2>1 DEF Crashed
  <2>2. CASE \E j \in Nat : Sending(2, SPECIAL_SEQUENCE, <<64>>, j) /\ j + Len(line) <= 2
    <3>1. PICK j \in Nat : Sending(2, SPECIAL_SEQUENCE, <<64>>, j) /\ j + Len(line) <= 2
      BY <2>2
    <3>2. Sending(2, SPECIAL_SEQUENCE, <<64>>, j)'
      BY <3>1, SendingUnchanged
    <3> QED
      BY <3>1, <3>2 DEF Crashed
  <2> QED
    BY <1>7, <2>1, <2>2 DEF Crashed
<1> QED
  BY <1>1, <1>3, <1>4, <1>5, <1>6, <1>7 DEF StoredInPlace

LEMMA IoKeepsIInv ==
    ASSUME IInv, IoStep, UNCHANGED program
    PROVE  IInv'
<1>1. TypeInv' /\ HandlerInv'
  BY IoTypes, IoKeepsHandler DEF IInv
<1>2. UNCHANGED <<pc, offset, pos, isOpen, line, bootVars, program>> /\ io # "none" /\ ~Stopped
  BY DEF IoStep, IoThread, ReadCompletes, ReadAborted, ReadFails,
         OnReceive, StoreByte, BytesDone, CheckOpen, StartRead,
         RunReturns, wireVars, mainVars
<1>3. /\ SettingUp => SettingUp'
      /\ Bursting => Bursting'
      /\ Executed => Executed'
      /\ Uploaded => Uploaded'
      /\ Crashed => Crashed'
      /\ StoredInPlace => StoredInPlace'
      /\ Setup' = Setup
  BY <1>2, BoardSideUnchanged
<1>4. ASSUME Starting PROVE Starting'
  <2>1. PICK j \in 0..pos : /\ Sending(2, SPECIAL_SEQUENCE, <<64>>, j)
                            /\ j + Len(line) = pos
    BY <1>4 DEF Starting
  <2>2. Sending(2, SPECIAL_SEQUENCE, <<64>>, j)'
    BY <1>2, <2>1, SendingUnchanged
  <2> QED
    BY <1>2, <1>4, <2>1, <2>2 DEF Starting
<1>5. pc \notin {"cancel", "close", "join", "ended", "crashed", "asserted"} =>
         /\ NoAck => NoAck'
         /\ AckComing => AckComing'
         /\ Drained => Drained' /\ last_read' = last_read
  BY IoKeepsBytes DEF IInv
<1>7. NothingLeft => NothingLeft'
  BY <1>2, IoKeepsDrained DEF NothingLeft, bootVars
<1>8. Runs' = Runs
  BY DEF IoStep, IoThread, ReadCompletes, ReadAborted, ReadFails,
         OnReceive, StoreByte, BytesDone, CheckOpen, StartRead,
         RunReturns, mainVars, Runs
<1>6. Phase'
  BY <1>2, <1>3, <1>4, <1>5, <1>7, <1>8 DEF IInv, Phase, Stopped
<1> QED
  BY <1>1, <1>3, <1>6 DEF IInv


\* A byte of the board follows no ACK.
LEMMA BoardKeepsNoAck ==
    ASSUME TypeInv, NoAck, isOpen, BoardExecutes
    PROVE  /\ reply' \in {<<>>, <<FALSE>>} => NoAck'
           /\ reply' = <<TRUE>> => AckComing'
<1>1. UNCHANGED <<last_read, buffer>> /\ rx' = rx \o reply'
  BY DEF BoardExecutes, ioVars
<1>2. rx \in Seq(BOOLEAN) /\ Quiet(rx) /\ last_read # "ack" /\ Quiet(buffer)
  BY DEF TypeInv, LegacyTypeOK, NoAck
<1>3. <<TRUE>> # <<>> /\ <<TRUE>>[1] # <<FALSE>>[1]
  OBVIOUS
<1>4. ASSUME reply' \in {<<>>, <<FALSE>>} PROVE NoAck'
  <2>1. Quiet(rx \o reply')
    BY <1>2, <1>3, <1>4, BoardAnswers
  <2>2. Quiet(rx')
    BY <1>1, <2>1
  <2> QED
    BY <1>1, <1>2, <2>2 DEF NoAck
<1>5. ASSUME reply' = <<TRUE>> PROVE AckComing'
  <2>1. AckEnds(rx \o reply')
    BY <1>2, <1>5, BoardAnswers
  <2>2. AckEnds(rx')
    BY <1>1, <2>1
  <2> QED
    BY <1>1, <1>2, <2>2 DEF AckComing
<1> QED
  BY <1>4, <1>5

\* What BoardExecutes leaves alone.
boardLeaves == <<pc, options, port, offset, pos, isOpen, last_read, io, read, buffer, program>>

LEMMA BoardWhileStarting ==
    ASSUME TypeInv, StoredInPlace, Starting, pc \in {"open", "setup", "clear"}, pos < 3, NoAck,
           BoardExecutes, UNCHANGED boardLeaves
    PROVE  StoredInPlace' /\ Starting' /\ NoAck'
<1>1. PICK j \in 0..pos : /\ Sending(2, SPECIAL_SEQUENCE, <<64>>, j)
                          /\ j + Len(line) = pos
  BY DEF Starting
<1>2. line \in Seq(LineToken) /\ line # <<>> /\ Len(line) \in Nat /\ pos \in Nat
  BY LenProperties DEF TypeInv, LegacyTypeOK, BoardExecutes
<1>9. isOpen
  BY <1>1, <1>2, EmptySeq DEF Starting
<1>3. j \in Nat /\ j < pos /\ j + 1 < Total(2, <<64>>) /\ j < 2 + 3
  BY <1>1, <1>2, EmptySeq DEF Total
<1>4. <<64>> \in Seq(Nat) /\ <<64>> # <<>> /\ SPECIAL_SEQUENCE \in Nat
  BY DEF SPECIAL_SEQUENCE
<1>5. /\ mem' = mem
      /\ Sending(2, SPECIAL_SEQUENCE, <<64>>, j + 1)' /\ reply' \in {<<>>, <<FALSE>>}
      /\ Len(line') = Len(line) - 1
  BY <1>1, <1>2, <1>3, <1>4, SendingStep
<1>6. StoredInPlace'
  BY <1>5 DEF StoredInPlace
<1>7. j + 1 \in 0..pos' /\ (j + 1) + Len(line') = pos'
  BY <1>1, <1>2, <1>3, <1>5 DEF boardLeaves
<1>8. Starting'
  BY <1>5, <1>7 DEF Starting, boardLeaves
<1> QED
  BY <1>5, <1>6, <1>8, <1>9, BoardKeepsNoAck

LEMMA BoardWhileSettingUp ==
    ASSUME TypeInv, StoredInPlace, SettingUp, isOpen, NoAck, BoardExecutes, UNCHANGED boardLeaves
    PROVE  /\ StoredInPlace'
           /\ (SettingUp' /\ NoAck') \/ (Executed' /\ AckComing')
<1>1. PICK j \in 0..5 : Sending(Ahead(pos), SetupAddress(pos), <<SetupWord(pos)>>, j)
  BY DEF SettingUp
<1>2. PICK m, a, v : m = Ahead(pos) /\ a = SetupAddress(pos) /\ v = SetupWord(pos)
  OBVIOUS
<1>3. /\ m \in {0, 2} /\ v \in Nat /\ a \in Nat
      /\ a \in {SPECIAL_SEQUENCE, FLASH_UNLOCK, EraseAddr}
  BY <1>2, LegacyAssumption DEF Ahead, SetupAddress, SetupWord, SPECIAL_SEQUENCE, FLASH_UNLOCK
<1>4. <<v>> \in Seq(Nat) /\ <<v>> # <<>> /\ Len(<<v>>) = 1 /\ line \in Seq(LineToken) /\ j \in Nat
  BY <1>3 DEF TypeInv
<1>5. Sending(m, a, <<v>>, j) /\ j < m + 4 /\ Total(m, <<v>>) = m + 4
  BY <1>1, <1>2, <1>3, <1>4 DEF Sending, Total
<1>6. /\ mem' = IF j < m + 3 THEN mem ELSE Store(a + 4 * (j - m - 3), <<v>>[j - m - 2])
      /\ j + 1 < m + 4 => Sending(m, a, <<v>>, j + 1)' /\ reply' \in {<<>>, <<FALSE>>}
      /\ j + 1 = m + 4 => line' = <<>> /\ Prompt' /\ reply' = <<TRUE>>
  BY <1>3, <1>4, <1>5, SendingStep
<1>7. StoredInPlace'
  <2>1. CASE j < m + 3
    BY <1>6, <2>1 DEF StoredInPlace
  <2>2. CASE ~(j < m + 3)
    <3>1. a + 4 * (j - m - 3) = a /\ j - m - 2 = 1
      BY <1>3, <1>5, <2>2
    <3>2. mem' = Store(a, v)
      BY <1>6, <2>2, <3>1
    <3> QED
      BY <1>3, <3>2, SetupStored
  <2> QED
    BY <2>1, <2>2
<1>8. Setup' = Setup /\ pos' = pos /\ offset' = offset /\ isOpen' = isOpen
  BY DEF Setup, boardLeaves
<1>9. CASE j + 1 < m + 4
  <2>1. j + 1 \in 0..5
    BY <1>3, <1>9
  <2>2. m = Ahead(pos') /\ a = SetupAddress(pos') /\ v = SetupWord(pos')
    BY <1>2, <1>8
  <2>3. SettingUp'
    BY <1>6, <1>8, <1>9, <2>1, <2>2 DEF SettingUp
  <2> QED
    BY <1>6, <1>7, <1>9, <2>3, BoardKeepsNoAck
<1>10. CASE j + 1 = m + 4
  <2>1. Frontier(0)'
    BY DEF Frontier
  <2>2. offset' = WORD_BYTES * 0 /\ 0 \in 0..FileBytes /\ ~(offset' > 0)
    BY <1>8, ImageCells DEF SettingUp, WORD_BYTES
  <2>3. Executed'
    BY <1>6, <1>8, <1>10, <2>1, <2>2 DEF Executed, SettingUp
  <2> QED
    BY <1>6, <1>7, <1>10, <2>3, BoardKeepsNoAck
<1>11. j + 1 < m + 4 \/ j + 1 = m + 4
  BY <1>3, <1>5
<1> QED
  BY <1>9, <1>10, <1>11

LEMMA BoardWhileBursting ==
    ASSUME TypeInv, StoredInPlace, Bursting, isOpen, NoAck, BoardExecutes, UNCHANGED boardLeaves
    PROVE  /\ StoredInPlace'
           /\ (Bursting' /\ NoAck') \/ (Executed' /\ AckComing')
<1>1. PICK k \in 0..FileBytes, n \in 1..FileBytes :
         /\ offset = WORD_BYTES * (k + n) /\ k + n <= FileBytes
         /\ \E j \in 0..(2 + n) : /\ Sending(0, Cell(k + 1), WordsFrom(k, n), j)
                                  /\ Frontier(k + StoredBy(0, j))
  BY DEF Bursting
<1>2. PICK j \in 0..(2 + n) : /\ Sending(0, Cell(k + 1), WordsFrom(k, n), j)
                              /\ Frontier(k + StoredBy(0, j))
  BY <1>1
<1>3. PICK ws : ws = WordsFrom(k, n)
  OBVIOUS
<1>4. k \in Nat /\ n \in Nat /\ n >= 1 /\ j \in Nat /\ FileBytes \in Nat
  BY <1>1, ImageCells
<1>5. /\ ws \in Seq(Nat) /\ Len(ws) = n /\ ws # <<>>
      /\ \A d \in 1..n : ws[d] = WordAt(k + d)
  <2>1. /\ ws \in Seq(Nat) /\ Len(ws) = n
        /\ \A d \in 1..n : ws[d] = WordAt(k + d)
    BY <1>3, <1>4, WordsTypes
  <2>2. ws # <<>>
    BY <1>4, <2>1, EmptySeq
  <2> QED
    BY <2>1, <2>2
<1>6. Cell(k + 1) \in Nat /\ line \in Seq(LineToken) /\ mem \in [Flash -> Nat] /\ pos \in Nat
  BY <1>4 DEF Cell, Address, WORD_BYTES, TypeInv, LegacyTypeOK, BootTypeOK
<1>7. Total(0, ws) = n + 3
  BY <1>4, <1>5 DEF Total
<1>8. /\ mem' = IF j < 3 THEN mem ELSE Store(Cell(k + 1) + 4 * (j - 3), ws[j - 2])
      /\ j + 1 < n + 3 => Sending(0, Cell(k + 1), ws, j + 1)' /\ reply' \in {<<>>, <<FALSE>>}
      /\ j + 1 = n + 3 => line' = <<>> /\ Prompt' /\ reply' = <<TRUE>>
  <2>1. /\ mem' = IF j < 0 + 3 THEN mem ELSE Store(Cell(k + 1) + 4 * (j - 0 - 3), ws[j - 0 - 2])
        /\ j + 1 < Total(0, ws) => Sending(0, Cell(k + 1), ws, j + 1)' /\ reply' \in {<<>>, <<FALSE>>}
        /\ j + 1 = Total(0, ws) => line' = <<>> /\ Prompt' /\ reply' = <<TRUE>>
    BY <1>2, <1>3, <1>4, <1>5, <1>6, SendingStep
  <2>2. j - 0 - 3 = j - 3 /\ j - 0 - 2 = j - 2 /\ 0 + 3 = 3
    BY <1>4
  <2>3. mem' = IF j < 3 THEN mem ELSE Store(Cell(k + 1) + 4 * (j - 3), ws[j - 2])
    BY <2>1, <2>2, Zenon
  <2> QED
    BY <1>7, <2>1, <2>3
<1>9. StoredInPlace' /\ Frontier(k + StoredBy(0, j + 1))'
  <2>1. CASE j < 3
    <3>1. StoredBy(0, j) = 0 /\ StoredBy(0, j + 1) = 0
      BY <1>4, <2>1 DEF StoredBy
    <3>2. mem' = mem
      BY <1>8, <2>1
    <3> QED
      BY <1>2, <3>1, <3>2 DEF StoredInPlace, Frontier
  <2>2. CASE ~(j < 3)
    <3>1. PICK q : q = k + (j - 2)
      OBVIOUS
    <3>2. q \in 1..FileBytes /\ Cell(k + 1) + 4 * (j - 3) = Cell(q)
      BY <1>1, <1>4, <2>2, <3>1 DEF Cell, Address, WORD_BYTES
    <3>3. j - 2 \in 1..n
      BY <1>4, <2>2
    <3>4. ws[j - 2] = WordAt(q)
      BY <1>5, <3>1, <3>3
    <3>5. mem' = Store(Cell(q), WordAt(q))
      BY <1>8, <2>2, <3>2, <3>4
    <3>6. StoredInPlace' /\ (Frontier(q - 1) => Frontier(q)')
      BY <1>6, <3>2, <3>5, WordStored
    <3>7. k + StoredBy(0, j) = q - 1 /\ k + StoredBy(0, j + 1) = q
      BY <1>4, <2>2, <3>1 DEF StoredBy
    <3> QED
      BY <1>2, <3>6, <3>7
  <2> QED
    BY <2>1, <2>2
<1>10. Setup' = Setup /\ pos' = pos /\ offset' = offset /\ isOpen' = isOpen
  BY DEF Setup, boardLeaves
<1>11. CASE j + 1 < n + 3
  <2>1. j + 1 \in 0..(2 + n)
    BY <1>4, <1>11
  <2>2. Sending(0, Cell(k + 1), WordsFrom(k, n), j + 1)'
    BY <1>3, <1>8, <1>11
  <2>3. Bursting'
    BY <1>1, <1>9, <1>10, <2>1, <2>2 DEF Bursting
  <2> QED
    BY <1>8, <1>9, <1>11, <2>3, BoardKeepsNoAck
<1>12. CASE j + 1 = n + 3
  <2>1. k + StoredBy(0, j + 1) = k + n /\ k + n \in 0..FileBytes
    BY <1>1, <1>4, <1>12 DEF StoredBy
  <2>2. Frontier(k + n)'
    BY <1>9, <2>1
  <2>3. pos \in 3..Len(Setup) /\ pos = Len(Setup)
    BY SetupCommands DEF Bursting, TypeInv
  <2>4. Executed'
    BY <1>1, <1>8, <1>10, <1>12, <2>1, <2>2, <2>3 DEF Executed
  <2> QED
    BY <1>8, <1>9, <1>12, <2>4, BoardKeepsNoAck
<1>13. j + 1 < n + 3 \/ j + 1 = n + 3
  BY <1>4
<1> QED
  BY <1>11, <1>12, <1>13

LEMMA BoardWhenUploaded ==
    ASSUME StoredInPlace, Uploaded, BoardExecutes
    PROVE  StoredInPlace' /\ Uploaded'
<1>1. PICK tok : tok = Head(line)
  OBVIOUS
<1>2. PICK v \in Values(tok), rest \in Rests(tok) : Consume(tok, v) /\ line' = rest \o Tail(line)
  BY <1>1 DEF BoardExecutes
<1>3. line # <<>>
  BY DEF BoardExecutes
<1>4. ASSUME tok \in {key("j"), num(Address)}, digits = 0
      PROVE  rest = <<>> /\ (tok = num(Address) => v = Address)
  BY <1>4, ExactTokens DEF key, num
<1>5. CASE Prompt
  <2>1. /\ tok = <<"key", "j">> /\ digits = 0 /\ mode = "console" /\ cmd = "none"
        /\ Tail(line) \in {<<>>, <<num(Address)>>}
    <3>1. line \in {<<key("j")>>, <<key("j"), num(Address)>>}
      BY <1>3, <1>5 DEF Uploaded, JumpOnItsWay, Prompt
    <3>2. Head(line) = key("j") /\ Tail(line) \in {<<>>, <<num(Address)>>}
      <4>1. CASE line = <<key("j")>>
        BY <4>1, OneToken
      <4>2. CASE line = <<key("j"), num(Address)>>
        BY <4>2, TwoTokens
      <4> QED
        BY <3>1, <4>1, <4>2
    <3> QED
      BY <1>1, <1>5, <3>2 DEF Prompt, key
  <2>2. Select(tok)
    BY <1>2, <2>1 DEF Consume, MenuConsole, MenuAgain, EnterBridge, Ignore, Absorb,
                      Elsewhere, AtPrompt, ReadHeader, ReadData, Header
  <2>3. /\ cmd' = "j" /\ args' = <<>> /\ digits' = 0 /\ mode' = "console" /\ mem' = mem
    BY <2>1, <2>2 DEF Select
  <2>4. rest = <<>>
    BY <1>4, <2>1 DEF key
  <2>5. line' \in {<<>>, <<num(Address)>>}
    BY <1>2, <2>1, <2>4
  <2> QED
    BY <2>3, <2>5 DEF Uploaded, JumpOnItsWay, Frontier, StoredInPlace
<1>6. CASE cmd = "j"
  <2>1. /\ tok = <<"num", Address>> /\ digits = 0 /\ mode = "console" /\ args = <<>>
        /\ Tail(line) = <<>>
    BY <1>1, <1>3, <1>6, OneToken DEF Uploaded, JumpOnItsWay, Prompt, num
  <2>2. rest = <<>> /\ v = Address
    BY <1>4, <2>1 DEF num
  <2>3. ReadHeader(v) \/ ReadData(v)
    BY <1>2, <1>6, <2>1 DEF Consume, MenuConsole, MenuAgain, Select, EnterBridge, Ignore, Absorb,
                      Elsewhere, AtPrompt, EndsNumber
  <2>4. Header[cmd] = 1 /\ Len(args) = 0 /\ Len(Append(args, v)) = 1
        /\ DataCount(cmd, Append(args, v)) = 0
    BY <1>6, <2>1 DEF Header, DataCount
  <2>5. Finish /\ mem' = mem
    BY <2>3, <2>4 DEF ReadHeader, ReadData
  <2>6. mode' = "run"
    BY <1>6, <2>5 DEF Finish
  <2>7. line' = <<>>
    BY <1>2, <2>1, <2>2
  <2> QED
    BY <2>5, <2>6, <2>7 DEF Uploaded, JumpOnItsWay, Frontier, StoredInPlace
<1> QED
  BY <1>3, <1>5, <1>6 DEF Uploaded, JumpOnItsWay

LEMMA BoardWhenCrashed ==
    ASSUME TypeInv, StoredInPlace, Crashed, BoardExecutes
    PROVE  StoredInPlace' /\ Crashed'
<1>1. line # <<>> /\ line \in Seq(LineToken) /\ Len(line) \in Nat
  BY LenProperties DEF BoardExecutes, TypeInv
<1>2. PICK j \in Nat : Sending(2, SPECIAL_SEQUENCE, <<64>>, j) /\ j + Len(line) <= 2
  BY <1>1 DEF Crashed
<1>3. j + 1 < Total(2, <<64>>) /\ j < 2 + 3
  BY <1>1, <1>2 DEF Total
<1>4. <<64>> \in Seq(Nat) /\ <<64>> # <<>> /\ SPECIAL_SEQUENCE \in Nat
  BY DEF SPECIAL_SEQUENCE
<1>5. /\ mem' = mem
      /\ Sending(2, SPECIAL_SEQUENCE, <<64>>, j + 1)'
      /\ Len(line') = Len(line) - 1
  BY <1>1, <1>2, <1>3, <1>4, SendingStep
<1>6. j + 1 \in Nat /\ (j + 1) + Len(line') <= 2
  BY <1>1, <1>2, <1>5
<1> QED
  BY <1>5, <1>6 DEF Crashed, StoredInPlace

LEMMA BoardKeepsIInv ==
    ASSUME IInv, BoardExecutes, UNCHANGED program
    PROVE  IInv'
<1>1. TypeInv' /\ UNCHANGED boardLeaves
  BY BoardTypes DEF IInv, BoardExecutes, mainVars, ioVars, boardLeaves
<1>2. HandlerInv'
  BY <1>1 DEF IInv, HandlerInv, boardLeaves
<1>3. line # <<>> /\ TypeInv /\ StoredInPlace
  BY DEF BoardExecutes, IInv
<1>4. pc' = pc /\ pos' = pos /\ isOpen' = isOpen
  BY <1>1 DEF boardLeaves
<1>5. CASE pc \in {"open", "setup", "clear"} /\ pos < 3 /\ Starting /\ NoAck
  <2>1. StoredInPlace' /\ Starting' /\ NoAck'
    BY <1>1, <1>3, <1>5, BoardWhileStarting
  <2> QED
    BY <1>1, <1>2, <1>4, <1>5, <2>1 DEF IInv, Phase
<1>6. CASE pc = "poll" /\ isOpen /\ SettingUp /\ NoAck
  <2>1. StoredInPlace' /\ ((SettingUp' /\ NoAck') \/ (Executed' /\ AckComing'))
    BY <1>1, <1>3, <1>6, BoardWhileSettingUp
  <2> QED
    BY <1>1, <1>2, <1>4, <1>6, <2>1 DEF IInv, Phase
<1>7. CASE pc = "poll" /\ isOpen /\ Bursting /\ NoAck
  <2>1. StoredInPlace' /\ ((Bursting' /\ NoAck') \/ (Executed' /\ AckComing'))
    BY <1>1, <1>3, <1>7, BoardWhileBursting
  <2> QED
    BY <1>1, <1>2, <1>4, <1>7, <2>1 DEF IInv, Phase
<1>8. CASE pc \in {"cancel", "close", "join", "ended"} /\ Uploaded /\ (~Runs => NothingLeft)
  <2>1. StoredInPlace' /\ Uploaded'
    BY <1>3, <1>8, BoardWhenUploaded
  <2>2. Runs /\ Runs'
    BY <1>1, <1>3, <1>8 DEF NothingLeft, boardLeaves, Runs
  <2> QED
    BY <1>1, <1>2, <1>4, <1>8, <2>1, <2>2 DEF IInv, Phase
<1>9. CASE pc \in {"crashed", "asserted"} /\ Crashed
  <2>1. StoredInPlace' /\ Crashed'
    BY <1>3, <1>9, BoardWhenCrashed
  <2> QED
    BY <1>1, <1>2, <1>4, <1>9, <2>1 DEF IInv, Phase
<1> QED
  BY <1>3, <1>5, <1>6, <1>7, <1>8, <1>9 DEF IInv, Phase, Executed


\* A store command sent whole or in part to the board at its prompt.
LEMMA StoreSent ==
    ASSUME NEW a \in Nat, NEW ws \in Seq(Nat), NEW toks \in Seq(LineToken),
           Len(toks) = 3 + Len(ws),
           \A i \in 1..(3 + Len(ws)) : toks[i] = TokenAt(0, a, ws, i),
           Prompt, line = <<>>, UNCHANGED bootVars,
           NEW n \in 1..Len(toks), line' = line \o SubSeq(toks, 1, n)
    PROVE  Sending(0, a, ws, 0)'
<1>1. Len(ws) \in Nat /\ Len(toks) \in Nat
  BY LenProperties
<1>2. line \in Seq(LineToken) /\ Len(line) = 0
  BY EmptySeq
<1>3. Len(line') = n /\ \A i \in 1..n : line'[i] = toks[i]
  BY <1>1, <1>2, LineGrows
<1>4. Total(0, ws) = 3 + Len(ws)
  BY <1>1 DEF Total
<1>5. BoardAt(0, a, ws, 0)'
  BY DEF BoardAt, Prompt, bootVars
<1>6. \A i \in 1..n : i \in 1..(3 + Len(ws)) /\ 0 + i = i
  BY <1>1
<1>7. \A i \in 1..n : line'[i] = TokenAt(0, a, ws, 0 + i)
  BY <1>3, <1>6
<1> QED
  BY <1>1, <1>3, <1>4, <1>5, <1>7 DEF Sending

LEMMA SetupStarts ==
    ASSUME IInv, SendSetup, UNCHANGED program, pos < 3, Starting, NoAck
    PROVE  Phase'
<1>1. PICK j \in 0..pos : /\ Sending(2, SPECIAL_SEQUENCE, <<64>>, j)
                          /\ j + Len(line) = pos
  BY DEF Starting
<1>2. line \in Seq(LineToken) /\ Len(line) \in Nat /\ pos \in {0, 1, 2} /\ j \in Nat
  BY LenProperties DEF IInv, TypeInv, LegacyTypeOK
<1>3. PICK toks, next :
         /\ toks = Setup[pos + 1]
         /\ next = CASE pos = 0 -> "setup" [] pos = 1 -> "clear" [] OTHER -> "poll"
         /\ WriteBytes(toks, next)
  BY DEF SendSetup
<1>4. toks \in Seq(LineToken) /\ Len(Setup) \in {3, 5} /\ Setup' = Setup
  <2>1. pos \in 0..(Len(Setup) - 1)
    BY <1>2, SetupCommands DEF SendSetup, IInv, TypeInv
  <2> QED
    BY <1>3, <2>1, SetupTypes, SetupCommands DEF IInv, TypeInv, Setup
<1>5. /\ pos' = pos + 1 /\ offset' = offset
      /\ UNCHANGED <<isOpen, last_read, ioVars, rx, bootVars>>
  BY <1>3 DEF SendSetup, WriteBytes
<1>6. NoAck'
  BY <1>5 DEF NoAck, Quiet, ioVars
<1>7. CASE pc' \in {"crashed", "asserted"} /\ UNCHANGED line
  <2>1. Sending(2, SPECIAL_SEQUENCE, <<64>>, j)'
    BY <1>1, <1>5, <1>7, SendingUnchanged
  <2>2. j + Len(line') <= 2
    BY <1>1, <1>2, <1>7
  <2> QED
    BY <1>2, <1>7, <2>1, <2>2 DEF Phase, Crashed
<1>8. CASE /\ isOpen /\ pc' = next
           /\ \E n \in 1..Len(toks) : line' = line \o SubSeq(toks, 1, n)
  <2>1. pc' = next /\ \E n \in 1..Len(toks) : line' = line \o SubSeq(toks, 1, n)
    BY <1>8
  <2>2. PICK n \in 1..Len(toks) : line' = line \o SubSeq(toks, 1, n)
    BY <2>1
  <2>3. /\ Len(line') = Len(line) + n
        /\ \A i \in 1..Len(line) : line'[i] = line[i]
        /\ \A i \in 1..n : line'[Len(line) + i] = toks[i]
    BY <1>2, <1>4, <2>2, LineGrows
  <2>4. Len(toks) \in Nat /\ n \in Nat /\ n >= 1
    BY <1>4, LenProperties
  <2>5. Total(2, <<64>>) = 6 /\ BoardAt(2, SPECIAL_SEQUENCE, <<64>>, j)
    BY <1>1 DEF Sending, Total
  <2>6. BoardAt(2, SPECIAL_SEQUENCE, <<64>>, j)'
    BY <1>5, <2>5 DEF BoardAt, Prompt, Taking, bootVars
  <2>7. ASSUME pos + n <= 6,
               \A i \in 1..n : toks[i] = TokenAt(2, SPECIAL_SEQUENCE, << 64 >>, pos + i)
        PROVE  Sending(2, SPECIAL_SEQUENCE, <<64>>, j)'
    <3>1. ASSUME NEW i \in 1..Len(line')
          PROVE  line'[i] = TokenAt(2, SPECIAL_SEQUENCE, <<64>>, j + i)
      <4>1. CASE i <= Len(line)
        BY <1>1, <1>2, <2>3, <4>1 DEF Sending
      <4>2. CASE ~(i <= Len(line))
        <5>1. PICK d : d = i - Len(line)
          OBVIOUS
        <5>2. d \in 1..n /\ i = Len(line) + d /\ j + i = pos + d
          <6>1. Len(line') = Len(line) + n /\ j + Len(line) = pos
            BY <1>1, <2>3
          <6>2. i \in Nat /\ 1 <= i /\ i <= Len(line) + n
            BY <1>2, <2>4, <6>1
          <6> QED
            BY <1>2, <2>4, <4>2, <5>1, <6>1, <6>2
        <5> QED
          BY <2>3, <2>7, <5>2
      <4> QED
        BY <4>1, <4>2
    <3>2. j < 6 /\ Len(line') <= 6 - j
      BY <1>1, <1>2, <2>3, <2>4, <2>7
    <3> QED
      BY <2>5, <2>6, <3>1, <3>2 DEF Sending
  <2>8. CASE pos \in {0, 1}
    <3>1. /\ Len(toks) = 1
          /\ toks[1] = IF pos = 0 THEN key("newline") ELSE key("a")
      <4>1. Setup[1] = <<key("newline")>> /\ Setup[2] = <<key("a")>>
        BY SetupCommands DEF IInv, TypeInv
      <4>2. CASE pos = 0
        <5>1. toks = <<key("newline")>>
          BY <1>3, <4>1, <4>2
        <5> QED
          BY <4>2, <5>1
      <4>3. CASE pos = 1
        <5>1. toks = <<key("a")>>
          BY <1>3, <4>1, <4>3
        <5> QED
          BY <4>3, <5>1
      <4> QED
        BY <2>8, <4>2, <4>3
    <3>2. n = 1
      BY <2>4, <3>1
    <3>3. toks[1] = TokenAt(2, SPECIAL_SEQUENCE, <<64>>, pos + 1)
      BY <2>8, <3>1 DEF TokenAt, key
    <3>4. Sending(2, SPECIAL_SEQUENCE, <<64>>, j)'
      BY <2>7, <2>8, <3>2, <3>3
    <3>5. j \in 0..pos' /\ j + Len(line') = pos'
      BY <1>1, <1>2, <1>5, <2>3, <3>2
    <3>6. pc' = IF pos = 0 THEN "setup" ELSE "clear"
      BY <1>3, <2>1, <2>8
    <3>7. Starting' /\ pos' < 3
      BY <1>2, <1>5, <1>8, <2>8, <3>4, <3>5, <3>6 DEF Starting
    <3> QED
      BY <1>6, <3>6, <3>7 DEF Phase
  <2>9. CASE pos = 2
    <3>1. toks = Store1(SPECIAL_SEQUENCE, 64) /\ pc' = "poll"
      BY <1>3, <2>1, <2>9, SetupCommands DEF IInv, TypeInv
    <3>2. Len(toks) = 4 /\ \A i \in 1..4 : toks[i] = TokenAt(0, SPECIAL_SEQUENCE, <<64>>, i)
      BY <3>1, StoreTokens DEF SPECIAL_SEQUENCE
    <3>3. \A i \in 1..4 : TokenAt(2, SPECIAL_SEQUENCE, <<64>>, 2 + i)
                             = TokenAt(0, SPECIAL_SEQUENCE, <<64>>, i)
      <4> TAKE i \in 1..4
      <4>1. /\ ~(2 + i <= 2) /\ ~(i <= 0) /\ (2 + i = 2 + 1 <=> i = 0 + 1)
            /\ (2 + i) - 2 - 1 = i - 0 - 1
        OBVIOUS
      <4> QED
        BY <4>1, Zenon DEF TokenAt
    <3>4. Sending(2, SPECIAL_SEQUENCE, <<64>>, j)'
      BY <2>4, <2>7, <2>9, <3>2, <3>3
    <3>5. pos' = 3 /\ 3 \in 3..Len(Setup) /\ j \in 0..5 /\ offset' = 0
      <4>1. pos' = 3 /\ offset' = 0
        BY <1>5, <2>9 DEF Starting
      <4>2. 3 \in 3..Len(Setup)
        <5>1. Len(Setup) = 3 \/ Len(Setup) = 5
          BY <1>4
        <5>2. 3 \in 3..3 /\ 3 \in 3..5
          OBVIOUS
        <5> QED
          BY <5>1, <5>2
      <4>3. j \in 0..5
        BY <1>1, <2>9
      <4> QED
        BY <4>1, <4>2, <4>3
    <3>6. Ahead(3) = 2 /\ SetupAddress(3) = SPECIAL_SEQUENCE /\ SetupWord(3) = 64
      BY DEF Ahead, SetupAddress, SetupWord
    <3>7. SettingUp'
      BY <1>4, <3>4, <3>5, <3>6 DEF SettingUp
    <3> QED
      BY <1>5, <1>6, <1>8, <3>1, <3>7 DEF Phase
  <2> QED
    BY <1>2, <2>8, <2>9
<1> QED
  BY <1>3, <1>7, <1>8 DEF WriteBytes

\* A command that is not written at all, of a board that has nothing to do.
LEMMA NothingSent ==
    ASSUME line = <<>>, UNCHANGED line, pc' \in {"crashed", "asserted"}
    PROVE  Phase'
  BY DEF Phase, Crashed

LEMMA SetupContinues ==
    ASSUME IInv, SendSetup, UNCHANGED program, pos < Len(Setup), Executed, Drained, last_read # "ack"
    PROVE  Phase'
<1>1. Len(Setup) = 5 /\ pos \in {3, 4} /\ offset = 0
  <2>1. Len(Setup) \in {3, 5}
    BY SetupCommands DEF IInv, TypeInv
  <2>2. pos \in 3..Len(Setup) /\ offset \in Nat /\ (offset > 0 => pos = Len(Setup))
    BY DEF Executed, IInv, TypeInv, LegacyTypeOK
  <2>3. Len(Setup) # 3
    <3>1. Len(Setup) = 3 => pos \in 3..3 /\ pos < 3
      BY <2>2
    <3> QED
      BY <3>1
  <2>4. Len(Setup) = 5
    BY <2>1, <2>3
  <2>5. pos \in 3..5 /\ pos < 5
    BY <2>2, <2>4
  <2> QED
    BY <2>2, <2>4, <2>5
<1>2. PICK toks : toks = Setup[pos + 1] /\ WriteBytes(toks, "poll")
  BY <1>1 DEF SendSetup
<1>3. PICK p, a, v : /\ p = pos + 1 /\ a = SetupAddress(p) /\ v = SetupWord(p)
  OBVIOUS
<1>4. /\ p \in {4, 5} /\ a \in Nat /\ v \in Nat /\ toks = Store1(a, v)
  <2>1. CASE pos = 3
    BY <1>1, <1>2, <1>3, <2>1, SetupCommands DEF SetupAddress, SetupWord, IInv, TypeInv, FLASH_UNLOCK
  <2>2. CASE pos = 4
    BY <1>1, <1>2, <1>3, <2>2, SetupCommands, LegacyAssumption DEF SetupAddress, SetupWord, IInv, TypeInv
  <2> QED
    BY <1>1, <2>1, <2>2
<1>5. /\ toks \in Seq(LineToken) /\ Len(toks) = 4
      /\ \A i \in 1..4 : toks[i] = TokenAt(0, a, <<v>>, i)
  BY <1>4, StoreTokens
<1>0. CASE pc' \in {"crashed", "asserted"} /\ UNCHANGED line
  BY <1>0, NothingSent DEF Executed
<1> SUFFICES ASSUME pc' = "poll", \E n \in 1..Len(toks) : line' = line \o SubSeq(toks, 1, n)
             PROVE  Phase'
  BY <1>0, <1>2 DEF WriteBytes
<1>6. /\ pos' = p /\ offset' = 0 /\ pc' = "poll"
      /\ UNCHANGED <<isOpen, last_read, ioVars, rx, bootVars>>
      /\ \E n \in 1..Len(toks) : line' = line \o SubSeq(toks, 1, n)
  BY <1>1, <1>2, <1>3 DEF SendSetup, WriteBytes, Executed
<1>7. Sending(0, a, <<v>>, 0)'
  <2>1. PICK n \in 1..Len(toks) : line' = line \o SubSeq(toks, 1, n)
    BY <1>6
  <2>2. <<v>> \in Seq(Nat) /\ Len(<<v>>) = 1 /\ 3 + 1 = 4
    BY <1>4
  <2> QED
    BY <1>4, <1>5, <1>6, <2>1, <2>2, StoreSent DEF Executed
<1>8. Setup' = Setup /\ p \in 3..Len(Setup) /\ Ahead(p) = 0
  BY <1>1, <1>4 DEF Setup, Ahead
<1>9. SettingUp'
  BY <1>3, <1>6, <1>7, <1>8 DEF SettingUp
<1>10. NoAck'
  <2>1. Len(buffer) = 0 /\ Len(rx) = 0
    BY DEF Drained
  <2> QED
    BY <1>6, <2>1 DEF NoAck, Quiet, ioVars
<1> QED
  BY <1>6, <1>9, <1>10 DEF Phase, Executed

LEMMA BurstStarts ==
    ASSUME IInv, SendBurst, UNCHANGED program, pos = Len(Setup), Executed, Drained, last_read # "ack"
    PROVE  Phase'
<1>1. PICK k \in 0..FileBytes : offset = WORD_BYTES * k /\ Frontier(k)
  BY DEF Executed
<1>2. PICK n : n = BurstWords(FileBytes - offset)
  OBVIOUS
<1>3. FileBytes \in Nat /\ FileBytes - offset \in Nat \ {0}
  BY ImageCells DEF SendBurst, IInv, TypeInv, LegacyTypeOK
<1>4. n \in 1..(FileBytes - offset)
  BY <1>2, <1>3, BurstFits DEF IInv, TypeInv
<1>5. n \in 1..FileBytes /\ n \in Nat /\ n >= 1 /\ k \in Nat /\ k + n <= FileBytes
  BY <1>1, <1>3, <1>4 DEF WORD_BYTES
<1>6. PICK toks : toks = WriteWords(WORD_BYTES * k, n)
  OBVIOUS
<1>7. WriteBytes(toks, "poll") /\ offset' = offset + n * WORD_BYTES /\ pos' = pos
  BY <1>1, <1>2, <1>6 DEF SendBurst
<1>8. /\ toks \in Seq(LineToken) /\ Len(toks) = 3 + n
      /\ \A i \in 1..(3 + n) : toks[i] = TokenAt(0, Cell(k + 1), WordsFrom(k, n), i)
  BY <1>5, <1>6, BurstTokens
<1>9. WordsFrom(k, n) \in Seq(Nat) /\ Len(WordsFrom(k, n)) = n /\ Cell(k + 1) \in Nat
  BY <1>5, WordsTypes DEF Cell, Address, WORD_BYTES
<1>0. CASE pc' \in {"crashed", "asserted"} /\ UNCHANGED line
  BY <1>0, NothingSent DEF Executed
<1> SUFFICES ASSUME pc' = "poll", \E m \in 1..Len(toks) : line' = line \o SubSeq(toks, 1, m)
             PROVE  Phase'
  BY <1>0, <1>7 DEF WriteBytes
<1>10. /\ pc' = "poll" /\ UNCHANGED <<isOpen, last_read, ioVars, rx, bootVars>>
       /\ \E m \in 1..Len(toks) : line' = line \o SubSeq(toks, 1, m)
  BY <1>7 DEF WriteBytes, Executed
<1>11. Sending(0, Cell(k + 1), WordsFrom(k, n), 0)'
  <2>1. PICK m \in 1..Len(toks) : line' = line \o SubSeq(toks, 1, m)
    BY <1>10
  <2> QED
    BY <1>8, <1>9, <1>10, <2>1, StoreSent DEF Executed
<1>12. Frontier(k + StoredBy(0, 0))'
  <2>1. k + StoredBy(0, 0) = k
    BY <1>5 DEF StoredBy
  <2> QED
    BY <1>1, <1>10, <2>1 DEF Frontier, bootVars
<1>13. Setup' = Setup /\ offset' = WORD_BYTES * (k + n) /\ 0 \in 0..(2 + n)
  BY <1>1, <1>5, <1>7 DEF Setup, WORD_BYTES
<1>14. Bursting'
  BY <1>5, <1>7, <1>11, <1>12, <1>13 DEF Bursting
<1>15. NoAck'
  <2>1. Len(buffer) = 0 /\ Len(rx) = 0
    BY DEF Drained
  <2> QED
    BY <1>10, <2>1 DEF NoAck, Quiet, ioVars
<1> QED
  BY <1>10, <1>14, <1>15 DEF Phase, Executed

\* The loop of write_bytes_fast ends when the whole image has been executed.
LEMMA UploadEnds ==
    ASSUME IInv, Jump \/ NoJump, Executed, Drained, last_read # "ack"
    PROVE  Phase'
<1>0. CASE pc' \in {"crashed", "asserted"} /\ UNCHANGED line
  BY <1>0, NothingSent DEF Executed
<1>1. PICK k \in 0..FileBytes : offset = WORD_BYTES * k /\ Frontier(k)
  BY DEF Executed
<1>2. k >= Len(Image)
  BY <1>1, ImageCells, LegacyAssumption DEF Jump, NoJump, WORD_BYTES
<1>3. Frontier(Len(Image))
  BY <1>1, <1>2, ImageCells DEF Frontier
<1>4. UNCHANGED <<mem, bootVars, options, last_read, buffer, rx>>
  BY DEF Jump, NoJump, WriteBytes, bootVars, ioVars, wireVars
<1>5. Frontier(Len(Image))' /\ Prompt' /\ Runs' = Runs /\ Drained'
  BY <1>3, <1>4 DEF Frontier, bootVars, Prompt, Executed, Runs, Drained
<1>6. CASE NoJump
  <2>1. line' = <<>> /\ pc' = "cancel"
    BY <1>6 DEF NoJump, wireVars, Executed
  <2>2. cmd' = "none"
    BY <1>5 DEF Prompt
  <2> QED
    BY <1>4, <1>5, <2>1, <2>2 DEF Phase, Uploaded, JumpOnItsWay, NothingLeft
<1>7. CASE Jump /\ pc' = "cancel"
  <2> DEFINE toks == <<key("j"), num(Address)>>
  <2>1. Runs /\ \E n \in 1..2 : line' = line \o SubSeq(toks, 1, n)
    BY <1>7 DEF Jump, WriteBytes
  <2>2. PICK n \in 1..2 : line' = line \o SubSeq(toks, 1, n)
    BY <2>1
  <2>3. /\ SubSeq(toks, 1, 1) = <<key("j")>>
        /\ SubSeq(toks, 1, 2) = toks
    BY TwoTokens
  <2>4. SubSeq(toks, 1, n) \in {<<key("j")>>, toks}
    <3>1. n = 1 \/ n = 2
      OBVIOUS
    <3> QED
      BY <2>3, <3>1
  <2>5. \A t \in {<<key("j")>>, toks} : <<>> \o t = t
    OBVIOUS
  <2>6. line' \in {<<key("j")>>, toks}
    BY <2>2, <2>4, <2>5 DEF Executed
  <2> QED
    BY <1>5, <1>7, <2>1, <2>6 DEF Phase, Uploaded, JumpOnItsWay
<1>8. NoJump \/ (Jump /\ pc' = "cancel") \/ (pc' \in {"crashed", "asserted"} /\ UNCHANGED line)
  BY DEF Jump, WriteBytes
<1> QED
  BY <1>0, <1>6, <1>7, <1>8

LEMMA StartingUnchanged ==
    ASSUME Starting, UNCHANGED <<offset, pos, line, bootVars>>, pc' = "setup",
           pos > 0 => isOpen'
    PROVE  Starting'
<1>1. PICK j \in 0..pos : /\ Sending(2, SPECIAL_SEQUENCE, <<64>>, j)
                          /\ j + Len(line) = pos
  BY DEF Starting
<1>2. Sending(2, SPECIAL_SEQUENCE, <<64>>, j)'
  BY <1>1, SendingUnchanged
<1> QED
  BY <1>1, <1>2 DEF Starting

\* main() sends nothing, and the board does nothing.
LEMMA MainKeepsPhase ==
    ASSUME IInv, MainStep, ~(SendSetup \/ SendBurst \/ Jump \/ NoJump), UNCHANGED program
    PROVE  Phase'
<1> USE DEF ioVars, wireVars
<1>a. CASE Close
  <2>1. /\ pc = "close" /\ pc' = "join" /\ rx' = <<>>
        /\ UNCHANGED <<options, buffer, last_read, bootVars>>
        /\ \E k \in 0..Len(line) : line' = SubSeq(line, 1, k)
    BY <1>a DEF Close, DropWire
  <2>2. Uploaded /\ (~Runs => NothingLeft)
    BY <2>1 DEF IInv, Phase
  <2>3. PICK k \in 0..Len(line) : line' = SubSeq(line, 1, k)
    BY <2>1
  <2>4. ASSUME NEW t \in {<<>>, <<key("j")>>, <<num(Address)>>}, line = t
        PROVE  line' \in {<<>>, t}
    <3>1. CASE t = <<>>
      <4>1. Len(line) = 0 /\ line \in Seq(LineToken)
        BY <2>4, <3>1, EmptySeq
      <4>2. k = 0 /\ SubSeq(line, 1, k) \in Seq(LineToken) /\ Len(SubSeq(line, 1, k)) = 0
        BY <4>1, PrefixTypes
      <4> QED
        BY <2>3, <4>2, EmptySeq
    <3>2. CASE t # <<>>
      <4>1. PICK u : t = <<u>>
        BY <3>2
      <4>2. k \in {0, 1}
        BY <2>4, <4>1, OneToken
      <4>3. SubSeq(<<u>>, 1, 0) = <<>> /\ SubSeq(<<u>>, 1, 1) = <<u>>
        BY OneToken
      <4> QED
        BY <2>3, <2>4, <4>1, <4>2, <4>3
    <3> QED
      BY <3>1, <3>2
  <2>5. line = <<key("j"), num(Address)>> =>
           line' \in {<<>>, <<key("j")>>, <<key("j"), num(Address)>>}
    <3>1. Len(<<key("j"), num(Address)>>) = 2
      BY TwoTokens
    <3>2. line = <<key("j"), num(Address)>> => k \in {0, 1, 2}
      BY <3>1
    <3>3. /\ SubSeq(<<key("j"), num(Address)>>, 1, 0) = <<>>
          /\ SubSeq(<<key("j"), num(Address)>>, 1, 1) = <<key("j")>>
          /\ SubSeq(<<key("j"), num(Address)>>, 1, 2) = <<key("j"), num(Address)>>
      BY TwoTokens
    <3> QED
      BY <2>3, <3>2, <3>3
  <2>6. JumpOnItsWay'
    BY <2>1, <2>2, <2>3, <2>4, <2>5 DEF Uploaded, JumpOnItsWay, bootVars, Prompt
  <2>7. Uploaded' /\ Runs' = Runs
    BY <2>1, <2>2, <2>6 DEF Uploaded, Frontier, bootVars, Runs
  <2>8. NothingLeft => NothingLeft'
    BY <2>1, <2>3, <2>4 DEF NothingLeft, Drained, bootVars
  <2> QED
    BY <2>1, <2>2, <2>7, <2>8 DEF Phase
<1> SUFFICES ASSUME ~Close PROVE Phase'
  BY <1>a
<1>1. UNCHANGED <<offset, pos, buffer, line, rx, bootVars>> /\ UNCHANGED program
  BY DEF MainStep, OpenPort, OpenPortRefused, ClearLastRead, PollAck, ResetLastRead,
         ReadBin, Cancel, Join
<1>2. isOpen' = isOpen => (Executed => Executed')
  BY <1>1, BoardSideUnchanged
<1>3. Uploaded => Uploaded'
  <2>1. \A k : Frontier(k) => Frontier(k)'
    BY <1>1 DEF Frontier, bootVars
  <2> QED
    BY <1>1, <2>1 DEF Uploaded, JumpOnItsWay, Prompt, bootVars
<1>4. Setup' = Setup /\ pos' = pos /\ offset' = offset /\ (Drained => Drained')
  BY <1>1 DEF Setup, Drained
<1>5. NoAck /\ (last_read' = last_read \/ last_read' = "zero") => NoAck'
  BY <1>1 DEF NoAck, Quiet
<1>6. CASE OpenPort \/ OpenPortRefused
  <2>1. pc = "open" /\ pc' \in {"setup", "crashed"} /\ last_read' = last_read
    BY <1>6 DEF OpenPort, OpenPortRefused
  <2>2. pos < 3 /\ Starting /\ NoAck /\ pos = 0
    BY <2>1 DEF IInv, Phase, Starting
  <2>4. Len(line) \in Nat /\ line \in Seq(LineToken)
    BY LenProperties DEF IInv, TypeInv
  <2>5. line' = <<>>
    BY <1>1, <2>2, <2>4, EmptySeq DEF Starting
  <2>6. CASE pc' = "crashed"
    BY <2>5, <2>6 DEF Phase, Crashed
  <2> SUFFICES ASSUME pc' = "setup" PROVE Phase'
    BY <2>1, <2>6
  <2>3. Starting'
    BY <1>1, <2>1, <2>2, StartingUnchanged
  <2> QED
    BY <1>4, <1>5, <2>1, <2>2, <2>3 DEF Phase
<1>7. CASE ClearLastRead
  <2>1. pc = "clear" /\ pc' = "setup" /\ last_read' = "zero" /\ isOpen' = isOpen
    BY <1>7 DEF ClearLastRead
  <2>2. pos < 3 /\ Starting /\ NoAck
    BY <2>1 DEF IInv, Phase
  <2>3. Starting'
    BY <1>1, <2>1, <2>2, StartingUnchanged DEF Starting
  <2> QED
    BY <1>4, <1>5, <2>1, <2>2, <2>3 DEF Phase
<1>8. CASE PollAck
  <2>1. pc = "poll" /\ pc' = "reset" /\ last_read = "ack" /\ isOpen' = isOpen
    BY <1>8 DEF PollAck
  <2>2. Executed /\ AckComing
    BY <2>1 DEF IInv, Phase, NoAck
  <2>3. Drained
    BY <2>1, <2>2 DEF AckComing, Drained
  <2> QED
    BY <1>2, <1>4, <2>1, <2>2, <2>3 DEF Phase
<1>9. CASE ResetLastRead
  <2>1. /\ pc = "reset" /\ last_read' = "zero" /\ isOpen' = isOpen
        /\ pc' = IF pos < Len(Setup) THEN "setup" ELSE IF offset = 0 THEN "readbin" ELSE "upload"
    BY <1>9 DEF ResetLastRead
  <2>2. Executed /\ Drained
    BY <2>1 DEF IInv, Phase
  <2>3. Executed' /\ Drained' /\ last_read' # "ack"
    BY <1>2, <1>4, <2>1, <2>2
  <2>4. pos < Len(Setup) \/ pos = Len(Setup)
    BY SetupCommands DEF IInv, TypeInv, LegacyTypeOK
  <2>5. CASE pos < Len(Setup)
    BY <1>4, <2>1, <2>3, <2>5 DEF Phase
  <2>6. CASE pos = Len(Setup)
    <3>1. ~(pos < Len(Setup))
      BY <2>6, SetupCommands DEF IInv, TypeInv
    <3>2. (pc' = "readbin" /\ offset' = 0) \/ pc' = "upload"
      BY <1>4, <2>1, <3>1
    <3> QED
      BY <1>4, <2>3, <2>6, <3>2 DEF Phase
  <2> QED
    BY <2>4, <2>5, <2>6
<1>10. CASE ReadBin
  <2>1. /\ pc = "readbin" /\ pc' \in {"upload", "crashed"}
        /\ isOpen' = isOpen /\ last_read' = last_read
    BY <1>10 DEF ReadBin
  <2>2. pos = Len(Setup) /\ Executed /\ Drained /\ last_read # "ack"
    BY <2>1 DEF IInv, Phase
  <2>3. line' = <<>>
    BY <1>1, <2>2 DEF Executed
  <2> QED
    BY <1>2, <1>4, <2>1, <2>2, <2>3 DEF Phase, Crashed
<1>11. CASE Cancel \/ Join
  <2>1. /\ pc \in {"cancel", "join"} /\ pc' \in {"close", "ended"}
        /\ options' = options /\ last_read' = last_read
    BY <1>11 DEF Cancel, Join
  <2>2. Uploaded /\ (~Runs => NothingLeft)
    BY <2>1 DEF IInv, Phase
  <2>3. Runs' = Runs /\ (NothingLeft => NothingLeft')
    BY <1>1, <1>4, <2>1 DEF Runs, NothingLeft, bootVars
  <2> QED
    BY <1>3, <2>1, <2>2, <2>3 DEF Phase
<1> QED
  BY <1>6, <1>7, <1>8, <1>9, <1>10, <1>11 DEF MainStep

LEMMA MainKeepsHandler ==
    ASSUME IInv, MainStep
    PROVE  HandlerInv'
<1> USE DEF IInv, HandlerInv, ioVars, wireVars
<1>1. CASE OpenPort
  <2>1. io = "none"
    BY <1>1 DEF OpenPort, Phase, Starting
  <2> QED
    BY <1>1, <2>1 DEF OpenPort
<1>2. CASE SendSetup \/ SendBurst \/ Jump
  <2>1. PICK toks, next : WriteBytes(toks, next)
    BY <1>2 DEF SendSetup, SendBurst, Jump
  <2>2. UNCHANGED <<io, buffer, isOpen>>
    BY <2>1 DEF WriteBytes
  <2>3. pc \in {"setup", "upload"}
    BY <1>2 DEF SendSetup, SendBurst, Jump
  <2> QED
    BY <2>2, <2>3
<1>3. CASE OpenPortRefused \/ ClearLastRead \/ PollAck \/ ResetLastRead \/ ReadBin \/ NoJump
  <2>1. UNCHANGED <<io, buffer, isOpen>>
    BY <1>3 DEF OpenPortRefused, ClearLastRead, PollAck, ResetLastRead, ReadBin, NoJump
  <2>2. pc \in {"open", "clear", "poll", "reset", "readbin", "upload"}
    BY <1>3 DEF OpenPortRefused, ClearLastRead, PollAck, ResetLastRead, ReadBin, NoJump
  <2> QED
    BY <2>1, <2>2
<1>4. CASE Cancel \/ Close \/ Join
  BY <1>4 DEF Cancel, Close, Join
<1> QED
  BY <1>1, <1>2, <1>3, <1>4 DEF MainStep

LEMMA MainKeepsIInv ==
    ASSUME IInv, MainStep, UNCHANGED program, TypeInv'
    PROVE  IInv'
<1>1. HandlerInv'
  BY MainKeepsHandler
<1>2. StoredInPlace'
  <2>1. mem' = mem
    BY DEF MainStep, OpenPort, OpenPortRefused, SendSetup, ClearLastRead, PollAck, ResetLastRead,
           ReadBin, SendBurst, Jump, NoJump, Cancel, Close, Join, WriteBytes, bootVars
  <2> QED
    BY <2>1 DEF IInv, StoredInPlace
<1>3. Phase'
  <2>1. CASE SendSetup
    <3>1. pc = "setup" /\ pos < Len(Setup)
      BY <2>1 DEF SendSetup
    <3>2. CASE pos < 3 /\ Starting /\ NoAck
      BY <2>1, <3>2, SetupStarts
    <3>3. CASE Executed /\ Drained /\ last_read # "ack"
      BY <2>1, <3>1, <3>3, SetupContinues
    <3> QED
      BY <3>1, <3>2, <3>3 DEF IInv, Phase
  <2>2. CASE SendBurst \/ Jump \/ NoJump
    <3>1. pc = "upload"
      BY <2>2 DEF SendBurst, Jump, NoJump
    <3>2. pos = Len(Setup) /\ Executed /\ Drained /\ last_read # "ack"
      BY <3>1 DEF IInv, Phase
    <3>3. CASE SendBurst
      BY <3>2, <3>3, BurstStarts
    <3>4. CASE Jump \/ NoJump
      BY <3>2, <3>4, UploadEnds
    <3> QED
      BY <2>2, <3>3, <3>4
  <2>3. CASE ~(SendSetup \/ SendBurst \/ Jump \/ NoJump)
    BY <2>3, MainKeepsPhase
  <2> QED
    BY <2>1, <2>2, <2>3
<1> QED
  BY <1>1, <1>2, <1>3 DEF IInv

LEMMA InitIInv == LegacyInit => IInv
<1> SUFFICES ASSUME LegacyInit PROVE IInv
  OBVIOUS
<1>1. TypeInv
  BY InitTypes
<1>2. HandlerInv
  BY DEF LegacyInit, HandlerInv
<1>3. StoredInPlace
  <2>1. \A i \in 1..Len(Image) : mem[Cell(i)] = 0
    BY ImageCells DEF LegacyInit, BootInit
  <2> QED
    BY <2>1 DEF StoredInPlace
<1>4. Len(line) = 0 /\ Len(rx) = 0 /\ Len(buffer) = 0
  BY DEF LegacyInit
<1>5. Sending(2, SPECIAL_SEQUENCE, <<64>>, 0)
  <2>1. Total(2, <<64>>) = 6
    BY DEF Total
  <2>2. BoardAt(2, SPECIAL_SEQUENCE, <<64>>, 0)
    BY DEF BoardAt, LegacyInit, BootInit
  <2> QED
    BY <1>4, <2>1, <2>2 DEF Sending
<1>6. pos = 0 /\ 0 \in 0..0 /\ 0 + 0 = 0
  BY DEF LegacyInit
<1>7. Starting
  BY <1>4, <1>5, <1>6 DEF Starting, LegacyInit
<1>8. NoAck
  BY <1>4 DEF NoAck, Quiet, LegacyInit
<1>9. Phase
  BY <1>6, <1>7, <1>8 DEF Phase, LegacyInit
<1> QED
  BY <1>1, <1>2, <1>3, <1>9 DEF IInv

LEMMA NextIInv == IInv /\ [LegacyNext]_<<legacyVars, program>> => IInv'
<1> SUFFICES ASSUME IInv, [LegacyNext]_<<legacyVars, program>> PROVE IInv'
  OBVIOUS
<1>1. TypeInv'
  BY StepTypes DEF IInv
<1>2. CASE MainStep /\ UNCHANGED program
  BY <1>1, <1>2, MainKeepsIInv
<1>3. CASE IoStep /\ UNCHANGED program
  BY <1>3, IoKeepsIInv
<1>4. CASE BoardExecutes /\ UNCHANGED program
  BY <1>4, BoardKeepsIInv
<1>5. CASE UNCHANGED <<legacyVars, program>>
  <2>1. UNCHANGED <<pc, offset, pos, isOpen, line, bootVars, program, io, buffer, rx, last_read>>
    BY <1>5 DEF legacyVars, mainVars, ioVars, wireVars
  <2>2. /\ SettingUp => SettingUp'
        /\ Bursting => Bursting'
        /\ Executed => Executed'
        /\ Uploaded => Uploaded'
        /\ Crashed => Crashed'
        /\ StoredInPlace => StoredInPlace'
        /\ Setup' = Setup
    BY <2>1, BoardSideUnchanged
  <2>3. ASSUME Starting PROVE Starting'
    <3>1. PICK j \in 0..pos : /\ Sending(2, SPECIAL_SEQUENCE, <<64>>, j)
                              /\ j + Len(line) = pos
      BY <2>3 DEF Starting
    <3>2. Sending(2, SPECIAL_SEQUENCE, <<64>>, j)'
      BY <2>1, <3>1, SendingUnchanged
    <3> QED
      BY <2>1, <2>3, <3>1, <3>2 DEF Starting
  <2>4. /\ NoAck => NoAck'
        /\ AckComing => AckComing'
        /\ Drained => Drained'
    BY <2>1 DEF NoAck, AckComing, Drained, Quiet, AckEnds
  <2>6. Runs' = Runs /\ (NothingLeft => NothingLeft')
    BY <1>5, <2>1, <2>4 DEF Runs, NothingLeft, legacyVars, mainVars, bootVars
  <2>5. Phase'
    BY <2>1, <2>2, <2>3, <2>4, <2>6 DEF IInv, Phase
  <2> QED
    BY <1>1, <2>1, <2>2, <2>5 DEF IInv, HandlerInv
<1> QED
  BY <1>2, <1>3, <1>4, <1>5 DEF LegacyNext

LEMMA Inductive == LegacySpec => []IInv
<1> QED
  BY InitIInv, NextIInv, PTL DEF LegacySpec

\* Polling last_read, which the io_service thread writes without a lock, keeps
\* the uploader in step with the board: neither does wait_for_ack return nor,
\* without -r, is the port closed before the board has executed every command
\* whole and its last ACK has left the wire.
THEOREM UploaderInLockstep == LegacySpec => []Lockstep
<1>1. IInv => Lockstep
  <2> SUFFICES ASSUME IInv,
                      \/ pc \in {"readbin", "upload"}
                      \/ pc = "setup" /\ pos > 2
                      \/ pc \in {"cancel", "close", "join", "ended"} /\ ~Runs
               PROVE  line = <<>> /\ rx = <<>> /\ cmd = "none" /\ last_read # "ack"
    BY DEF Lockstep
  <2>1. CASE pc \in {"readbin", "upload"} \/ (pc = "setup" /\ pos > 2)
    <3>1. Executed /\ Drained /\ last_read # "ack"
      BY <2>1 DEF IInv, Phase, TypeInv, LegacyTypeOK
    <3> QED
      BY <3>1 DEF Executed, Drained, Prompt
  <2>2. CASE pc \in {"cancel", "close", "join", "ended"} /\ ~Runs
    BY <2>2 DEF IInv, Phase, NothingLeft, Drained
  <2> QED
    BY <2>1, <2>2
<1> QED
  BY <1>1, Inductive, PTL

\* However write_some cuts the commands, no cell of the image ever holds a word
\* that is not its own.
THEOREM NoWordMisplaced == LegacySpec => []StoredInPlace
<1>1. IInv => StoredInPlace
  BY DEF IInv
<1> QED
  BY <1>1, Inductive, PTL

\* "finished uploading buffer" is true: when close_port is called, the flash
\* holds the whole image, and nothing that follows changes it.
THEOREM FinishedMeansStored == LegacySpec => []UploadedMeansStored
<1>1. IInv => UploadedMeansStored
  <2> SUFFICES ASSUME IInv, pc \in {"cancel", "close", "join", "ended"},
                      NEW i \in 1..Len(Image)
               PROVE  mem[Cell(i)] = Image[i]
    BY DEF UploadedMeansStored
  <2>1. Frontier(Len(Image))
    BY DEF IInv, Phase, Uploaded
  <2> QED
    BY <2>1, ImageCells DEF Frontier
<1> QED
  BY <1>1, Inductive, PTL

===============================================================================
