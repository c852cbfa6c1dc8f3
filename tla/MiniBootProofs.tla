--------------------------- MODULE MiniBootProofs ---------------------------
(***************************************************************************)
(* The boot loader for any flash, any numbers, any tokens, any bytes and    *)
(* any silences.  The console takes the numbers a command announced, and no *)
(* more and no less; the flash is what the command and its numbers mean;    *)
(* and a download stores the words that were sent to it in time.            *)
(***************************************************************************)
EXTENDS MiniBootMenu, SequenceTheorems, FiniteSetTheorems, FunctionTheorems, TLAPS

CommandTokens ==
    ({"key"} \X MenuKeys) \cup ({"num"} \X Numbers) \cup ({"part"} \X (1..DIGITS))

\* The numbers of a command are all there.
Complete(c, ns) == Len(ns) = Header[c] + DataCount(c, ns)

\* The inductive invariant: a command is executed in the console only, its
\* numbers are those the console has kept, and it is not complete.
FramingInv ==
    /\ cmd \in DOMAIN Header \cup {"none"}
    /\ args \in Seq(Nat)
    /\ cmd # "none" =>
          /\ mode = "console"
          /\ letter = cmd
          /\ numbers = args
          /\ Len(args) >= Header[cmd] => Len(args) < Header[cmd] + DataCount(cmd, args)
    /\ cmd = "none" /\ letter # "none" =>
          letter \in DOMAIN Header /\ Complete(letter, numbers)

-------------------------------------------------------------------------------
(* The numbers of a command. *)

LEMMA HeaderLength ==
    /\ DOMAIN Header = {"j", "w", "s", "r", "l", "R"}
    /\ \A c \in DOMAIN Header : Header[c] \in 1..3
  BY DEF Header

LEMMA NumberValue ==
    ASSUME NEW tok \in CommandTokens, NEW v \in Values(tok)
    PROVE  v \in Nat
  BY CommandsAssumption, BootAssumption DEF CommandTokens, Values

\* A letter or a part that ends no number leaves room for a character more.
LEMMA DigitsCounted ==
    ASSUME NEW tok \in CommandTokens, digits \in 0..(MAX_DIGITS - 1), ~EndsNumber(tok)
    PROVE  digits + Width(tok) \in 0..(MAX_DIGITS - 1)
<1>1. Width(tok) \in Nat
  BY BootAssumption DEF CommandTokens, Width
<1> QED
  BY <1>1, BootAssumption DEF EndsNumber, AtLimit

LEMMA ConsumeDigits ==
    ASSUME NEW tok \in CommandTokens, digits \in 0..(MAX_DIGITS - 1), NEW v, Consume(tok, v)
    PROVE  digits' \in 0..(MAX_DIGITS - 1)
<1>1. 0 \in 0..(MAX_DIGITS - 1)
  BY BootAssumption
<1>2. CASE Absorb(tok)
  BY <1>2, DigitsCounted DEF Absorb
<1> QED
  BY <1>1, <1>2 DEF Consume, MenuConsole, MenuAgain, Select, EnterBridge, Ignore, ReadHeader,
                    ReadData, Elsewhere

\* A number more does not change the count that was announced.
LEMMA CountStays ==
    ASSUME NEW c \in DOMAIN Header, NEW ns \in Seq(Nat), NEW v \in Nat
    PROVE  /\ Append(ns, v) \in Seq(Nat)
           /\ Len(Append(ns, v)) = Len(ns) + 1
           /\ Len(ns) >= Header[c] => DataCount(c, Append(ns, v)) = DataCount(c, ns)
           /\ Len(ns) + 1 >= Header[c] => DataCount(c, Append(ns, v)) \in Nat
<1>1. /\ Append(ns, v) \in Seq(Nat)
      /\ Len(Append(ns, v)) = Len(ns) + 1
      /\ \A i \in 1..Len(ns) : Append(ns, v)[i] = ns[i]
      /\ Append(ns, v)[Len(ns) + 1] = v
  BY AppendProperties
<1>2. Header[c] \in 1..3 /\ Len(ns) \in Nat
  BY HeaderLength
<1>3. Len(ns) >= Header[c] => DataCount(c, Append(ns, v)) = DataCount(c, ns)
  BY <1>1, <1>2 DEF DataCount
<1>4. Len(ns) + 1 >= Header[c] => Append(ns, v)[Header[c]] \in Nat
  BY <1>1, <1>2, ElementOfSeq
<1>5. Len(ns) + 1 >= Header[c] => DataCount(c, Append(ns, v)) \in Nat
  BY <1>4 DEF DataCount
<1> QED
  BY <1>1, <1>3, <1>5

-------------------------------------------------------------------------------
(* The invariant is inductive. *)

\* Outside the console no command is executed.
LEMMA NoCommand ==
    ASSUME FramingInv, UNCHANGED <<cmd, args, letter, numbers>>, cmd = "none"
    PROVE  FramingInv'
  BY DEF FramingInv, Complete, DataCount

LEMMA NumberRead ==
    ASSUME FramingInv, NEW v \in Nat, cmd # "none",
           UNCHANGED letter, numbers' = Append(numbers, v),
           ReadHeader(v) \/ ReadData(v)
    PROVE  FramingInv'
<1> DEFINE a == Append(args, v)
<1>1. cmd \in DOMAIN Header /\ args \in Seq(Nat)
  BY DEF FramingInv
<1>2. /\ a \in Seq(Nat)
      /\ Len(a) = Len(args) + 1
      /\ Len(args) >= Header[cmd] => DataCount(cmd, a) = DataCount(cmd, args)
      /\ Len(args) + 1 >= Header[cmd] => DataCount(cmd, a) \in Nat
  BY <1>1, CountStays
<1>3. numbers' = a /\ letter' = cmd /\ mode = "console" /\ Len(args) \in Nat
  BY <1>1 DEF FramingInv
<1>4. Header[cmd] \in 1..3
  BY <1>1, HeaderLength
<1>5. \/ Finish /\ Complete(cmd, a)
      \/ /\ args' = a
         /\ UNCHANGED <<mode, cmd>>
         /\ Len(a) >= Header[cmd] => Len(a) < Header[cmd] + DataCount(cmd, a)
  <2>1. CASE ReadHeader(v)
    <3>1. Len(args) < Header[cmd]
      BY <2>1 DEF ReadHeader
    <3>2. \/ Len(a) = Header[cmd] /\ DataCount(cmd, a) = 0 /\ Finish
          \/ ~(Len(a) = Header[cmd] /\ DataCount(cmd, a) = 0)
             /\ args' = a /\ UNCHANGED <<mode, cmd>>
      BY <2>1 DEF ReadHeader
    <3> QED
      BY <1>2, <1>3, <1>4, <3>1, <3>2 DEF Complete
  <2>2. CASE ReadData(v)
    <3>1. Len(args) >= Header[cmd] /\ Len(args) < Header[cmd] + DataCount(cmd, args)
      BY <2>2 DEF ReadData, FramingInv
    <3>2. \/ Len(a) = Header[cmd] + DataCount(cmd, a) /\ Finish
          \/ ~(Len(a) = Header[cmd] + DataCount(cmd, a))
             /\ args' = a /\ UNCHANGED <<mode, cmd>>
      BY <2>2 DEF ReadData
    <3> QED
      BY <1>2, <1>3, <1>4, <3>1, <3>2 DEF Complete
  <2> QED
    BY <2>1, <2>2
<1> HIDE DEF a
<1>6. CASE Finish /\ Complete(cmd, a)
  <2>1. cmd' = "none" /\ args' = <<>>
    BY <1>6 DEF Finish
  <2> QED
    BY <1>1, <1>3, <1>6, <2>1, EmptySeq DEF FramingInv, Complete, DataCount
<1>7. CASE /\ args' = a
           /\ UNCHANGED <<mode, cmd>>
           /\ Len(a) >= Header[cmd] => Len(a) < Header[cmd] + DataCount(cmd, a)
  BY <1>1, <1>2, <1>3, <1>7 DEF FramingInv, DataCount
<1> QED
  BY <1>5, <1>6, <1>7

LEMMA FeedKeepsFraming ==
    ASSUME FramingInv, NEW tok \in CommandTokens, Feed(tok)
    PROVE  FramingInv'
<1>0. PICK v \in Values(tok) :
        /\ Consume(tok, v)
        /\ IF cmd = "none" /\ cmd' # "none"
           THEN before' = mem /\ letter' = cmd' /\ numbers' = <<>>
           ELSE /\ UNCHANGED <<before, letter>>
                /\ numbers' = IF cmd # "none" /\ EndsNumber(tok)
                              THEN Append(numbers, v) ELSE numbers
  BY DEF Feed
<1>v. v \in Nat
  BY NumberValue
<1>1. CASE cmd = "none" /\ cmd' # "none"
  <2>1. Select(tok)
    BY <1>0, <1>1 DEF Consume, MenuConsole, MenuAgain, EnterBridge, Ignore, Absorb,
                ReadHeader, ReadData, Elsewhere
  <2>2. cmd' \in DOMAIN Header /\ args' = <<>> /\ mode' = "console"
    BY <2>1 DEF Select, AtPrompt
  <2>3. letter' = cmd' /\ numbers' = <<>>
    BY <1>0, <1>1
  <2>4. Header[cmd'] \in 1..3 /\ <<>> \in Seq(Nat) /\ Len(<<>>) = 0
    BY <2>2, HeaderLength, EmptySeq
  <2> QED
    BY <1>1, <2>2, <2>3, <2>4 DEF FramingInv
<1>2. CASE cmd = "none" /\ cmd' = "none"
  <2>1. UNCHANGED <<letter, numbers>>
    BY <1>0, <1>2
  <2>2. UNCHANGED args
    BY <1>0, <1>2 DEF Consume, MenuConsole, MenuAgain, Select, EnterBridge, Ignore, Absorb,
                ReadHeader, ReadData, Elsewhere, Header
  <2> QED
    BY <1>2, <2>1, <2>2, NoCommand
<1>3. CASE cmd # "none"
  <2>1. mode = "console"
    BY <1>3 DEF FramingInv
  <2>2. \/ Absorb(tok)
        \/ EndsNumber(tok) /\ (ReadHeader(v) \/ ReadData(v))
    BY <1>0, <1>3, <2>1 DEF Consume, MenuConsole, MenuAgain, Select, EnterBridge, Ignore,
                      AtPrompt, Elsewhere
  <2>3. UNCHANGED letter
        /\ numbers' = IF EndsNumber(tok) THEN Append(numbers, v) ELSE numbers
    BY <1>0, <1>3
  <2>4. CASE Absorb(tok)
    <3>1. ~EndsNumber(tok) /\ UNCHANGED <<mode, cmd, args>>
      BY <2>4 DEF Absorb
    <3> QED
      BY <1>3, <2>3, <3>1 DEF FramingInv, DataCount
  <2>5. CASE EndsNumber(tok) /\ (ReadHeader(v) \/ ReadData(v))
    BY <1>3, <1>v, <2>3, <2>5, NumberRead
  <2> QED
    BY <2>2, <2>4, <2>5
<1> QED
  BY <1>1, <1>2, <1>3

\* The menu, its functions and the download leave the console's command alone.
LEMMA MenuKeepsFraming ==
    ASSUME FramingInv, MenuHistory, cmd = "none"
    PROVE  FramingInv'
  BY DEF FramingInv, MenuHistory

LEMMA NextFraming == FramingInv /\ [MenuNext]_menuVars => FramingInv'
<1> SUFFICES ASSUME FramingInv, [MenuNext]_menuVars PROVE FramingInv'
  OBVIOUS
<1>1. ASSUME NEW tok \in CommandTokens, MenuFeed(tok)
      PROVE  FramingInv'
  <2>1. CASE Feed(tok)
    BY <2>1, FeedKeepsFraming
  <2>2. CASE ~Feed(tok)
    <3>1. MenuHistory /\ mode # "console"
      BY <1>1, <2>2 DEF MenuFeed, MenuFunction, MenuBridge, MenuAbsorb, MenuAddress, MenuOperand
    <3> QED
      BY <3>1, MenuKeepsFraming DEF FramingInv
  <2> QED
    BY <2>1, <2>2
<1>2. ASSUME NEW b \in Bytes, SendByte(b)
      PROVE  FramingInv'
  <2>1. MenuHistory /\ mode # "console"
    BY <1>2 DEF SendByte, Streamed, ReadByte, MoreBytes, DiscardByte
  <2> QED
    BY <2>1, MenuKeepsFraming DEF FramingInv
<1>3. CASE Pause
  <2>1. MenuHistory /\ mode # "console"
    BY <1>3 DEF Pause, Streamed, PollsRunOut
  <2> QED
    BY <2>1, MenuKeepsFraming DEF FramingInv
<1>4. CASE Return
  <2>1. MenuHistory /\ mode # "console"
    BY <1>4 DEF Return, ProgramReturns
  <2> QED
    BY <2>1, MenuKeepsFraming DEF FramingInv
<1>5. CASE UNCHANGED menuVars
  BY <1>5 DEF FramingInv, Complete, DataCount, menuVars, commandVars, bootVars, history
<1>6. \A k \in MenuKeys : <<"key", k>> \in CommandTokens
  BY DEF CommandTokens
<1>7. /\ \A v \in Numbers : <<"num", v>> \in CommandTokens
      /\ \A d \in 1..DIGITS : <<"part", d>> \in CommandTokens
  BY DEF CommandTokens
<1> QED
  BY <1>1, <1>2, <1>3, <1>4, <1>5, <1>6, <1>7 DEF MenuNext

LEMMA InitFraming == MenuInit => FramingInv
  BY EmptySeq DEF MenuInit, CommandsInit, BootInit, FramingInv

-------------------------------------------------------------------------------
\* Whatever is sent to the menu and to the console, a command ends with exactly
\* the last of the numbers that it announced.
THEOREM CommandsAreFramed == MenuSpec => []TakesWhatItAnnounced
<1>1. FramingInv => TakesWhatItAnnounced
  BY DEF FramingInv, TakesWhatItAnnounced, Complete, DataCount
<1> QED
  BY <1>1, InitFraming, NextFraming, PTL DEF MenuSpec

-------------------------------------------------------------------------------
(* Types.  The words of the flash are numbers because those of a command    *)
(* are, and those that a download assembles in a register.                  *)

FlashTypes == mem \in [Flash -> Nat] /\ before \in [Flash -> Nat]

TypeInv == FramingInv /\ MenuTypeOK /\ FlashTypes

LEMMA TwoToThe ==
    ASSUME NEW k \in Nat
    PROVE  2^k \in Nat
<1>1. IsFiniteSet(1..k) /\ Cardinality(1..k) = k
  BY FS_Interval
<1>2. Cardinality(SUBSET (1..k)) = 2^k /\ IsFiniteSet(SUBSET (1..k))
  BY <1>1, FS_SUBSET
<1> QED
  BY <1>2, FS_CardinalityType

LEMMA ShiftIsNat ==
    ASSUME NEW n \in Nat, NEW b \in Bytes
    PROVE  Shift(n, b) \in Nat
<1>1. 8 * (WordBytes - 1) \in Nat /\ b \in Nat
  BY MenuAssumption
<1>2. PICK top \in Nat : top = 2^(8 * (WordBytes - 1))
  BY <1>1, TwoToThe
<1>3. Shift(n, b) = b * top + n \div 256
  BY <1>2 DEF Shift
<1>4. b * top \in Nat /\ n \div 256 \in Nat
  BY <1>1
<1> QED
  BY <1>3, <1>4

LEMMA StoreIsFlash ==
    ASSUME FlashTypes, NEW a, NEW v \in Nat
    PROVE  Store(a, v) \in [Flash -> Nat]
  BY CommandsAssumption DEF FlashTypes, Store

\* A download goes on by whole words, and they fill its limit.
LEMMA NextWord ==
    ASSUME NEW i \in Nat, i < MaxIndex, i % WordBytes = 0
    PROVE  i + WordBytes \in 0..MaxIndex /\ (i + WordBytes) % WordBytes = 0
<1>1. WordBytes \in Nat \ {0} /\ MaxIndex \in Nat /\ MaxIndex % WordBytes = 0
  BY MenuAssumption
<1>2. i = WordBytes * (i \div WordBytes)
  BY <1>1
<1>3. MaxIndex = WordBytes * (MaxIndex \div WordBytes)
  BY <1>1
<1>4. PICK k \in Nat, m \in Nat : i = WordBytes * k /\ MaxIndex = WordBytes * m
  BY <1>1, <1>2, <1>3
<1>5. k + 1 <= m
  BY <1>1, <1>4
<1>6. WordBytes * (k + 1) <= WordBytes * m /\ WordBytes * (k + 1) = i + WordBytes
  BY <1>1, <1>4, <1>5
<1>7. (WordBytes * (k + 1)) % WordBytes = 0
  BY <1>1
<1> QED
  BY <1>1, <1>4, <1>6, <1>7

LEMMA FeedLeavesDownload ==
    ASSUME TypeInv, NEW tok \in CommandTokens, Feed(tok)
    PROVE  mode' \in {"menu", "console", "run", "dmi", "i2c"}
<1>0. PICK v \in Values(tok) :
        /\ Consume(tok, v)
        /\ IF cmd = "none" /\ cmd' # "none"
           THEN before' = mem /\ letter' = cmd' /\ numbers' = <<>>
           ELSE /\ UNCHANGED <<before, letter>>
                /\ numbers' = IF cmd # "none" /\ EndsNumber(tok)
                              THEN Append(numbers, v) ELSE numbers
  BY DEF Feed
<1>v. v \in Nat
  BY NumberValue
<1>1. CASE cmd = "none"
  BY <1>0, <1>1 DEF Consume, MenuConsole, MenuAgain, Select, EnterBridge, Ignore, AtPrompt,
              Absorb, ReadHeader, ReadData, Elsewhere
<1>2. CASE cmd # "none"
  <2>1. mode = "console"
    BY <1>2 DEF TypeInv, FramingInv
  <2>2. mode' \in {mode, "run"}
    BY <1>0, <1>2, <2>1 DEF Consume, MenuConsole, MenuAgain, Select, EnterBridge, Ignore,
                      AtPrompt, Absorb, ReadHeader, ReadData, Elsewhere, Finish
  <2> QED
    BY <2>1, <2>2
<1> QED
  BY <1>1, <1>2

LEMMA FeedKeepsTypes ==
    ASSUME TypeInv, NEW tok \in CommandTokens, Feed(tok), UNCHANGED <<fn, address, download>>
    PROVE  MenuTypeOK' /\ FlashTypes'
<1>0. PICK v \in Values(tok) :
        /\ Consume(tok, v)
        /\ IF cmd = "none" /\ cmd' # "none"
           THEN before' = mem /\ letter' = cmd' /\ numbers' = <<>>
           ELSE /\ UNCHANGED <<before, letter>>
                /\ numbers' = IF cmd # "none" /\ EndsNumber(tok)
                              THEN Append(numbers, v) ELSE numbers
  BY DEF Feed
<1>v. v \in Nat
  BY NumberValue
<1>1. mode' \in {"menu", "console", "run", "dmi", "i2c"}
  BY FeedLeavesDownload
<1>2. \/ UNCHANGED mem
      \/ /\ EndsNumber(tok)
         /\ mem' = IF cmd = "R" THEN mem ELSE Store(base, v)
  BY <1>0 DEF Consume, MenuConsole, MenuAgain, Select, EnterBridge, Ignore, Absorb,
         ReadHeader, ReadData, Elsewhere
<1>3. mem' \in [Flash -> Nat]
  BY <1>2, <1>v, StoreIsFlash DEF TypeInv, FlashTypes
<1>4. before' \in {mem, before}
  BY <1>0
<1>5. digits' \in 0..(MAX_DIGITS - 1)
  BY <1>0, ConsumeDigits DEF TypeInv, MenuTypeOK
<1> QED
  BY <1>1, <1>3, <1>4, <1>5 DEF TypeInv, FlashTypes, MenuTypeOK, Downloading, download

LEMMA MenuKeepsTypes ==
    ASSUME TypeInv, NEW tok \in CommandTokens, NEW v \in Nat, MenuHistory,
           \/ MenuFunction(tok) \/ MenuBridge(tok) \/ MenuAbsorb(tok)
           \/ MenuAddress(tok, v) \/ MenuOperand(tok, v)
    PROVE  MenuTypeOK' /\ FlashTypes'
<1>1. ASSUME NEW a \in Nat
      PROVE  /\ From(a) \in [at : Nat, index : 0..MaxIndex, word : Nat,
                             have : 0..(WordBytes - 1), drained : 0..(MaxDrain - 1)]
             /\ From(a).index = 0 /\ From(a).at = a
  BY MenuAssumption DEF From
<1>d. digits' \in 0..(MAX_DIGITS - 1)
  BY DigitsCounted, BootAssumption
     DEF MenuFunction, MenuBridge, MenuAbsorb, MenuAddress, MenuOperand, TypeInv, MenuTypeOK
<1>2. ToMenu /\ mem' \in [Flash -> Nat] /\ before' = mem' => MenuTypeOK' /\ FlashTypes'
  <2> SUFFICES ASSUME ToMenu, mem' \in [Flash -> Nat], before' = mem'
               PROVE  MenuTypeOK' /\ FlashTypes'
    OBVIOUS
  <2>1. mode' = "menu" /\ fn' = "none" /\ address' = 0 /\ load' = From(0)
    BY DEF ToMenu
  <2>2. 0 % WordBytes = 0
    BY MenuAssumption
  <2> QED
    BY <1>1, <1>d, <2>1, <2>2 DEF MenuTypeOK, FlashTypes
<1>3. mem' = mem \/ (mem' = Store(address, v))
  BY DEF MenuFunction, MenuBridge, MenuAbsorb, MenuAddress, MenuOperand
<1>4. mem' \in [Flash -> Nat] /\ before' = mem'
  BY <1>3, StoreIsFlash DEF TypeInv, FlashTypes, MenuHistory
<1>5. CASE MenuFunction(tok) \/ MenuBridge(tok) \/ MenuAbsorb(tok)
  BY <1>4, <1>5, <1>d
     DEF TypeInv, FlashTypes, MenuTypeOK, MenuFunction, MenuBridge, MenuAbsorb, Functions
<1>6. CASE MenuAddress(tok, v)
  <2>1. fn \in Functions /\ v \in Nat /\ mode = "address"
    BY <1>6 DEF TypeInv, MenuTypeOK, MenuAddress, Functions
  <2>2. CASE fn \in {"2", "6", "9"}
    BY <1>2, <1>4, <1>6, <2>2 DEF MenuAddress
  <2>3. CASE fn \notin {"2", "6", "9"}
    <3>1. address' = v /\ load' = From(v) /\ UNCHANGED fn
      BY <1>6, <2>3 DEF MenuAddress
    <3>2. mode' \in {"operand", "run", "word"}
      BY <1>6, <2>1, <2>3 DEF MenuAddress, Functions
    <3>3. /\ load' \in [at : Nat, index : 0..MaxIndex, word : Nat, have : 0..(WordBytes - 1),
                        drained : 0..(MaxDrain - 1)]
          /\ load'.index = 0 /\ load'.at = address' /\ address' \in Nat
      BY <1>1, <2>1, <3>1
    <3>4. 0 % WordBytes = 0 /\ 0 < MaxIndex
      BY MenuAssumption
    <3>5. load'.index % WordBytes = 0 /\ load'.index < MaxIndex
      BY <3>3, <3>4, Zenon
    <3>6. load'.at = address' + load'.index
      <4>1. v = v + 0
        BY <2>1
      <4> QED
        BY <1>1, <2>1, <3>1, <4>1, Zenon
    <3> QED
      BY <1>4, <1>d, <2>1, <3>1, <3>2, <3>3, <3>5, <3>6 DEF FlashTypes, MenuTypeOK, Downloading, Functions
  <2> QED
    BY <2>2, <2>3
<1>7. CASE MenuOperand(tok, v)
  BY <1>2, <1>4, <1>7 DEF MenuOperand
<1> QED
  BY <1>5, <1>6, <1>7

LEMMA DownloadKeepsTypes ==
    ASSUME TypeInv, NEW b, MenuHistory, UNCHANGED digits,
           \/ b \in Bytes /\ (ReadByte(b) \/ MoreBytes(b) \/ DiscardByte(b))
           \/ PollsRunOut \/ ProgramReturns
    PROVE  MenuTypeOK' /\ FlashTypes'
<1> DEFINE Loads == [at : Nat, index : 0..MaxIndex, word : Nat, have : 0..(WordBytes - 1),
                     drained : 0..(MaxDrain - 1)]
<1>1. before' = mem' /\ load \in Loads /\ load.index % WordBytes = 0
  BY DEF MenuHistory, TypeInv, MenuTypeOK
<1>2. ToMenu /\ UNCHANGED mem => MenuTypeOK' /\ FlashTypes'
  <2> SUFFICES ASSUME ToMenu, UNCHANGED mem
               PROVE  MenuTypeOK' /\ FlashTypes'
    OBVIOUS
  <2>1. mode' = "menu" /\ fn' = "none" /\ address' = 0 /\ load' = From(0)
    BY DEF ToMenu
  <2>2. 0 % WordBytes = 0 /\ From(0) \in Loads /\ From(0).index = 0
    BY MenuAssumption DEF From
  <2> QED
    BY <1>1, <2>1, <2>2 DEF TypeInv, MenuTypeOK, FlashTypes
\* A byte of a word.
<1>3. ASSUME b \in Bytes, NEW l \in Loads, l.index % WordBytes = 0, l.index < MaxIndex,
             l.at = address + l.index, Assemble(WithByte(l, b))
      PROVE  MenuTypeOK' /\ FlashTypes'
  <2> DEFINE m == WithByte(l, b)
  <2>1. Shift(l.word, b) \in Nat
    BY <1>3, ShiftIsNat
  <2>2. /\ l.at \in Nat /\ l.have \in 0..(WordBytes - 1) /\ l.index \in 0..MaxIndex
        /\ l.drained \in 0..(MaxDrain - 1)
    BY <1>3
  <2>c. m = [l EXCEPT !.word = Shift(l.word, b), !.have = l.have + 1]
    BY DEF WithByte
  <2>d. l.have + 1 \in 1..WordBytes
    BY <2>2, MenuAssumption
  <2>3. /\ m \in [at : Nat, index : 0..MaxIndex, word : Nat, have : 1..WordBytes,
                 drained : 0..(MaxDrain - 1)]
        /\ m.at = l.at /\ m.index = l.index
    <3> HIDE DEF m
    <3>1. m.at = l.at /\ m.index = l.index /\ m.drained = l.drained
          /\ m.word = Shift(l.word, b) /\ m.have = l.have + 1
      BY <1>3, <2>c
    <3> QED
      BY <1>3, <2>1, <2>2, <2>c, <2>d, <3>1
  <2> HIDE DEF m
  <2>a. CASE m.have < WordBytes
    <3>1. load' = m /\ mode' = "word" /\ UNCHANGED <<mem, fn, address>>
      BY <1>3, <2>a DEF Assemble, m
    <3>2. m \in Loads
      BY <2>3, <2>a, MenuAssumption
    <3> QED
      BY <1>1, <1>3, <2>3, <3>1, <3>2 DEF TypeInv, MenuTypeOK, FlashTypes, Downloading
  <2>b. CASE ~(m.have < WordBytes)
    <3>1. load' = [m EXCEPT !.word = 0, !.have = 0] /\ mode' = "poll"
          /\ mem' = Store(m.at, m.word) /\ UNCHANGED <<fn, address>>
      BY <1>3, <2>b DEF Assemble, m
    <3>4. load'.index = m.index /\ load'.at = m.at /\ 0 \in 0..(WordBytes - 1)
      BY <2>3, <3>1, MenuAssumption
    <3>2. load' \in Loads /\ load'.index = l.index /\ load'.at = l.at
      BY <2>3, <3>1, <3>4
    <3>3. mem' \in [Flash -> Nat]
      BY <2>3, <3>1, StoreIsFlash DEF TypeInv
    <3> QED
      BY <1>1, <1>3, <3>1, <3>2, <3>3 DEF TypeInv, MenuTypeOK, FlashTypes, Downloading
  <2> QED
    BY <2>a, <2>b
<1>4. CASE b \in Bytes /\ ReadByte(b)
  <2>1. mode = "word" /\ Assemble(WithByte(load, b))
    BY <1>4 DEF ReadByte
  <2>2. load.index < MaxIndex /\ load.at = address + load.index
    BY <2>1 DEF TypeInv, MenuTypeOK
  <2> QED
    BY <1>1, <1>3, <1>4, <2>1, <2>2
\* Bytes are discarded.
<1>5. ASSUME NEW l \in Loads, NEW n \in 0..MaxDrain, l.index % WordBytes = 0, Discard(l, n)
      PROVE  MenuTypeOK' /\ FlashTypes'
  <2>1. CASE n = MaxDrain
    BY <1>2, <1>5, <2>1 DEF Discard
  <2>2. CASE n # MaxDrain
    <3>1. mode' = "drain" /\ load' = [l EXCEPT !.drained = n] /\ UNCHANGED <<fn, address, mem>>
      BY <1>5, <2>2 DEF Discard
    <3>2. load' \in Loads /\ load'.index = l.index
      BY <1>5, <2>2, <3>1, MenuAssumption
    <3> QED
      BY <1>1, <1>5, <3>1, <3>2 DEF TypeInv, MenuTypeOK, FlashTypes, Downloading
  <2> QED
    BY <2>1, <2>2
<1>6. CASE b \in Bytes /\ MoreBytes(b)
  <2> DEFINE next == [load EXCEPT !.index = @ + WordBytes]
  <2>1. mode = "poll"
        /\ IF next.index = MaxIndex
           THEN Discard(next, 1)
           ELSE Assemble(WithByte([next EXCEPT !.at = @ + WordBytes], b))
    BY <1>6 DEF MoreBytes
  <2>2. load.index < MaxIndex /\ load.index \in Nat /\ load.at = address + load.index
        /\ load.at \in Nat /\ address \in Nat
    BY <1>1, <2>1 DEF TypeInv, MenuTypeOK
  <2>3. load.index + WordBytes \in 0..MaxIndex /\ (load.index + WordBytes) % WordBytes = 0
    BY <1>1, <2>2, NextWord
  <2>4. next \in Loads /\ next.index = load.index + WordBytes
    BY <1>1, <2>3
  <2>5. CASE next.index = MaxIndex
    BY <1>5, <2>1, <2>3, <2>4, <2>5, MenuAssumption
  <2>6. CASE next.index # MaxIndex
    <3> DEFINE l == [next EXCEPT !.at = @ + WordBytes]
    <3>1. load.at + WordBytes \in Nat
      BY <2>2, MenuAssumption
    <3>2. l \in Loads /\ l.index = load.index + WordBytes /\ l.at = load.at + WordBytes
      BY <1>1, <2>4, <3>1
    <3>3. l.index < MaxIndex /\ l.at = address + l.index
      BY <2>2, <2>3, <2>4, <2>6, <3>2, MenuAssumption
    <3> HIDE DEF l
    <3>4. Assemble(WithByte(l, b))
      BY <2>1, <2>6 DEF l
    <3> QED
      BY <1>3, <1>6, <2>3, <3>2, <3>3, <3>4
  <2> QED
    BY <2>5, <2>6
<1>7. CASE DiscardByte(b)
  <2>1. load.drained + 1 \in 0..MaxDrain
    BY <1>1, MenuAssumption
  <2> QED
    BY <1>1, <1>5, <1>7, <2>1 DEF DiscardByte
<1>8. CASE PollsRunOut
  <2>1. 0 \in 0..MaxDrain
    BY MenuAssumption
  <2>2. CASE mode = "poll" /\ Discard(load, 0)
    BY <1>1, <1>5, <2>1, <2>2
  <2>3. CASE mode = "drain" /\ ToMenu /\ UNCHANGED mem
    BY <1>2, <2>3
  <2>4. CASE mode = "word" /\ UNCHANGED <<mode, fn, address, mem, load>>
    BY <1>1, <2>4 DEF TypeInv, MenuTypeOK, FlashTypes
  <2> QED
    BY <1>8, <2>2, <2>3, <2>4 DEF PollsRunOut
<1>9. CASE ProgramReturns
  BY <1>1, <1>2, <1>9 DEF ProgramReturns, TypeInv, MenuTypeOK, FlashTypes, Downloading
<1> QED
  BY <1>4, <1>6, <1>7, <1>8, <1>9

LEMMA NextTypes == TypeInv /\ [MenuNext]_menuVars => TypeInv'
<1> SUFFICES ASSUME TypeInv, [MenuNext]_menuVars PROVE MenuTypeOK' /\ FlashTypes'
  BY NextFraming DEF TypeInv
<1>1. ASSUME NEW tok \in CommandTokens, MenuFeed(tok)
      PROVE  MenuTypeOK' /\ FlashTypes'
  <2>1. CASE MenuHistory /\ (MenuFunction(tok) \/ MenuBridge(tok) \/ MenuAbsorb(tok))
    <3>1. 0 \in Nat
      OBVIOUS
    <3> QED
      BY <2>1, <3>1, MenuKeepsTypes
  <2>2. CASE MenuHistory /\ \E v \in Values(tok) : MenuAddress(tok, v) \/ MenuOperand(tok, v)
    BY <2>2, NumberValue, MenuKeepsTypes
  <2>3. CASE Feed(tok) /\ UNCHANGED <<fn, address, download>>
    BY <2>3, FeedKeepsTypes
  <2> QED
    BY <1>1, <2>1, <2>2, <2>3 DEF MenuFeed
<1>2. ASSUME NEW b \in Bytes, SendByte(b)
      PROVE  MenuTypeOK' /\ FlashTypes'
  BY <1>2, DownloadKeepsTypes DEF SendByte, Streamed
<1>3. CASE Pause
  BY <1>3, DownloadKeepsTypes DEF Pause, Streamed
<1>4. CASE Return
  BY <1>4, DownloadKeepsTypes DEF Return
<1>5. CASE UNCHANGED menuVars
  BY <1>5 DEF TypeInv, MenuTypeOK, FlashTypes, menuVars, commandVars, bootVars, history, download
<1>6. \A k \in MenuKeys : <<"key", k>> \in CommandTokens
  BY DEF CommandTokens
<1>7. /\ \A v \in Numbers : <<"num", v>> \in CommandTokens
      /\ \A d \in 1..DIGITS : <<"part", d>> \in CommandTokens
  BY DEF CommandTokens
<1> QED
  BY <1>1, <1>2, <1>3, <1>4, <1>5, <1>6, <1>7 DEF MenuNext

LEMMA InitTypes == MenuInit => TypeInv
<1> SUFFICES ASSUME MenuInit PROVE MenuTypeOK /\ FlashTypes
  BY InitFraming DEF TypeInv
<1>1. mode \in {"menu", "console"} /\ fn = "none" /\ address = 0 /\ load = From(0)
  BY DEF MenuInit, CommandsInit, BootInit
<1>2. /\ From(0) \in [at : Nat, index : 0..MaxIndex, word : Nat, have : 0..(WordBytes - 1),
                     drained : 0..(MaxDrain - 1)]
      /\ From(0).index = 0 /\ 0 % WordBytes = 0
  BY MenuAssumption DEF From
<1>3. mem = [f \in Flash |-> 0] /\ before = mem
  BY DEF MenuInit, CommandsInit, BootInit
<1>d. digits \in 0..(MAX_DIGITS - 1)
  BY BootAssumption DEF MenuInit, CommandsInit, BootInit
<1>4. FlashTypes
  BY <1>3 DEF FlashTypes
<1> QED
  BY <1>1, <1>2, <1>4, <1>d DEF MenuTypeOK

-------------------------------------------------------------------------------
(* The flash is what the commands mean. *)

\* The strengthening of StoresWhatIsMeant: the console has counted its way to
\* the place of the next word.
Storing == cmd \in {"w", "s"} /\ Len(args) >= Header[cmd]

StoreInv ==
    /\ TypeInv
    /\ numbers \in Seq(Nat)
    /\ Storing => base = Place(Len(args) - Header[cmd] + 1)
    /\ StoresWhatIsMeant

\* A command that stores nothing, or has stored nothing yet.
LEMMA NothingStored ==
    /\ Words = {} => (StoresWhatIsMeant <=> \A f \in Flash : mem[f] = before[f])
    /\ Words' = {} => (StoresWhatIsMeant' <=> \A f \in Flash : mem'[f] = before'[f])
  BY DEF StoresWhatIsMeant, AsMeant, GivenTo, Erasures, StillThere

LEMMA TargetIsNat ==
    ASSUME FlashTypes, numbers \in Seq(Nat), letter \in {"w", "s"},
           Len(numbers) >= Header[letter]
    PROVE  Target \in Nat
<1>1. Len(numbers) \in Nat /\ Len(numbers) >= 2 /\ (letter = "s" => Len(numbers) >= 3)
  BY LenProperties DEF Header
<1>2. numbers[1] \in Nat /\ numbers[2] \in Nat
  BY <1>1, ElementOfSeq
<1>3. \A a : Old(a) \in Nat
  BY DEF Old, FlashTypes
<1> QED
  BY <1>2, <1>3 DEF Target

\* The numbers given before stay, and so do their places.
LEMMA OneMoreNumber ==
    ASSUME StoreInv, NEW v \in Nat, cmd # "none",
           UNCHANGED <<letter, before>>, numbers' = Append(numbers, v)
    PROVE  /\ numbers' \in Seq(Nat) /\ Len(numbers') = Len(numbers) + 1
           /\ letter = cmd /\ Len(numbers) = Len(args) /\ Len(args) \in Nat
           /\ Len(numbers) < Header[cmd] => Words = {} /\ Words' = {}
           /\ Storing =>
                 LET n == Len(args) - Header[cmd]
                 IN  /\ n \in Nat /\ Words = 1..n /\ Words' = 1..(n + 1)
                     /\ Target \in Nat /\ Target' = Target
                     /\ \A d \in 1..n : Word(d)' = Word(d)
                     /\ \A d : d = n + 1 => Word(d)' = v
<1>1. letter = cmd /\ numbers = args /\ cmd \in DOMAIN Header /\ Header[cmd] \in 1..3
  BY HeaderLength DEF StoreInv, TypeInv, FramingInv
<1>2. /\ numbers \in Seq(Nat) /\ Len(numbers) \in Nat
      /\ numbers' \in Seq(Nat) /\ Len(numbers') = Len(numbers) + 1
      /\ \A i \in 1..Len(numbers) : numbers'[i] = numbers[i]
      /\ numbers'[Len(numbers) + 1] = v
  BY AppendProperties, LenProperties DEF StoreInv
<1>3. Len(numbers) < Header[cmd] => Words = {} /\ Words' = {}
  BY <1>1, <1>2 DEF Words
<1>4. ASSUME Storing
      PROVE  LET n == Len(args) - Header[cmd]
             IN  /\ n \in Nat /\ Words = 1..n /\ Words' = 1..(n + 1)
                 /\ Target \in Nat /\ Target' = Target
                 /\ \A d \in 1..n : Word(d)' = Word(d)
                 /\ \A d : d = n + 1 => Word(d)' = v
  <2> DEFINE n == Len(args) - Header[cmd]
  <2>1. cmd \in {"w", "s"} /\ Len(numbers) >= Header[letter] /\ letter' = letter
    BY <1>1, <1>4 DEF Storing
  <2>2. n \in Nat /\ Words = 1..n /\ Words' = 1..(n + 1)
    BY <1>1, <1>2, <2>1 DEF Words
  <2>3. Target \in Nat
    BY <1>1, <1>2, <2>1, TargetIsNat DEF StoreInv, TypeInv
  <2>4. Len(numbers) >= 2
    BY <1>1, <1>2, <2>1 DEF Header
  <2>5. numbers'[1] = numbers[1] /\ numbers'[2] = numbers[2]
    BY <1>2, <2>4
  <2>6. Target' = Target
    BY <1>1, <2>1, <2>5 DEF Target, Old
  <2>7. ASSUME NEW d \in 1..n PROVE Word(d)' = Word(d)
    <3>1. Header[letter] + d \in 1..Len(numbers)
      BY <1>1, <1>2
    <3>2. numbers'[Header[letter] + d] = numbers[Header[letter] + d]
      BY <1>2, <3>1, Zenon
    <3> QED
      BY <2>1, <3>2 DEF Word
  <2>8. Header[letter] + (n + 1) = Len(numbers) + 1
    BY <1>1, <1>2
  <2>9. ASSUME NEW d, d = n + 1 PROVE Word(d)' = v
    BY <1>2, <2>1, <2>8, <2>9 DEF Word
  <2> QED
    BY <2>2, <2>3, <2>6, <2>7, <2>9
<1> QED
  BY <1>1, <1>2, <1>3, <1>4

\* A word that is stored goes after those stored before, and to another place.
LEMMA WordStored ==
    ASSUME StoreInv, NEW v \in Nat, Storing,
           UNCHANGED <<letter, before>>, numbers' = Append(numbers, v),
           mem' = Store(base, v)
    PROVE  StoresWhatIsMeant'
<1> PICK n : n = Len(args) - Header[cmd]
  OBVIOUS
<1>1. /\ n \in Nat /\ Words = 1..n /\ Words' = 1..(n + 1)
      /\ Target \in Nat /\ Target' = Target
      /\ \A d \in 1..n : Word(d)' = Word(d)
      /\ Word(n + 1)' = v
  BY OneMoreNumber DEF Storing
<1>2. base = Place(n + 1)
  BY DEF StoreInv
<1>3. \A d \in 1..(n + 1) : Place(d)' = Place(d)
  BY <1>1 DEF Place
<1>4. \A d \in 1..n : Place(d) # base
  <2> TAKE d \in 1..n
  <2>1. Target \in Nat /\ n \in Nat /\ d \in Nat /\ d # n + 1
    BY <1>1
  <2> QED
    BY <1>2, <2>1 DEF Place
<1>5. \A f : GivenTo(f)' = {d \in 1..(n + 1) : Place(d) = f}
  BY <1>1, <1>3 DEF GivenTo
<1>6. \A f : GivenTo(f)' = IF f = base THEN GivenTo(f) \cup {n + 1} ELSE GivenTo(f)
  <2> SUFFICES ASSUME NEW f
               PROVE  GivenTo(f)' = IF f = base THEN GivenTo(f) \cup {n + 1} ELSE GivenTo(f)
    OBVIOUS
  <2>1. GivenTo(f) = {d \in 1..n : Place(d) = f}
    BY <1>1 DEF GivenTo
  <2>2. GivenTo(f)' = {d \in 1..(n + 1) : Place(d) = f}
    BY <1>5
  <2>3. 1..(n + 1) = (1..n) \cup {n + 1}
    BY <1>1
  <2> QED
    BY <1>2, <2>1, <2>2, <2>3
<1>7. \A f : GivenTo(f) \subseteq 1..n
  BY <1>1 DEF GivenTo
<1>8. Erasures' = GivenTo(EraseAddr)'
  BY DEF Erasures
<1> SUFFICES ASSUME NEW f \in Flash
             PROVE  AsMeant(f)'
  BY DEF StoresWhatIsMeant
<1>9. AsMeant(f) /\ f # EraseAddr
  BY CommandsAssumption DEF StoreInv, StoresWhatIsMeant
<1>10. CASE base = EraseAddr
  <2>1. n + 1 \in Erasures'
    BY <1>6, <1>8, <1>10
  <2>2. GivenTo(f)' = GivenTo(f)
    BY <1>6, <1>9, <1>10
  <2>3. \A d \in GivenTo(f)' : ~(StillThere(d)')
    <3> SUFFICES ASSUME NEW d \in GivenTo(f)' PROVE ~(n + 1 < d)
      BY <2>1 DEF StillThere
    <3>1. d \in 1..n
      BY <1>7, <2>2
    <3> QED
      BY <1>1, <3>1
  <2>4. mem'[f] = Blank
    BY <1>10 DEF Store
  <2> QED
    BY <2>1, <2>3, <2>4 DEF AsMeant
<1>11. CASE base # EraseAddr /\ f = base
  <2>1. Erasures' = Erasures /\ Erasures \subseteq 1..n
    BY <1>6, <1>7, <1>8, <1>11 DEF Erasures
  <2>2. StillThere(n + 1)'
    BY <1>1, <2>1 DEF StillThere
  <2>3. GivenTo(f)' = {n + 1}
    <3>1. GivenTo(f) = {}
      BY <1>1, <1>4, <1>11 DEF GivenTo
    <3> QED
      BY <1>6, <1>11, <3>1
  <2>4. mem'[f] = v
    BY <1>11 DEF Store
  <2> QED
    BY <1>1, <2>2, <2>3, <2>4 DEF AsMeant
<1>12. CASE base # EraseAddr /\ f # base
  <2>1. Erasures' = Erasures
    BY <1>6, <1>8, <1>12 DEF Erasures
  <2>2. GivenTo(f)' = GivenTo(f) /\ GivenTo(f) \subseteq 1..n
    BY <1>6, <1>7, <1>12
  <2>3. mem'[f] = mem[f]
    BY <1>12 DEF Store
  <2>4. \A d : StillThere(d)' <=> StillThere(d)
    BY <2>1 DEF StillThere
  <2>5. \A d \in GivenTo(f) : Word(d)' = Word(d)
    BY <1>1, <2>2
  <2> QED
    BY <1>9, <2>1, <2>2, <2>3, <2>4, <2>5 DEF AsMeant
<1> QED
  BY <1>10, <1>11, <1>12

LEMMA NumberMeant ==
    ASSUME StoreInv, NEW v \in Nat, cmd # "none",
           UNCHANGED <<letter, before>>, numbers' = Append(numbers, v),
           ReadHeader(v) \/ ReadData(v), TypeInv'
    PROVE  StoreInv'
<1> DEFINE a == Append(args, v)
<1>1. /\ numbers' \in Seq(Nat) /\ Len(numbers') = Len(numbers) + 1
      /\ letter = cmd /\ Len(numbers) = Len(args) /\ Len(args) \in Nat
      /\ Len(numbers) < Header[cmd] => Words = {} /\ Words' = {}
  BY OneMoreNumber
<1>2. cmd \in DOMAIN Header /\ Header[cmd] \in 1..3 /\ args \in Seq(Nat) /\ numbers = args
  BY HeaderLength DEF StoreInv, TypeInv, FramingInv
<1>3. /\ Len(a) = Len(args) + 1 /\ a = numbers'
      /\ \A i \in 1..Len(args) : a[i] = args[i]
  BY <1>2, AppendProperties
<1>4. cmd' = "none" \/ (cmd' = cmd /\ args' = a)
  BY DEF ReadHeader, ReadData, Finish
<1>5. CASE ReadHeader(v)
  <2>1. Len(args) < Header[cmd] /\ UNCHANGED mem
    BY <1>5 DEF ReadHeader
  <2>2. StoresWhatIsMeant'
    <3>1. \A f \in Flash : mem[f] = before[f]
      BY <1>1, <2>1, NothingStored DEF StoreInv
    <3> QED
      BY <1>1, <2>1, <3>1, NothingStored
  <2>3. ASSUME Storing'
        PROVE  (base = Place(Len(args) - Header[cmd] + 1))'
    <3>1. cmd' = cmd /\ args' = a /\ cmd \in {"w", "s"} /\ Len(a) = Header[cmd]
      BY <1>1, <1>2, <1>3, <1>4, <2>1, <2>3 DEF Storing
    <3>2. ~(Len(a) = Header[cmd] /\ DataCount(cmd, a) = 0)
      BY <1>5, <1>2, <3>1 DEF ReadHeader, Finish, Header
    <3>3. base' = CASE cmd = "w" -> a[1]
                    [] cmd = "s" /\ Len(a) = 3 -> a[2] + Load(a[1])
                    [] OTHER -> base
      BY <1>5, <3>2 DEF ReadHeader
    <3>4. base' = IF cmd = "w" THEN a[1] ELSE a[2] + Load(a[1])
      BY <3>1, <3>3 DEF Header
    <3>5. \A x : Load(x) = Old(x)'
      <4>1. \A f \in Flash : mem[f] = before[f]
        BY <1>1, <2>1, NothingStored DEF StoreInv
      <4> QED
        BY <4>1 DEF Load, Old
    <3>6. base' = Target'
      BY <1>1, <1>3, <3>1, <3>4, <3>5 DEF Target
    <3>7. Target' \in Nat
      <4>1. \A x : Load(x) \in Nat
        BY DEF Load, StoreInv, TypeInv, FlashTypes
      <4>2. a[1] \in Nat /\ a[2] \in Nat
        BY <1>1, <1>3, <3>1, ElementOfSeq DEF Header
      <4>3. Load(a[1]) \in Nat
        BY <4>1
      <4> HIDE DEF a
      <4> QED
        BY <3>4, <3>6, <4>2, <4>3
    <3>8. Len(args') - Header[cmd'] + 1 = 1
      BY <1>2, <3>1
    <3> QED
      BY <3>6, <3>7, <3>8 DEF Place
  <2> QED
    BY <1>1, <2>2, <2>3 DEF StoreInv
<1>6. CASE ReadData(v)
  <2>1. Len(args) >= Header[cmd] /\ mem' = IF cmd = "R" THEN mem ELSE Store(base, v)
    BY <1>6 DEF ReadData
  <2>2. cmd \in {"w", "s", "R"}
    BY <1>1, <1>2, <2>1, HeaderLength DEF StoreInv, TypeInv, FramingInv, DataCount
  <2>3. CASE cmd = "R"
    <3>1. Words = {} /\ Words' = {} /\ UNCHANGED mem
      BY <1>1, <2>1, <2>3 DEF Words
    <3>2. StoresWhatIsMeant'
      BY <3>1, NothingStored DEF StoreInv
    <3>3. ~Storing'
      BY <1>4, <2>3 DEF Storing
    <3> QED
      BY <1>1, <3>2, <3>3 DEF StoreInv
  <2>4. CASE cmd # "R"
    <3>1. Storing
      BY <2>1, <2>2, <2>4 DEF Storing
    <3>2. StoresWhatIsMeant'
      BY <2>1, <2>4, <3>1, WordStored
    <3>3. ASSUME Storing'
          PROVE  (base = Place(Len(args) - Header[cmd] + 1))'
      <4>1. cmd' = cmd /\ args' = a
        BY <1>4, <3>3 DEF Storing
      <4>2. base' = base + 4
        BY <1>6, <1>2, <4>1, HeaderLength DEF ReadData, Finish
      <4>3. Target \in Nat /\ Target' = Target
        BY <3>1, OneMoreNumber
      <4>4. base = Target + 4 * (Len(args) - Header[cmd])
        BY <1>1, <1>2, <3>1, <4>3 DEF StoreInv, Place
      <4>5. PICK k \in Nat : k = Len(args) - Header[cmd]
        BY <1>1, <1>2, <3>1 DEF Storing
      <4>6. Len(args') - Header[cmd'] + 1 = k + 2
        BY <1>1, <1>2, <1>3, <4>1, <4>5
      <4>7. base' = Target + 4 * ((k + 2) - 1)
        BY <1>1, <1>2, <4>2, <4>3, <4>4, <4>5
      <4> QED
        BY <4>3, <4>6, <4>7 DEF Place
    <3> QED
      BY <1>1, <3>2, <3>3 DEF StoreInv
  <2> QED
    BY <2>3, <2>4
<1> QED
  BY <1>5, <1>6

LEMMA FeedKeepsMeaning ==
    ASSUME StoreInv, NEW tok \in CommandTokens, Feed(tok), TypeInv'
    PROVE  StoreInv'
<1>0. PICK v \in Values(tok) :
        /\ Consume(tok, v)
        /\ IF cmd = "none" /\ cmd' # "none"
           THEN before' = mem /\ letter' = cmd' /\ numbers' = <<>>
           ELSE /\ UNCHANGED <<before, letter>>
                /\ numbers' = IF cmd # "none" /\ EndsNumber(tok)
                              THEN Append(numbers, v) ELSE numbers
  BY DEF Feed
<1>v. v \in Nat
  BY NumberValue
<1>1. CASE cmd = "none" /\ cmd' # "none"
  <2>1. Select(tok)
    BY <1>0, <1>1 DEF Consume, MenuConsole, MenuAgain, EnterBridge, Ignore, Absorb,
                ReadHeader, ReadData, Elsewhere
  <2>2. cmd' \in DOMAIN Header /\ args' = <<>> /\ UNCHANGED mem
    BY <2>1 DEF Select
  <2>3. letter' = cmd' /\ numbers' = <<>> /\ before' = mem
    BY <1>0, <1>1
  <2>4. Header[cmd'] \in 1..3 /\ <<>> \in Seq(Nat) /\ Len(<<>>) = 0
    BY <2>2, HeaderLength, EmptySeq
  <2>5. Words' = {} /\ ~Storing'
    BY <2>2, <2>3, <2>4 DEF Words, Storing
  <2>6. StoresWhatIsMeant'
    BY <2>2, <2>3, <2>5, NothingStored
  <2> QED
    BY <2>3, <2>4, <2>5, <2>6 DEF StoreInv
<1>2. CASE cmd = "none" /\ cmd' = "none"
  <2>1. UNCHANGED <<letter, numbers, before>>
    BY <1>0, <1>2
  <2>2. UNCHANGED mem
    BY <1>0, <1>2 DEF Consume, MenuConsole, MenuAgain, Select, EnterBridge, Ignore, Absorb,
                ReadHeader, ReadData, Elsewhere
  <2>3. ~Storing' /\ (StoresWhatIsMeant' <=> StoresWhatIsMeant)
    BY <1>2, <2>1, <2>2 DEF Storing, StoresWhatIsMeant, AsMeant, GivenTo, Erasures, StillThere,
                            Words, Word, Place, Target, Old
  <2> QED
    BY <2>1, <2>3 DEF StoreInv
<1>3. CASE cmd # "none"
  <2>1. mode = "console"
    BY <1>3 DEF StoreInv, TypeInv, FramingInv
  <2>2. \/ Absorb(tok)
        \/ EndsNumber(tok) /\ (ReadHeader(v) \/ ReadData(v))
    BY <1>0, <1>3, <2>1 DEF Consume, MenuConsole, MenuAgain, Select, EnterBridge, Ignore,
                      AtPrompt, Elsewhere
  <2>3. UNCHANGED <<letter, before>>
        /\ numbers' = IF EndsNumber(tok) THEN Append(numbers, v) ELSE numbers
    BY <1>0, <1>3
  <2>4. CASE Absorb(tok)
    <3>1. UNCHANGED <<mem, letter, before, numbers, cmd, args, base>>
      BY <2>3, <2>4 DEF Absorb
    <3>2. /\ StoresWhatIsMeant' <=> StoresWhatIsMeant
          /\ Storing' <=> Storing
          /\ \A d : Place(d)' = Place(d)
      BY <3>1 DEF Storing, StoresWhatIsMeant, AsMeant, GivenTo, Erasures, StillThere, Words,
                  Word, Place, Target, Old
    <3> QED
      BY <3>1, <3>2 DEF StoreInv
  <2>5. CASE EndsNumber(tok) /\ (ReadHeader(v) \/ ReadData(v))
    BY <1>3, <2>3, <2>5, <1>v, NumberMeant
  <2> QED
    BY <2>2, <2>4, <2>5
<1> QED
  BY <1>1, <1>2, <1>3

\* The menu, its functions and the download start the history afresh.
LEMMA MenuMeansNothing ==
    ASSUME StoreInv, MenuHistory, cmd = "none", TypeInv'
    PROVE  StoreInv'
<1>1. letter' = "none" /\ numbers' = <<>> /\ before' = mem' /\ cmd' = "none"
  BY DEF MenuHistory
<1>2. Words' = {} /\ ~Storing' /\ numbers' \in Seq(Nat)
  BY <1>1, EmptySeq DEF Words, Storing
<1> QED
  BY <1>1, <1>2, NothingStored DEF StoreInv

LEMMA NextStore == StoreInv /\ [MenuNext]_menuVars => StoreInv'
<1> SUFFICES ASSUME StoreInv, [MenuNext]_menuVars PROVE StoreInv'
  OBVIOUS
<1>1. TypeInv' /\ (mode # "console" => cmd = "none")
  BY NextTypes DEF StoreInv, TypeInv, FramingInv
<1>2. ASSUME NEW tok \in CommandTokens, MenuFeed(tok)
      PROVE  StoreInv'
  <2>1. CASE Feed(tok)
    BY <1>1, <2>1, FeedKeepsMeaning
  <2>2. CASE ~Feed(tok)
    <3>1. MenuHistory /\ mode # "console"
      BY <1>2, <2>2 DEF MenuFeed, MenuFunction, MenuBridge, MenuAbsorb, MenuAddress, MenuOperand
    <3> QED
      BY <1>1, <3>1, MenuMeansNothing
  <2> QED
    BY <2>1, <2>2
<1>3. CASE Pause \/ Return \/ \E b \in Bytes : SendByte(b)
  <2>1. MenuHistory /\ mode # "console"
    BY <1>3 DEF Pause, Return, SendByte, Streamed, ReadByte, MoreBytes, DiscardByte,
                PollsRunOut, ProgramReturns
  <2> QED
    BY <1>1, <2>1, MenuMeansNothing
<1>4. CASE UNCHANGED menuVars
  <2>1. UNCHANGED <<mem, letter, before, numbers, cmd, args, base>>
    BY <1>4 DEF menuVars, commandVars, bootVars, history
  <2>2. /\ StoresWhatIsMeant' <=> StoresWhatIsMeant
        /\ Storing' <=> Storing
        /\ \A d : Place(d)' = Place(d)
    BY <2>1 DEF Storing, StoresWhatIsMeant, AsMeant, GivenTo, Erasures, StillThere, Words,
                Word, Place, Target, Old
  <2> QED
    BY <1>1, <2>1, <2>2 DEF StoreInv
<1>5. \A k \in MenuKeys : <<"key", k>> \in CommandTokens
  BY DEF CommandTokens
<1>6. /\ \A v \in Numbers : <<"num", v>> \in CommandTokens
      /\ \A d \in 1..DIGITS : <<"part", d>> \in CommandTokens
  BY DEF CommandTokens
<1> QED
  BY <1>2, <1>3, <1>4, <1>5, <1>6 DEF MenuNext

LEMMA InitStore == MenuInit => StoreInv
<1> SUFFICES ASSUME MenuInit PROVE StoreInv
  OBVIOUS
<1>1. letter = "none" /\ numbers = <<>> /\ before = mem /\ cmd = "none"
  BY DEF MenuInit, CommandsInit, BootInit
<1>2. Words = {} /\ ~Storing /\ numbers \in Seq(Nat)
  BY <1>1, EmptySeq DEF Words, Storing
<1> QED
  BY <1>1, <1>2, NothingStored, InitTypes DEF StoreInv

-------------------------------------------------------------------------------
(* The bytes of a word.  A power of two counts the subsets of an interval,  *)
(* and the subsets of two intervals side by side are pairs of subsets.      *)

LEMMA PowerOfSum ==
    ASSUME NEW m \in Nat, NEW n \in Nat
    PROVE  2^(m + n) = 2^m * 2^n
<1> DEFINE A == 1..m
           B == (m + 1)..(m + n)
           pair == [S \in SUBSET (A \cup B) |-> <<S \cap A, S \cap B>>]
<1>1. IsFiniteSet(A) /\ Cardinality(A) = m
  BY FS_Interval
<1>2. IsFiniteSet(B) /\ Cardinality(B) = n
  <2>1. m + 1 \in Int /\ m + n \in Int /\ (m + n) - (m + 1) + 1 = n
        /\ (m + 1 > m + n => n = 0)
    OBVIOUS
  <2> QED
    BY <2>1, FS_Interval
<1>3. A \cap B = {}
  OBVIOUS
<1>4. IsFiniteSet(A \cup B) /\ Cardinality(A \cup B) = m + n
  <2>1. IsFiniteSet(A \cup B) /\ Cardinality(A \cup B)
        = Cardinality(A) + Cardinality(B) - Cardinality(A \cap B)
    BY <1>1, <1>2, FS_Union
  <2>2. Cardinality(A \cap B) = 0
    BY <1>3, FS_EmptySet
  <2> QED
    BY <1>1, <1>2, <2>1, <2>2
<1> HIDE DEF A, B
<1>5. pair \in Bijection(SUBSET (A \cup B), (SUBSET A) \X (SUBSET B))
  <2>1. pair \in [SUBSET (A \cup B) -> (SUBSET A) \X (SUBSET B)]
    OBVIOUS
  <2>2. \A S, T \in SUBSET (A \cup B) : pair[S] = pair[T] => S = T
    <3> TAKE S, T \in SUBSET (A \cup B)
    <3> HAVE pair[S] = pair[T]
    <3>1. S \cap A = T \cap A /\ S \cap B = T \cap B
      OBVIOUS
    <3> QED
      BY <3>1
  <2>3. \A p \in (SUBSET A) \X (SUBSET B) : \E S \in SUBSET (A \cup B) : pair[S] = p
    <3> TAKE p \in (SUBSET A) \X (SUBSET B)
    <3>1. PICK X \in SUBSET A, Y \in SUBSET B : p = <<X, Y>>
      OBVIOUS
    <3>2. X \cup Y \in SUBSET (A \cup B)
      OBVIOUS
    <3>3. (X \cup Y) \cap A = X /\ (X \cup Y) \cap B = Y
      BY <1>3
    <3> QED
      BY <3>1, <3>2, <3>3
  <2> QED
    BY <2>1, <2>2, <2>3, Fun_IsBij
<1>6. Cardinality((SUBSET A) \X (SUBSET B)) = Cardinality(SUBSET (A \cup B))
  <2>1. ExistsBijection(SUBSET (A \cup B), (SUBSET A) \X (SUBSET B))
    BY <1>5, Fun_ExistsBij
  <2> QED
    BY <1>4, <2>1, FS_SUBSET, FS_Bijection
<1>7. /\ IsFiniteSet(SUBSET A) /\ Cardinality(SUBSET A) = 2^m
      /\ IsFiniteSet(SUBSET B) /\ Cardinality(SUBSET B) = 2^n
      /\ Cardinality(SUBSET (A \cup B)) = 2^(m + n)
  BY <1>1, <1>2, <1>4, FS_SUBSET
<1>8. Cardinality((SUBSET A) \X (SUBSET B)) = Cardinality(SUBSET A) * Cardinality(SUBSET B)
  BY <1>7, FS_Product
<1> QED
  BY <1>6, <1>7, <1>8

LEMMA TwoToTheEight == 2^0 = 1 /\ 2^8 = 256
<1>1. 2^0 = 1
  <2>1. IsFiniteSet({}) /\ Cardinality({}) = 0
    BY FS_EmptySet
  <2>2. Cardinality(SUBSET {}) = 2^0
    BY <2>1, FS_SUBSET
  <2>3. SUBSET {} = {{}}
    OBVIOUS
  <2> QED
    BY <2>2, <2>3, FS_Singleton
<1>2. 2^1 = 2
  <2>1. IsFiniteSet({1}) /\ Cardinality({1}) = 1
    BY FS_Singleton
  <2>2. Cardinality(SUBSET {1}) = 2^1
    BY <2>1, FS_SUBSET
  <2>3. SUBSET {1} = {{}} \cup {{1}}
    OBVIOUS
  <2>4. IsFiniteSet({{}}) /\ Cardinality({{}}) = 1
    BY FS_Singleton
  <2>5. {1} \notin {{}}
    OBVIOUS
  <2>6. Cardinality({{}} \cup {{1}}) = Cardinality({{}}) + 1
    BY <2>4, <2>5, FS_AddElement
  <2> QED
    BY <2>2, <2>3, <2>4, <2>6
<1>3. 2^(1 + 1) = 2^1 * 2^1 /\ 2^(2 + 2) = 2^2 * 2^2 /\ 2^(4 + 4) = 2^4 * 2^4
  BY PowerOfSum
<1>4. 2^2 = 4
  BY <1>2, <1>3
<1>5. 2^4 = 16
  BY <1>3, <1>4
<1> QED
  BY <1>1, <1>3, <1>5

LEMMA PowerPositive ==
    ASSUME NEW k \in Nat
    PROVE  2^k # 0
<1>1. IsFiniteSet(1..k) /\ Cardinality(1..k) = k
  BY FS_Interval
<1>2. Cardinality(SUBSET (1..k)) = 2^k /\ IsFiniteSet(SUBSET (1..k))
  BY <1>1, FS_SUBSET
<1>3. {} \in SUBSET (1..k)
  OBVIOUS
<1> QED
  BY <1>2, <1>3, FS_EmptySet

LEMMA Quotient ==
    ASSUME NEW d \in Nat \ {0}, NEW q \in Nat, NEW r \in 0..(d - 1)
    PROVE  (d * q + r) \div d = q
<1> DEFINE w == d * q + r
           x == w \div d
<1>1. w \in Nat /\ d * q <= w /\ w < d * q + d
  OBVIOUS
<1> HIDE DEF w
<1>2. x \in Int /\ d * x <= w /\ w < d * x + d
  BY <1>1
<1> HIDE DEF x
<1>3. ~(x + 1 <= q)
  <2> SUFFICES ASSUME x + 1 <= q PROVE FALSE
    OBVIOUS
  <2>1. d * (x + 1) <= d * q /\ d * (x + 1) = d * x + d
    BY <1>2
  <2> QED
    BY <1>1, <1>2, <2>1
<1>4. ~(q + 1 <= x)
  <2> SUFFICES ASSUME q + 1 <= x PROVE FALSE
    OBVIOUS
  <2>1. d * (q + 1) <= d * x /\ d * (q + 1) = d * q + d
    BY <1>2
  <2> QED
    BY <1>1, <1>2, <2>1
<1>5. x = q
  BY <1>2, <1>3, <1>4
<1> QED
  BY <1>5 DEF w, x

\* Where a byte of a word stands.
LEMMA Places ==
    ASSUME NEW i \in 1..WordBytes
    PROVE  /\ 2^(8 * (i - 1)) \in Nat \ {0}
           /\ i < WordBytes =>
                 \E n \in Nat : 2^(8 * (WordBytes - 1)) = 256 * 2^(8 * (i - 1)) * n
           /\ 2^(8 * ((i + 1) - 1)) = 256 * 2^(8 * (i - 1))
           /\ 2^(8 * WordBytes) = 256 * 2^(8 * (WordBytes - 1))
<1>1. WordBytes \in Nat \ {0} /\ i \in Nat
  BY MenuAssumption
<1>2. ASSUME NEW k \in Nat PROVE 2^(k + 8) = 256 * 2^k /\ 2^k \in Nat
  <2>1. 2^(k + 8) = 2^k * 2^8
    BY PowerOfSum
  <2> QED
    BY <2>1, TwoToThe, TwoToTheEight
<1>3. 8 * (i - 1) \in Nat /\ 8 * ((i + 1) - 1) = 8 * (i - 1) + 8
      /\ 8 * (WordBytes - 1) \in Nat /\ 8 * WordBytes = 8 * (WordBytes - 1) + 8
  BY <1>1
<1>4. 2^(8 * (i - 1)) \in Nat
  BY <1>2, <1>3
<1>5. 2^(8 * (i - 1)) # 0
  <2>1. 8 * (WordBytes - i) \in Nat
    BY <1>1
  <2>2. PICK k \in Nat : k = 8 * (i - 1)
    BY <1>3
  <2>3. 2^k # 0
    BY <2>2, PowerPositive
  <2> QED
    BY <2>2, <2>3
<1>6. ASSUME i < WordBytes
      PROVE  \E n \in Nat : 2^(8 * (WordBytes - 1)) = 256 * 2^(8 * (i - 1)) * n
  <2>1. /\ 8 * (WordBytes - 1 - i) \in Nat /\ 8 * (i - 1) + 8 \in Nat
        /\ 8 * (WordBytes - 1) = (8 * (i - 1) + 8) + 8 * (WordBytes - 1 - i)
    BY <1>1, <1>6
  <2>2. PICK n \in Nat : n = 2^(8 * (WordBytes - 1 - i))
    BY <2>1, TwoToThe
  <2>3. 2^(8 * (WordBytes - 1)) = 2^(8 * (i - 1) + 8) * n
    BY <2>1, <2>2, PowerOfSum
  <2>4. 2^(8 * (i - 1) + 8) = 256 * 2^(8 * (i - 1))
    BY <1>2, <1>3
  <2> QED
    BY <2>3, <2>4
<1> QED
  BY <1>2, <1>3, <1>4, <1>5, <1>6

\* A byte enters at the top of a word and the others move down by one.
LEMMA ByteEnters ==
    ASSUME NEW w \in Nat, w < 2^(8 * WordBytes), NEW b \in Bytes
    PROVE  /\ Shift(w, b) \in Nat /\ Shift(w, b) < 2^(8 * WordBytes)
           /\ ByteOf(Shift(w, b), WordBytes) = b
           /\ \A i \in 1..(WordBytes - 1) : ByteOf(Shift(w, b), i) = ByteOf(w, i + 1)
<1>1. WordBytes \in 1..WordBytes /\ WordBytes \in Nat \ {0} /\ b \in 0..255
  BY MenuAssumption
<1>2. PICK top \in Nat \ {0} : top = 2^(8 * (WordBytes - 1))
  BY <1>1, Places
<1>3. 2^(8 * WordBytes) = 256 * top
  BY <1>1, <1>2, Places
<1>4. PICK q \in Nat : q = w \div 256
  OBVIOUS
<1>5. q < top
  BY <1>3, <1>4
<1>6. Shift(w, b) = top * b + q
  BY <1>1, <1>2, <1>4 DEF Shift
<1>7. top * b + q \in Nat /\ top * b + q < 256 * top
  <2>1. top * b <= top * 255 /\ top * b \in Nat
    BY <1>1
  <2> QED
    BY <1>5, <2>1
<1>8. ByteOf(Shift(w, b), WordBytes) = b
  <2>1. (top * b + q) \div top = b
    BY <1>1, <1>5, Quotient
  <2>2. b % 256 = b
    BY <1>1
  <2> QED
    BY <1>2, <1>6, <2>1, <2>2 DEF ByteOf
<1>9. ASSUME NEW i \in 1..(WordBytes - 1)
      PROVE  ByteOf(Shift(w, b), i) = ByteOf(w, i + 1)
  <2>1. i \in 1..WordBytes /\ i < WordBytes
    BY <1>1
  <2>2. PICK d \in Nat \ {0} : d = 2^(8 * (i - 1))
    BY <2>1, Places
  <2>3. PICK n \in Nat : top = 256 * d * n
    BY <1>2, <2>1, <2>2, Places
  <2>4. 2^(8 * ((i + 1) - 1)) = 256 * d
    BY <2>1, <2>2, Places
  <2> DEFINE u == q \div d
  <2>5. u \in Nat /\ d * u <= q /\ q < d * u + d
    OBVIOUS
  <2> HIDE DEF u
  <2>6. PICK v \in 0..(d - 1) : q = d * u + v
    <3>1. q - d * u \in 0..(d - 1) /\ q = d * u + (q - d * u)
      BY <2>5
    <3> QED
      BY <3>1
  <2>7. PICK m \in Nat : m = n * b
    BY <1>1
  <2>8. top * b + q = d * (256 * m + u) + v
    <3>1. top * b = d * (256 * (n * b))
      BY <1>1, <2>3
    <3>2. d * (256 * m + u) = d * (256 * m) + d * u
      BY <2>5
    <3>3. d * (256 * m) \in Int /\ d * u \in Int
      BY <2>5
    <3> QED
      BY <2>6, <2>7, <3>1, <3>2, <3>3
  <2>9. (top * b + q) \div d = 256 * m + u
    BY <2>5, <2>8, Quotient
  <2>10. (256 * m + u) % 256 = u % 256
    BY <2>5
  <2>11. w \div (256 * d) = u
    <3>1. PICK x \in 0..255 : w = 256 * q + x
      <4>1. w - 256 * q \in 0..255 /\ w = 256 * q + (w - 256 * q)
        BY <1>4
      <4> QED
        BY <4>1
    <3>2. w = (256 * d) * u + (256 * v + x)
      <4>1. 256 * (d * u + v) = (256 * d) * u + 256 * v
        BY <2>5
      <4>2. (256 * d) * u \in Int /\ 256 * v \in Int
        BY <2>5
      <4> QED
        BY <2>6, <3>1, <4>1, <4>2
    <3>3. 256 * v + x \in 0..(256 * d - 1) /\ 256 * d \in Nat \ {0}
      OBVIOUS
    <3> QED
      BY <2>5, <3>2, <3>3, Quotient
  <2>12. ByteOf(Shift(w, b), i) = u % 256
    BY <1>6, <2>2, <2>9, <2>10 DEF ByteOf
  <2>13. ByteOf(w, i + 1) = u % 256
    BY <2>4, <2>11 DEF ByteOf
  <2> QED
    BY <2>12, <2>13
<1> QED
  BY <1>3, <1>6, <1>7, <1>8, <1>9

LEMMA WithinAWord ==
    ASSUME NEW m \in Nat, m % WordBytes = 0, NEW h \in 0..(WordBytes - 1)
    PROVE  (m + h) % WordBytes = 0 <=> h = 0
<1>1. WordBytes \in Nat \ {0}
  BY MenuAssumption
<1>2. PICK j \in Nat : m = WordBytes * j
  <2>1. m = WordBytes * (m \div WordBytes) /\ m \div WordBytes \in Nat
    BY <1>1
  <2> QED
    BY <2>1
<1>3. (WordBytes * j + h) \div WordBytes = j
  BY <1>1, Quotient
<1>4. (m + h) % WordBytes = 0 <=> m + h = WordBytes * ((m + h) \div WordBytes)
  BY <1>1
<1> QED
  BY <1>1, <1>2, <1>3, <1>4

\* Words are sent one after another: while m bytes made whole words and h more
\* were sent, those words are there; with WordBytes more one more is.
LEMMA WholeWords ==
    ASSUME NEW n \in Int, n >= 0, n % WordBytes = 0,
           NEW m \in Nat, m % WordBytes = 0, NEW h \in 0..(WordBytes - 1)
    PROVE  /\ n + WordBytes <= m + h <=> n + WordBytes <= m
           /\ n + WordBytes <= m + WordBytes <=> n + WordBytes <= m \/ n = m
<1>1. WordBytes \in Nat \ {0}
  BY MenuAssumption
<1>2. n = WordBytes * (n \div WordBytes) /\ m = WordBytes * (m \div WordBytes)
  BY <1>1
<1>3. PICK k \in Nat, j \in Nat : n = WordBytes * k /\ m = WordBytes * j
  <2>1. n \div WordBytes \in Nat /\ m \div WordBytes \in Nat
    BY <1>1
  <2> QED
    BY <1>2, <2>1
<1>4. n + WordBytes = WordBytes * (k + 1) /\ m + WordBytes = WordBytes * (j + 1)
  BY <1>1, <1>3
<1>5. k + 1 <= j => WordBytes * (k + 1) <= WordBytes * j
  BY <1>1
<1>6. j + 1 <= k + 1 => WordBytes * (j + 1) <= WordBytes * (k + 1)
  BY <1>1
<1>7. j + 1 <= k => WordBytes * (j + 1) <= WordBytes * k
  BY <1>1
<1>8. n + WordBytes <= m + h <=> n + WordBytes <= m
  BY <1>1, <1>3, <1>4, <1>5, <1>6
<1>9. n + WordBytes <= m + WordBytes <=> n + WordBytes <= m \/ n = m
  BY <1>1, <1>3, <1>4, <1>5, <1>7
<1> QED
  BY <1>8, <1>9

-------------------------------------------------------------------------------
(* The download: the inductive invariant of DownloadMeans.                  *)

SentTypes == sent \in Seq(Bytes) /\ silences \subseteq 0..Len(sent)

\* How many bytes were sent, by the registers, and that no silence has ended the
\* download before it discards what comes.
Position ==
    /\ mode = "word" => Len(sent) = load.index + load.have /\ (load.have = 0 => load.index = 0)
    /\ mode = "poll" => Len(sent) = load.index + WordBytes /\ load.have = 0
    /\ mode \in {"word", "poll"} => \A p \in silences : ~Whole(p)
    /\ mode = "drain" => Len(sent) >= MaxIndex \/ \E p \in silences : Whole(p)

\* The first h bytes of the word after the first n are at the top of w.
Begun(w, n, h) ==
    /\ w \in Nat /\ w < 2^(8 * WordBytes)
    /\ \A i \in 1..h : ByteOf(w, WordBytes - h + i) = sent[n + i]

Partial == mode \in {"word", "poll"} => Begun(load.word, load.index, load.have)

AsSent ==
    \A f \in Flash :
        IF WordSent(f - address) /\ ~ErasedAfter(f - address)
        THEN IsWord(mem[f], f - address)
        ELSE mem[f] = IF WordSent(EraseAddr - address) THEN Blank ELSE origin[f]

DownloadInv ==
    /\ TypeInv
    /\ SentTypes
    /\ mode \in Downloading => Position /\ Partial /\ AsSent

\* AsSent for one cell: n is where its word stands in what was sent, and e where
\* that for the flash controller does.
SentAt(f, n, e) ==
    IF WordSent(n) /\ ~(n < e /\ WordSent(e))
    THEN IsWord(mem[f], n)
    ELSE mem[f] = IF WordSent(e) THEN Blank ELSE origin[f]

LEMMA CellsAsSent ==
    ASSUME AsSent, NEW f \in Flash, NEW n, NEW e, n = f - address, e = EraseAddr - address
    PROVE  SentAt(f, n, e)
  BY DEF AsSent, SentAt, WordSent, ErasedAfter, IsWord

LEMMA AsSentCells ==
    ASSUME address' \in Nat,
           \A f \in Flash : \A n, e \in Int :
              n = f - address' /\ e = EraseAddr - address' => SentAt(f, n, e)'
    PROVE  AsSent'
<1>1. ASSUME NEW f \in Flash
      PROVE  /\ f - address' \in Int /\ EraseAddr - address' \in Int
  BY MenuAssumption
<1> SUFFICES ASSUME NEW f \in Flash
             PROVE  (IF WordSent(f - address) /\ ~ErasedAfter(f - address)
                     THEN IsWord(mem[f], f - address)
                     ELSE mem[f] = IF WordSent(EraseAddr - address) THEN Blank ELSE origin[f])'
  BY DEF AsSent
<1>2. PICK n \in Int, e \in Int : n = f - address' /\ e = EraseAddr - address'
  BY <1>1
<1>3. SentAt(f, n, e)'
  BY <1>2
<1> QED
  BY <1>2, <1>3 DEF SentAt, WordSent, ErasedAfter, IsWord

\* Bytes that are added do not change a word that was sent.
LEMMA WordStays ==
    ASSUME SentTypes, sent' \in Seq(Bytes), Len(sent) <= Len(sent'),
           \A i \in 1..Len(sent) : sent'[i] = sent[i],
           NEW n \in Int, NEW w, WordSent(n)
    PROVE  IsWord(w, n)' <=> IsWord(w, n)
<1>1. \A i \in 1..WordBytes : n + i \in 1..Len(sent)
  BY MenuAssumption, LenProperties DEF WordSent, SentTypes
<1> QED
  BY <1>1 DEF IsWord

\* A step that changes neither the flash nor which words were sent.
LEMMA FlashStays ==
    ASSUME SentTypes, AsSent, address \in Nat,
           UNCHANGED <<mem, address, origin>>,
           sent' \in Seq(Bytes), Len(sent) <= Len(sent'),
           \A i \in 1..Len(sent) : sent'[i] = sent[i],
           \A n \in Int : WordSent(n)' <=> WordSent(n)
    PROVE  AsSent'
<1> SUFFICES ASSUME NEW f \in Flash, NEW n \in Int, NEW e \in Int,
                    n = f - address', e = EraseAddr - address'
             PROVE  SentAt(f, n, e)'
  BY AsSentCells
<1>1. SentAt(f, n, e)
  BY CellsAsSent
<1>2. (WordSent(n)' <=> WordSent(n)) /\ (WordSent(e)' <=> WordSent(e))
  OBVIOUS
<1>3. WordSent(n) => (IsWord(mem[f], n)' <=> IsWord(mem[f], n))
  <2> SUFFICES ASSUME WordSent(n) PROVE IsWord(mem[f], n)' <=> IsWord(mem[f], n)
    OBVIOUS
  <2>1. PICK w : w = mem[f] /\ w = mem'[f]
    OBVIOUS
  <2>2. IsWord(w, n)' <=> IsWord(w, n)
    BY WordStays
  <2> QED
    BY <2>1, <2>2 DEF IsWord
<1> QED
  BY <1>1, <1>2, <1>3 DEF SentAt

\* Where addresses stand, seen from another.
LEMMA Offsets ==
    /\ \A a, c, y \in Int : a - c = y <=> c + y = a
    /\ \A a, c, d \in Int : a # d => a - c # d - c
  OBVIOUS

\* A byte of the word that l assembles: with the last one the word is stored.
LEMMA ByteTaken ==
    ASSUME SentTypes, AsSent, TypeInv, NEW b \in Bytes,
           NEW l \in [at : Nat, index : 0..MaxIndex, word : Nat, have : 0..(WordBytes - 1),
                      drained : 0..(MaxDrain - 1)],
           l.index % WordBytes = 0, l.index < MaxIndex, l.at = address + l.index,
           Len(sent) = l.index + l.have, Begun(l.word, l.index, l.have),
           \A p \in silences : ~Whole(p),
           Assemble(WithByte(l, b)), UNCHANGED <<origin, silences>>, sent' = Append(sent, b)
    PROVE  SentTypes' /\ Position' /\ Partial' /\ AsSent'
<1> DEFINE w == Shift(l.word, b)
<1>1. /\ l.index \in Nat /\ l.have \in 0..(WordBytes - 1) /\ l.at \in Nat /\ l.word \in Nat
      /\ WordBytes \in Nat \ {0} /\ MaxIndex \in Nat /\ address \in Nat
      /\ sent \in Seq(Bytes) /\ Len(sent) \in Nat
  BY MenuAssumption, LenProperties DEF TypeInv, MenuTypeOK, SentTypes
<1>2. PICK x \in Nat, h \in 0..(WordBytes - 1) :
         x = l.index /\ h = l.have /\ Len(sent) = x + h
  <2>1. l.index \in Nat /\ l.have \in 0..(WordBytes - 1) /\ Len(sent) = l.index + l.have
    BY <1>1
  <2> QED
    BY <2>1, Zenon
<1>3. /\ sent' \in Seq(Bytes) /\ Len(sent') = Len(sent) + 1
      /\ \A i \in 1..Len(sent) : sent'[i] = sent[i]
      /\ sent'[Len(sent) + 1] = b
  <2>1. sent \in Seq(Bytes) /\ sent' = Append(sent, b)
    BY <1>1
  <2> HIDE DEF w
  <2>2. /\ Append(sent, b) \in Seq(Bytes) /\ Len(Append(sent, b)) = Len(sent) + 1
        /\ \A i \in 1..Len(sent) : Append(sent, b)[i] = sent[i]
        /\ Append(sent, b)[Len(sent) + 1] = b
    BY <2>1, AppendProperties
  <2> QED
    BY <2>1, <2>2
<1>4. SentTypes'
  BY <1>1, <1>3 DEF SentTypes
<1>5. WithByte(l, b) = [l EXCEPT !.word = w, !.have = h + 1]
  <2> HIDE DEF w
  <2>1. WithByte(l, b) = [l EXCEPT !.word = w, !.have = l.have + 1]
    BY Zenon DEF WithByte, w
  <2> QED
    BY <1>2, <2>1, Zenon
<1>6. /\ WithByte(l, b).have = h + 1 /\ WithByte(l, b).word = w
      /\ WithByte(l, b).index = x /\ WithByte(l, b).at = address + x
  BY <1>2, <1>5
<1> HIDE DEF w
<1>7. /\ w \in Nat /\ w < 2^(8 * WordBytes)
      /\ ByteOf(w, WordBytes) = b
      /\ \A i \in 1..(WordBytes - 1) : ByteOf(w, i) = ByteOf(l.word, i + 1)
  <2>1. l.word \in Nat /\ l.word < 2^(8 * WordBytes)
    BY DEF Begun
  <2>2. \A v \in Nat : v < 2^(8 * WordBytes) =>
           /\ Shift(v, b) \in Nat /\ Shift(v, b) < 2^(8 * WordBytes)
           /\ ByteOf(Shift(v, b), WordBytes) = b
           /\ \A i \in 1..(WordBytes - 1) : ByteOf(Shift(v, b), i) = ByteOf(v, i + 1)
    BY ByteEnters, Zenon
  <2> QED
    BY <2>1, <2>2, Zenon DEF w
<1>8. \A i \in 1..(h + 1) : ByteOf(w, WordBytes - (h + 1) + i) = sent'[x + i]
  <2> TAKE i \in 1..(h + 1)
  <2>1. CASE i = h + 1
    <3>1. WordBytes - (h + 1) + i = WordBytes
      BY <1>1, <2>1
    <3>2. x + i = Len(sent) + 1
      BY <1>2, <2>1
    <3> QED
      BY <1>3, <1>7, <3>1, <3>2
  <2>2. CASE i # h + 1
    <3>1. i \in 1..h
      BY <2>2
    <3>2. WordBytes - (h + 1) + i \in 1..(WordBytes - 1)
          /\ (WordBytes - (h + 1) + i) + 1 = WordBytes - h + i
      <4>1. WordBytes \in Nat /\ h \in Nat /\ h < WordBytes /\ i \in Nat /\ 1 <= i /\ i <= h
        BY <1>1, <3>1
      <4> QED
        BY <4>1
    <3>3. x + i \in 1..Len(sent)
      BY <1>2, <3>1
    <3>4. ByteOf(w, WordBytes - (h + 1) + i) = ByteOf(l.word, WordBytes - h + i)
      BY <1>7, <3>2, Zenon
    <3>5. ByteOf(l.word, WordBytes - h + i) = sent[x + i]
      BY <1>2, <3>1 DEF Begun
    <3> QED
      BY <1>3, <3>3, <3>4, <3>5
  <2> QED
    BY <2>1, <2>2
<1>9. ASSUME NEW n \in Int
      PROVE  /\ WordSent(n) <=> n >= 0 /\ n % WordBytes = 0
                                /\ n + WordBytes <= x + h /\ n + WordBytes <= MaxIndex
             /\ WordSent(n)' <=> n >= 0 /\ n % WordBytes = 0
                                /\ n + WordBytes <= x + h + 1 /\ n + WordBytes <= MaxIndex
  <2>1. Len(sent') = x + h + 1 /\ \A p \in silences' : ~Whole(p)
    BY <1>2, <1>3
  <2> QED
    BY <1>2, <2>1 DEF WordSent
\* The word is not complete.
<1>10. CASE h + 1 < WordBytes
  <2>1. mode' = "word" /\ load' = WithByte(l, b) /\ UNCHANGED <<mem, address>>
    BY <1>6, <1>10 DEF Assemble
  <2>2. \A n \in Int : WordSent(n)' <=> WordSent(n)
    <3> TAKE n \in Int
    <3>1. h + 1 \in 0..(WordBytes - 1) /\ x + h + 1 = x + (h + 1)
      BY <1>1, <1>10
    <3>2. n >= 0 /\ n % WordBytes = 0 =>
             /\ n + WordBytes <= x + h <=> n + WordBytes <= x
             /\ n + WordBytes <= x + (h + 1) <=> n + WordBytes <= x
      BY <1>2, <3>1, WholeWords
    <3>3. WordSent(n) <=> n >= 0 /\ n % WordBytes = 0
                          /\ n + WordBytes <= x + h /\ n + WordBytes <= MaxIndex
      BY <1>9
    <3>4. WordSent(n)' <=> n >= 0 /\ n % WordBytes = 0
                          /\ n + WordBytes <= x + (h + 1) /\ n + WordBytes <= MaxIndex
      BY <1>9, <3>1
    <3> QED
      BY <3>2, <3>3, <3>4, Zenon
  <2>3. AsSent'
    <3>1. UNCHANGED <<mem, address, origin>> /\ Len(sent) <= Len(sent')
      BY <1>1, <1>3, <2>1
    <3> QED
      BY <1>1, <1>3, <2>2, <3>1, FlashStays, Zenon
  <2>4. Position'
    <3>1. load'.index = x /\ load'.have = h + 1
      BY <1>6, <2>1
    <3>2. h + 1 # 0
      OBVIOUS
    <3>3. Len(sent') = x + (h + 1)
      BY <1>2, <1>3
    <3> QED
      BY <2>1, <3>1, <3>2, <3>3 DEF Position
  <2>5. Partial'
    BY <1>6, <1>7, <1>8, <2>1 DEF Partial, Begun
  <2> QED
    BY <1>4, <2>3, <2>4, <2>5
\* The word is complete.
<1>11. CASE ~(h + 1 < WordBytes)
  <2>1. h + 1 = WordBytes
    BY <1>1, <1>11
  <2>2. mode' = "poll" /\ load' = [WithByte(l, b) EXCEPT !.word = 0, !.have = 0]
        /\ mem' = Store(address + x, w) /\ UNCHANGED address
    BY <1>6, <1>11 DEF Assemble
  <2>3. load'.word = 0 /\ load'.have = 0 /\ load'.index = x
    BY <1>5, <1>2, <2>2
  <2>4. Position'
    BY <1>2, <1>3, <2>1, <2>2, <2>3 DEF Position
  <2>5. Partial'
    <3>1. 0 \in Nat /\ 0 < 2^(8 * WordBytes)
      <4>1. 8 * WordBytes \in Nat
        BY <1>1
      <4>2. PICK top \in Nat : top = 2^(8 * WordBytes)
        BY <4>1, TwoToThe
      <4> QED
        BY <1>7, <4>2
    <3> QED
      BY <2>2, <2>3, <3>1 DEF Partial, Begun
  <2>6. \A n \in Int : /\ WordSent(n)' <=> WordSent(n) \/ n = x
                       /\ WordSent(n) => n < x
    <3> TAKE n \in Int
    <3>1. n >= 0 /\ n % WordBytes = 0 =>
             /\ n + WordBytes <= x + h <=> n + WordBytes <= x
             /\ n + WordBytes <= x + WordBytes <=> n + WordBytes <= x \/ n = x
      BY <1>2, WholeWords
    <3>2. x % WordBytes = 0 /\ x < MaxIndex
      BY <1>2
    <3>3. x + WordBytes \in 0..MaxIndex
      BY <3>2, NextWord
    <3>4. x + WordBytes <= MaxIndex /\ x + h + 1 = x + WordBytes /\ x >= 0
      BY <1>1, <2>1, <3>3
    <3>5. WordSent(n)' <=> WordSent(n) \/ n = x
      BY <1>1, <1>9, <3>1, <3>2, <3>4
    <3>6. WordSent(n) => n + WordBytes <= x
      BY <1>9, <3>1
    <3> QED
      BY <1>1, <3>5, <3>6
  <2>7. AsSent'
    <3> SUFFICES ASSUME NEW f \in Flash, NEW n \in Int, NEW e \in Int,
                        n = f - address', e = EraseAddr - address'
                 PROVE  SentAt(f, n, e)'
      BY <1>1, <2>2, AsSentCells
    <3>1. n = f - address /\ e = EraseAddr - address /\ f \in Nat /\ EraseAddr \in Nat
          /\ f # EraseAddr
      BY <2>2, MenuAssumption, CommandsAssumption
    <3>2. SentAt(f, n, e)
      BY <3>1, CellsAsSent
    <3>3. (WordSent(n)' <=> WordSent(n) \/ n = x) /\ (WordSent(n) => n < x)
          /\ (WordSent(e)' <=> WordSent(e) \/ e = x) /\ (WordSent(e) => e < x)
      BY <2>6
    <3>4. n # e /\ (e = x <=> address + x = EraseAddr) /\ (n = x <=> address + x = f)
      <4>1. address \in Int /\ x \in Int /\ EraseAddr \in Int /\ f \in Int
        BY <1>1, <3>1
      <4>2. EraseAddr - address = x <=> address + x = EraseAddr
        BY <4>1, Offsets
      <4>3. f - address = x <=> address + x = f
        BY <4>1, Offsets
      <4>4. f - address # EraseAddr - address
        BY <3>1, <4>1, Offsets
      <4> QED
        BY <3>1, <4>2, <4>3, <4>4, Zenon
    <3>5. CASE e = x
      <4>1. mem'[f] = Blank
        BY <2>2, <3>4, <3>5 DEF Store
      <4>2. WordSent(e)' /\ (WordSent(n)' => n < e)
        BY <3>3, <3>4, <3>5
      <4> QED
        BY <4>1, <4>2 DEF SentAt
    <3>6. CASE n = x
      <4>1. mem'[f] = w
        BY <2>2, <3>4, <3>6 DEF Store
      <4>2. WordSent(n)' /\ ~(n < e /\ WordSent(e)')
        BY <3>3, <3>4, <3>6
      <4>3. \A i \in 1..WordBytes : ByteOf(w, i) = sent'[n + i]
        <5> TAKE i \in 1..WordBytes
        <5>1. i \in 1..(h + 1) /\ WordBytes - (h + 1) + i = i
          BY <1>1, <2>1
        <5> QED
          BY <1>8, <3>6, <5>1
      <4> QED
        BY <1>7, <4>1, <4>2, <4>3 DEF SentAt, IsWord
    <3>7. CASE e # x /\ n # x
      <4>1. mem'[f] = mem[f]
        BY <2>2, <3>4, <3>7 DEF Store
      <4>2. (WordSent(n)' <=> WordSent(n)) /\ (WordSent(e)' <=> WordSent(e))
        BY <3>3, <3>7
      <4>3. WordSent(n) => (IsWord(mem[f], n)' <=> IsWord(mem[f], n))
        <5> SUFFICES ASSUME WordSent(n) PROVE IsWord(mem[f], n)' <=> IsWord(mem[f], n)
          OBVIOUS
        <5>1. PICK v : v = mem[f] /\ v = mem'[f]
          BY <4>1
        <5>2. Len(sent) <= Len(sent')
          BY <1>1, <1>3
        <5>3. IsWord(v, n)' <=> IsWord(v, n)
          BY <1>3, <5>2, WordStays
        <5> QED
          BY <5>1, <5>3 DEF IsWord
      <4> QED
        BY <3>2, <4>1, <4>2, <4>3 DEF SentAt
    <3> QED
      BY <3>5, <3>6, <3>7
  <2> QED
    BY <1>4, <2>4, <2>5, <2>7
<1> QED
  BY <1>10, <1>11

\* What the download is about to discard was not counted before, either.
LEMMA SendKeepsDownload ==
    ASSUME DownloadInv, NEW b \in Bytes, SendByte(b), mode' \in Downloading
    PROVE  SentTypes' /\ Position' /\ Partial' /\ AsSent'
<1> DEFINE Loads == [at : Nat, index : 0..MaxIndex, word : Nat, have : 0..(WordBytes - 1),
                     drained : 0..(MaxDrain - 1)]
<1>1. /\ UNCHANGED <<origin, silences>> /\ sent' = Append(sent, b)
      /\ ReadByte(b) \/ MoreBytes(b) \/ DiscardByte(b)
  BY DEF SendByte, Streamed, Downloading
<1>2. mode \in Downloading
  BY <1>1 DEF ReadByte, MoreBytes, DiscardByte, Downloading
<1>3. TypeInv /\ SentTypes /\ Position /\ Partial /\ AsSent
  BY <1>2 DEF DownloadInv
<1>4. /\ load \in Loads /\ load.index % WordBytes = 0
      /\ mode \in {"word", "poll"} => load.index < MaxIndex /\ load.at = address + load.index
      /\ address \in Nat
  BY <1>3 DEF TypeInv, MenuTypeOK
<1>5. /\ sent \in Seq(Bytes) /\ Len(sent) \in Nat
      /\ sent' \in Seq(Bytes) /\ Len(sent') = Len(sent) + 1
      /\ \A i \in 1..Len(sent) : sent'[i] = sent[i]
  <2>1. sent \in Seq(Bytes) /\ Len(sent) \in Nat
    BY <1>3, LenProperties DEF SentTypes
  <2> QED
    BY <1>1, <2>1, AppendProperties
<1>6. SentTypes'
  BY <1>1, <1>3, <1>5 DEF SentTypes
<1>7. CASE ReadByte(b)
  <2>1. mode = "word" /\ Assemble(WithByte(load, b))
    BY <1>7 DEF ReadByte
  <2>2. /\ Len(sent) = load.index + load.have /\ Begun(load.word, load.index, load.have)
        /\ \A p \in silences : ~Whole(p)
    BY <1>3, <2>1 DEF Position, Partial
  <2> QED
    BY <1>1, <1>3, <1>4, <2>1, <2>2, ByteTaken
<1>8. CASE MoreBytes(b)
  <2> DEFINE next == [load EXCEPT !.index = @ + WordBytes]
             l == [next EXCEPT !.at = @ + WordBytes]
  <2>1. mode = "poll"
        /\ IF next.index = MaxIndex THEN Discard(next, 1) ELSE Assemble(WithByte(l, b))
    BY <1>8 DEF MoreBytes
  <2>2. /\ load.index \in Nat /\ load.index < MaxIndex /\ load.at = address + load.index
        /\ load.at \in Nat /\ load.have = 0 /\ Len(sent) = load.index + WordBytes
        /\ Begun(load.word, load.index, 0) /\ \A p \in silences : ~Whole(p)
    BY <1>3, <1>4, <2>1 DEF Position, Partial
  <2>3. load.index + WordBytes \in 0..MaxIndex /\ (load.index + WordBytes) % WordBytes = 0
    BY <1>4, <2>2, NextWord
  <2>4. next \in Loads /\ next.index = load.index + WordBytes
    BY <1>4, <2>3
  <2>5. CASE next.index = MaxIndex
    <3>1. UNCHANGED mem /\ mode' = "drain" /\ UNCHANGED address
      BY <2>1, <2>5 DEF Discard, ToMenu, Downloading
    <3>2. Len(sent) = MaxIndex /\ Len(sent') >= MaxIndex
      BY <1>5, <2>2, <2>4, <2>5
    <3>3. \A n \in Int : WordSent(n)' <=> WordSent(n)
      <4> TAKE n \in Int
      <4>1. n + WordBytes \in Int /\ MaxIndex \in Nat
        BY MenuAssumption
      <4>2. n + WordBytes <= MaxIndex => n + WordBytes <= Len(sent) /\ n + WordBytes <= Len(sent')
        BY <1>5, <3>2, <4>1
      <4> QED
        BY <1>1, <4>2 DEF WordSent
    <3>4. AsSent'
      <4>1. Len(sent) <= Len(sent')
        BY <1>5
      <4> QED
        BY <1>1, <1>3, <1>4, <1>5, <3>1, <3>3, <4>1, FlashStays
    <3> QED
      BY <1>6, <3>1, <3>2, <3>4 DEF Position, Partial
  <2>6. CASE next.index # MaxIndex
    <3>1. load.at + WordBytes \in Nat
      BY <2>2, MenuAssumption
    <3>2. /\ l \in Loads /\ l.index = load.index + WordBytes /\ l.at = load.at + WordBytes
          /\ l.have = 0 /\ l.word = load.word
      BY <1>4, <2>2, <2>4, <3>1
    <3>3. l.index < MaxIndex /\ l.at = address + l.index /\ Len(sent) = l.index + l.have
      <4>1. PICK i \in Nat, k \in Nat : i = load.index /\ k = i + WordBytes
        BY <2>2, <2>3
      <4>2. l.index = k /\ k \in 0..MaxIndex /\ k # MaxIndex
        BY <2>3, <2>4, <2>6, <3>2, <4>1
      <4>3. l.index < MaxIndex
        BY <4>2, MenuAssumption
      <4>4. l.at = address + i + WordBytes
        BY <2>2, <3>2, <4>1
      <4>5. address + i + WordBytes = address + (i + WordBytes)
        BY <1>4, <4>1, MenuAssumption
      <4> QED
        BY <2>2, <3>2, <4>1, <4>2, <4>3, <4>4, <4>5
    <3>4. Begun(l.word, l.index, l.have)
      BY <2>2, <3>2 DEF Begun
    <3> HIDE DEF l
    <3>5. Assemble(WithByte(l, b)) /\ l.index % WordBytes = 0
      BY <2>1, <2>3, <2>6, <3>2
    <3> QED
      BY <1>1, <1>3, <2>2, <3>2, <3>3, <3>4, <3>5, ByteTaken
  <2> QED
    BY <2>5, <2>6
<1>9. CASE DiscardByte(b)
  <2>1. mode = "drain" /\ mode' = "drain" /\ UNCHANGED <<mem, address>>
    BY <1>9 DEF DiscardByte, Discard, ToMenu, Downloading
  <2>2. Len(sent) >= MaxIndex \/ \E p \in silences : Whole(p)
    BY <1>3, <2>1 DEF Position
  <2>3. MaxIndex \in Nat /\ \A p \in silences : p \in 0..Len(sent)
    BY <1>3, MenuAssumption DEF SentTypes
  <2>4. Len(sent') >= MaxIndex \/ \E p \in silences' : Whole(p)
    BY <1>1, <1>5, <2>2, <2>3
  <2>5. \A n \in Int : WordSent(n)' <=> WordSent(n)
    <3> TAKE n \in Int
    <3>1. PICK z \in Int : z = n + WordBytes
      BY MenuAssumption
    <3>2. z <= Len(sent) => z <= Len(sent')
      BY <1>5
    <3>3. z <= MaxIndex /\ (\A p \in silences : Whole(p) => z <= p) => z <= Len(sent)
      BY <1>5, <2>2, <2>3
    <3> QED
      BY <1>1, <3>1, <3>2, <3>3 DEF WordSent
  <2>6. AsSent'
    <3>1. Len(sent) <= Len(sent')
      BY <1>5
    <3> QED
      BY <1>1, <1>3, <1>4, <1>5, <2>1, <2>5, <3>1, FlashStays
  <2> QED
    BY <1>6, <2>1, <2>4, <2>6 DEF Position, Partial
<1> QED
  BY <1>1, <1>7, <1>8, <1>9

\* A silence after a whole word ends the download, any other changes nothing.
LEMMA PauseKeepsDownload ==
    ASSUME DownloadInv, Pause, mode' \in Downloading
    PROVE  SentTypes' /\ Position' /\ Partial' /\ AsSent'
<1>1. UNCHANGED <<origin, sent>> /\ silences' = silences \cup {Len(sent)} /\ PollsRunOut
  BY DEF Pause, Streamed, Downloading
<1>2. mode \in {"word", "poll"} /\ UNCHANGED <<mem, address>>
  BY <1>1 DEF PollsRunOut, Discard, ToMenu, Downloading
<1>3. TypeInv /\ SentTypes /\ Position /\ Partial /\ AsSent
  BY <1>2 DEF DownloadInv, Downloading
<1>4. /\ load.index \in Nat /\ load.have \in 0..(WordBytes - 1) /\ load.index % WordBytes = 0
      /\ WordBytes \in Nat \ {0} /\ address \in Nat /\ load.index < MaxIndex
  BY <1>2, <1>3, MenuAssumption DEF TypeInv, MenuTypeOK
<1>5. sent \in Seq(Bytes) /\ Len(sent) \in Nat /\ SentTypes'
  <2>1. sent \in Seq(Bytes) /\ Len(sent) \in Nat
    BY <1>3, LenProperties DEF SentTypes
  <2> QED
    <3>1. silences \subseteq 0..Len(sent) /\ Len(sent) \in 0..Len(sent)
      BY <1>3, <2>1 DEF SentTypes
    <3>2. silences' \subseteq 0..Len(sent)
      BY <1>1, <3>1
    <3> QED
      BY <1>1, <2>1, <3>2 DEF SentTypes
<1>6. \A n \in Int : WordSent(n)' <=> WordSent(n)
  BY <1>1 DEF WordSent
<1>7. AsSent'
  BY <1>1, <1>2, <1>3, <1>4, <1>5, <1>6, FlashStays
<1>8. CASE mode = "word"
  <2>1. mode' = "word" /\ UNCHANGED load
    BY <1>1, <1>8 DEF PollsRunOut
  <2>2. Len(sent) = load.index + load.have /\ (load.have = 0 => load.index = 0)
        /\ \A p \in silences : ~Whole(p)
    BY <1>3, <1>8 DEF Position
  <2>3. ~Whole(Len(sent))
    <3>1. (load.index + load.have) % WordBytes = 0 <=> load.have = 0
      BY <1>4, WithinAWord
    <3>2. load.have = 0 => Len(sent) = 0
      BY <2>2
    <3> QED
      BY <2>2, <3>1, <3>2 DEF Whole
  <2>4. Position'
    BY <1>1, <2>1, <2>2, <2>3 DEF Position
  <2>5. Partial'
    BY <1>1, <1>3, <1>8, <2>1 DEF Partial, Begun
  <2> QED
    BY <1>5, <1>7, <2>4, <2>5
<1>9. CASE mode = "poll"
  <2>1. mode' = "drain"
    BY <1>1, <1>9 DEF PollsRunOut, Discard, ToMenu, Downloading
  <2>2. Len(sent) = load.index + WordBytes
    BY <1>3, <1>9 DEF Position
  <2>3. Whole(Len(sent))
    <3>1. (load.index + WordBytes) % WordBytes = 0
      BY <1>4, NextWord
    <3> QED
      BY <1>4, <2>2, <3>1 DEF Whole
  <2> QED
    BY <1>1, <1>5, <1>7, <2>1, <2>3 DEF Position, Partial
<1> QED
  BY <1>2, <1>8, <1>9

\* A download begins with nothing sent, and no number selects one anywhere else.
LEMMA FeedKeepsDownload ==
    ASSUME DownloadInv, NEW tok \in CommandTokens, MenuFeed(tok)
    PROVE  SentTypes' /\ (mode' \in Downloading => Position' /\ Partial' /\ AsSent')
<1>1. CASE Feed(tok) /\ UNCHANGED <<fn, address, download>>
  <2>1. mode' \in {"menu", "console", "run", "dmi", "i2c"}
    BY <1>1, FeedLeavesDownload DEF DownloadInv
  <2> QED
    BY <1>1, <2>1 DEF DownloadInv, SentTypes, Downloading, download
<1>2. CASE ~(Feed(tok) /\ UNCHANGED <<fn, address, download>>)
  <2>1. PICK v :
        /\ origin' = mem' /\ sent' = <<>> /\ silences' = {}
        /\ \/ MenuFunction(tok) \/ MenuBridge(tok) \/ MenuAbsorb(tok)
           \/ v \in Values(tok) /\ (MenuAddress(tok, v) \/ MenuOperand(tok, v))
    BY <1>2 DEF MenuFeed
  <2>2. <<>> \in Seq(Bytes) /\ Len(<<>>) = 0
    BY EmptySeq
  <2>3. SentTypes'
    BY <2>1, <2>2 DEF SentTypes
  <2>4. ASSUME mode' \in Downloading
        PROVE  Position' /\ Partial' /\ AsSent'
    <3>1. MenuAddress(tok, v) /\ mode' = "word" /\ load' = From(v) /\ address' = v
          /\ UNCHANGED mem /\ v \in Values(tok)
      <4>1. MenuAddress(tok, v) /\ mode' # "menu" /\ v \in Values(tok)
        BY <2>1, <2>4 DEF MenuFunction, MenuBridge, MenuAbsorb, MenuOperand, ToMenu, Downloading
      <4>2. fn \in Functions
        BY <4>1 DEF MenuAddress, DownloadInv, TypeInv, MenuTypeOK
      <4>3. fn \notin {"2", "6", "9"}
        BY <4>1 DEF MenuAddress, ToMenu
      <4>4. /\ mode' = CASE fn \in {"1", "4", "7", "8"} -> "operand"
                          [] fn = "3" -> "run"
                          [] fn = "5" -> "word"
            /\ address' = v /\ load' = From(v) /\ UNCHANGED mem
        BY <4>1, <4>3 DEF MenuAddress
      <4>5. mode' \in {"operand", "run", "word"}
        BY <4>2, <4>3, <4>4 DEF Functions
      <4> QED
        BY <2>4, <4>1, <4>4, <4>5 DEF Downloading
    <3>2. /\ load'.index = 0 /\ load'.have = 0 /\ load'.word = 0 /\ address' \in Nat
      BY <3>1, NumberValue DEF From
    <3>3. 0 < 2^(8 * WordBytes)
      <4>1. 8 * WordBytes \in Nat
        BY MenuAssumption
      <4>2. PICK top \in Nat \ {0} : top = 2^(8 * WordBytes)
        BY <4>1, TwoToThe, PowerPositive
      <4> QED
        BY <4>2
    <3>4. Position' /\ Partial'
      BY <2>1, <2>2, <3>1, <3>2, <3>3 DEF Position, Partial, Begun
    <3>5. ASSUME NEW n \in Int PROVE ~WordSent(n)'
      <4>1. n >= 0 => ~(n + WordBytes <= 0)
        BY MenuAssumption
      <4> QED
        BY <2>1, <2>2, <4>1 DEF WordSent
    <3>6. AsSent'
      <4> SUFFICES ASSUME NEW f \in Flash, NEW n \in Int, NEW e \in Int
                   PROVE  SentAt(f, n, e)'
        BY <3>2, AsSentCells
      <4>1. ~WordSent(n)' /\ ~WordSent(e)'
        BY <3>5
      <4> QED
        BY <2>1, <4>1 DEF SentAt
    <3> QED
      BY <3>4, <3>6
  <2> QED
    BY <2>3, <2>4
<1> QED
  BY <1>1, <1>2

LEMMA NextDownload == DownloadInv /\ [MenuNext]_menuVars => DownloadInv'
<1> SUFFICES ASSUME DownloadInv, [MenuNext]_menuVars
             PROVE  SentTypes' /\ (mode' \in Downloading => Position' /\ Partial' /\ AsSent')
  BY NextTypes DEF DownloadInv
<1>1. ASSUME NEW b \in Bytes, SendByte(b)
      PROVE  SentTypes' /\ (mode' \in Downloading => Position' /\ Partial' /\ AsSent')
  <2>1. mode' \in Downloading \cup {"menu"}
    BY <1>1 DEF SendByte, ReadByte, MoreBytes, DiscardByte, Assemble, Discard, ToMenu, Downloading
  <2>2. mode' = "menu" => SentTypes' /\ mode' \notin Downloading
    BY <1>1, EmptySeq DEF SendByte, Streamed, SentTypes, Downloading
  <2> QED
    BY <1>1, <2>1, <2>2, SendKeepsDownload
<1>2. CASE Pause
  <2>1. mode' \in Downloading \cup {"menu"}
    BY <1>2 DEF Pause, PollsRunOut, Discard, ToMenu, Downloading
  <2>2. mode' = "menu" => SentTypes' /\ mode' \notin Downloading
    BY <1>2, EmptySeq DEF Pause, Streamed, SentTypes, Downloading
  <2> QED
    BY <1>2, <2>1, <2>2, PauseKeepsDownload
<1>3. CASE Return
  <2>1. mode' \in {"menu", "console"} /\ UNCHANGED <<sent, silences>>
    BY <1>3 DEF Return, ProgramReturns, ToMenu
  <2> QED
    BY <2>1 DEF DownloadInv, SentTypes, Downloading
<1>4. CASE UNCHANGED menuVars
  BY <1>4 DEF DownloadInv, SentTypes, Position, Partial, Begun, AsSent, WordSent, ErasedAfter, IsWord,
              menuVars, commandVars, bootVars, history, download
<1>5. \A k \in MenuKeys : <<"key", k>> \in CommandTokens
  BY DEF CommandTokens
<1>6. /\ \A v \in Numbers : <<"num", v>> \in CommandTokens
      /\ \A d \in 1..DIGITS : <<"part", d>> \in CommandTokens
  BY DEF CommandTokens
<1> QED
  BY <1>1, <1>2, <1>3, <1>4, <1>5, <1>6, FeedKeepsDownload DEF MenuNext

LEMMA InitDownload == MenuInit => DownloadInv
<1>1. <<>> \in Seq(Bytes)
  BY EmptySeq
<1> QED
  BY <1>1, InitTypes DEF MenuInit, CommandsInit, BootInit, DownloadInv, SentTypes, Downloading

-------------------------------------------------------------------------------
\* Whatever is sent to the menu, to the prompts of its functions, to a download
\* and to the console, every variable keeps its type, and a download its place.
THEOREM MenuTypeCorrect == MenuSpec => []MenuTypeOK
<1>1. TypeInv => MenuTypeOK
  BY DEF TypeInv
<1> QED
  BY <1>1, InitTypes, NextTypes, PTL DEF MenuSpec

\* At every moment of every session, for any flash, any numbers and any address
\* of the flash controller, the flash is what the command given last and the
\* numbers it was given so far mean.
THEOREM CommandsStoreWhatTheyMean == MenuSpec => []StoresWhatIsMeant
<1>1. StoreInv => StoresWhatIsMeant
  BY DEF StoreInv
<1> QED
  BY <1>1, InitStore, NextStore, PTL DEF MenuSpec

\* Whatever bytes are sent and whenever the sender pauses, for any size of a
\* word, any limit and any address: the flash holds the words that were sent in
\* time, in their bytes and in their places, and what it held before elsewhere.
THEOREM DownloadStoresWhatWasSent == MenuSpec => []DownloadMeans
<1>1. DownloadInv => DownloadMeans
  BY DEF DownloadInv, AsSent, DownloadMeans
<1> QED
  BY <1>1, InitDownload, NextDownload, PTL DEF MenuSpec

===============================================================================
