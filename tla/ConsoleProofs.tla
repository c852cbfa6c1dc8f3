---------------------------- MODULE ConsoleProofs ----------------------------
(***************************************************************************)
(* The way of a command to the console: in time (Pacing) and as it was      *)
(* meant (HexCodec).                                                        *)
(*                                                                          *)
(* In time.  The pauses are long enough whatever the board's UART holds, a  *)
(* single character included, and however many commands follow.  The        *)
(* argument is a budget: what the board has still to print, and what is     *)
(* still to reach it, is bounded by what is left of the pause, up to a debt *)
(* that the next pause pays.                                                *)
(*                                                                          *)
(* As meant.  getHex reads what the uploaders write, for words of any size, *)
(* whatever they hold, however many there are and whatever stands before    *)
(* the command.  The argument is about text: reading a text leads from one  *)
(* state of getHex to another, and reading one text after another is        *)
(* reading both.                                                            *)
(***************************************************************************)
EXTENDS Pacing, HexCodec, SequenceTheorems, FiniteSetTheorems, FunctionTheorems,
        WellFoundedInduction, TLAPS

-------------------------------------------------------------------------------
(* The pauses. *)

Chars == {"newline", "a", "letter", "digit", "end"}

PacingTypeOK ==
    /\ uploader \in {"legacy", "w2"}
    /\ sent \in Nat
    /\ timer \in Nat
    /\ wire \in Seq(Chars)
    /\ uart \in Seq(Chars)
    /\ printing \in Nat
    /\ mode \in {"menu", "console"}

Quiet == wire = <<>> /\ uart = <<>>

\* Nothing has been sent: the board may have the banner and the menu to print.
Asleep ==
    /\ Quiet
    /\ ~acked /\ ~acking
    /\ printing <= 387

\* The newline was sent: it is taken before the pause is over, and of the menu
\* that it costs at most 249 characters outlast the pause.
Waking ==
    /\ ~acked /\ ~acking
    /\ \/ wire = <<"newline">> /\ uart = <<>> /\ printing <= 387 /\ timer >= 480
       \/ wire = <<>> /\ uart = <<"newline">> /\ printing + 93 <= timer
       \/ Quiet /\ printing <= timer + 249

\* The a was sent: the board is done with the menu, takes it and greets before
\* the pause is over.
Starting ==
    /\ ~acked /\ ~acking
    /\ \/ wire = <<"a">> /\ uart = <<>> /\ printing <= 249 /\ timer >= 480
       \/ wire = <<>> /\ uart = <<"a">> /\ printing + 8 <= timer
       \/ Quiet /\ mode = "console" /\ printing <= timer

\* A command was sent: its characters are taken as they come, only the last is
\* answered, and the new uploader's second outlasts all of it.
Setting ==
    /\ mode = "console"
    /\ Len(uart) <= 1
    /\ uart # <<>> => printing = 0
    /\ \A i \in 1..Len(wire) : wire[i] = "end" => i = Len(wire)
    /\ uart # <<>> /\ Head(uart) = "end" => wire = <<>>
    /\ printing > 0 => Quiet
    /\ acking => printing = 1
    /\ acked => Quiet /\ printing = 0
    /\ uploader = "w2" => 2 * Len(wire) + Len(uart) + printing <= timer

\* The inductive invariant: NothingOverrun depends on how much of the pause is
\* left, which it does not mention.
PaceInv ==
    /\ PacingTypeOK
    /\ NothingOverrun
    /\ sent = 0 => Asleep
    /\ sent = 1 => Waking
    /\ sent = 2 => Starting
    /\ sent >= 3 => Setting

-------------------------------------------------------------------------------
(* What is sent, and how long a pause is. *)

LEMMA PauseLength ==
    ASSUME NEW n \in Nat, uploader \in {"legacy", "w2"}
    PROVE  /\ Pause(n) \in Nat
           /\ uploader = "w2" => Pause(n) = 960
           /\ n <= 2 => Pause(n) >= 480
<1>1. Ms(1000) = 960 /\ Ms(500) = 480
  BY DEF Ms
<1> QED
  BY <1>1 DEF Pause

LEMMA CommandText ==
    ASSUME NEW n \in Nat, n >= 3
    PROVE  /\ Text(n) \in Seq(Chars)
           /\ Len(Text(n)) = 15
           /\ \A i \in 1..15 : Text(n)[i] = "end" => i = 15
<1> DEFINE char(i) == CASE i = 1 -> "letter" [] i = 15 -> "end" [] OTHER -> "digit"
<1>1. Text(n) = [i \in 1..15 |-> char(i)]
  BY DEF Text
<1>2. \A i \in 1..15 : char(i) \in Chars /\ (char(i) = "end" => i = 15)
  BY DEF Chars
<1> HIDE DEF char
<1>3. [i \in 1..15 |-> char(i)] \in Seq(Chars) /\ Len([i \in 1..15 |-> char(i)]) = 15
  BY <1>2, IsASeq, LenProperties
<1> QED
  BY <1>1, <1>2, <1>3

-------------------------------------------------------------------------------
(* The invariant is inductive. *)

LEMMA InitPace == PacingInit => PaceInv
<1> SUFFICES ASSUME PacingInit PROVE PaceInv
  OBVIOUS
<1>1. printing \in 0..387 /\ sent = 0
  BY DEF PacingInit, Banner, Menu
<1>2. wire \in Seq(Chars) /\ uart \in Seq(Chars)
  BY EmptySeq DEF PacingInit
<1>3. PacingTypeOK
  BY <1>1, <1>2 DEF PacingInit, PacingTypeOK
<1>4. Asleep
  BY <1>1 DEF PacingInit, Asleep, Quiet
<1> QED
  BY <1>1, <1>3, <1>4 DEF PacingInit, PaceInv, NothingOverrun

LEMMA SendPace == PaceInv /\ Send => PaceInv'
<1> SUFFICES ASSUME PaceInv, Send PROVE PaceInv'
  OBVIOUS
<1> USE DEF PaceInv, PacingTypeOK, NothingOverrun
<1>1. /\ wire' = wire \o Text(sent + 1)
      /\ sent' = sent + 1
      /\ timer' = Pause(sent + 1)
      /\ ~acked' /\ (acking' <=> acking)
      /\ UNCHANGED <<uploader, uart, lost, printing, mode>>
  BY DEF Send, boardVars
<1>2. /\ timer' \in Nat
      /\ uploader = "w2" => timer' = 960
      /\ sent < 2 => timer' >= 480
  <2>1. timer' = Pause(sent + 1)
    BY <1>1
  <2>2. sent + 1 \in Nat /\ (sent < 2 => sent + 1 <= 2) /\ uploader \in {"legacy", "w2"}
    OBVIOUS
  <2>3. /\ Pause(sent + 1) \in Nat
        /\ uploader = "w2" => Pause(sent + 1) = 960
        /\ sent + 1 <= 2 => Pause(sent + 1) >= 480
    <3>1. PICK n \in Nat : n = sent + 1
      BY <2>2
    <3>2. /\ Pause(n) \in Nat
          /\ uploader = "w2" => Pause(n) = 960
          /\ n <= 2 => Pause(n) >= 480
      BY <2>2, PauseLength
    <3> QED
      BY <3>1, <3>2
  <2> QED
    BY <2>1, <2>2, <2>3
<1>3. timer = 0 \/ acked
  BY DEF Send
<1>4. CASE sent = 0
  <2>1. wire' = <<"newline">>
    BY <1>1, <1>4 DEF Text, Asleep, Quiet
  <2>2. wire' \in Seq(Chars)
    BY <2>1 DEF Chars
  <2> QED
    BY <1>1, <1>2, <1>4, <2>1, <2>2 DEF Asleep, Quiet, Waking
<1>5. CASE sent = 1
  <2>1. timer = 0 /\ Quiet /\ printing <= 249
    BY <1>3, <1>5 DEF Waking
  <2>2. wire' = <<"a">>
    BY <1>1, <1>5, <2>1 DEF Text, Quiet
  <2>3. wire' \in Seq(Chars)
    BY <2>2 DEF Chars
  <2> QED
    BY <1>1, <1>2, <1>5, <2>1, <2>2, <2>3 DEF Waking, Quiet, Starting
<1>6. CASE sent >= 2
  <2>1. Quiet /\ printing = 0 /\ mode = "console" /\ ~acking
    <3>1. CASE sent = 2
      BY <1>3, <3>1 DEF Starting
    <3>2. CASE sent >= 3 /\ acked
      BY <3>2 DEF Setting
    <3>3. CASE sent >= 3 /\ ~acked
      <4>1. uploader = "w2" /\ timer = 0
        BY <1>3, <3>3 DEF Send
      <4>2. Len(wire) = 0 /\ Len(uart) = 0 /\ printing = 0
        BY <3>3, <4>1, LenProperties DEF Setting
      <4> QED
        BY <3>3, <4>2, EmptySeq DEF Setting, Quiet
    <3> QED
      BY <1>6, <3>1, <3>2, <3>3
  <2>2. /\ Text(sent + 1) \in Seq(Chars)
        /\ Len(Text(sent + 1)) = 15
        /\ \A i \in 1..15 : Text(sent + 1)[i] = "end" => i = 15
    BY <1>6, CommandText
  <2>3. wire' = Text(sent + 1)
    BY <1>1, <2>1, <2>2, ConcatEmptySeq DEF Quiet
  <2>4. Len(uart) = 0 /\ Len(wire') = 15 /\ uart' = <<>>
    BY <1>1, <2>1, <2>2, <2>3, EmptySeq DEF Quiet
  <2>5. \A i \in 1..Len(wire') : wire'[i] = "end" => i = Len(wire')
    BY <2>2, <2>3, <2>4
  <2>6. ~acking' /\ ~acked' /\ printing' = 0 /\ mode' = "console"
    BY <1>1, <2>1
  <2>7. uploader' = "w2" => 2 * Len(wire') + Len(uart') + printing' <= timer'
    BY <1>1, <1>2, <2>1, <2>4
  <2>8. Setting'
    BY <1>1, <2>4, <2>5, <2>6, <2>7 DEF Setting
  <2> QED
    BY <1>1, <1>2, <1>6, <2>2, <2>3, <2>6, <2>8
<1> QED
  BY <1>4, <1>5, <1>6

LEMMA Printing ==
    ASSUME NEW n, Prints(n, FALSE)
    PROVE  printing' = n /\ ~acking'
  BY DEF Prints

LEMMA PrintingAck ==
    ASSUME Prints(1, TRUE)
    PROVE  printing' = 1 /\ acking'
  BY DEF Prints

LEMMA TakePace == PaceInv /\ Take => PaceInv'
<1> SUFFICES ASSUME PaceInv, Take PROVE PaceInv'
  OBVIOUS
<1> USE DEF PaceInv, PacingTypeOK, NothingOverrun
<1>1. /\ printing = 0
      /\ uart # <<>>
      /\ uart' = Tail(uart)
      /\ UNCHANGED <<uploader, sent, timer, wire, lost>>
      /\ acked' <=> acked
  BY DEF Take, Idle, hostVars
<1>2. Head(uart) \in Chars /\ uart' \in Seq(Chars) /\ Len(uart') = Len(uart) - 1
  BY <1>1, HeadTailProperties
<1>3. TakeAtMenu(Head(uart)) \/ TakeInConsole(Head(uart))
  BY DEF Take, TakeAstray
<1>4. sent # 0
  BY <1>1 DEF Asleep, Quiet
<1>5. CASE sent = 1
  <2>1. uart = <<"newline">> /\ wire = <<>> /\ timer >= 93 /\ ~acked /\ ~acking
    BY <1>1, <1>5 DEF Waking, Quiet
  <2>2. uart' = <<>> /\ Head(uart) = "newline"
    BY <1>1, <2>1
  <2>3. mode' \in {"menu", "console"} /\ (Prints(0, FALSE) \/ Prints(342, FALSE))
    BY <1>3, <2>2 DEF TakeAtMenu, TakeInConsole, Menu
  <2>4. printing' \in {0, 342} /\ ~acking' /\ ~acked'
    BY <1>1, <2>1, <2>3, Printing
  <2>5. Quiet'
    BY <1>1, <2>1, <2>2 DEF Quiet
  <2>6. printing' \in Nat /\ printing' <= timer' + 249
    BY <1>1, <2>1, <2>4
  <2>7. Waking'
    BY <2>4, <2>5, <2>6 DEF Waking
  <2> QED
    BY <1>1, <1>2, <1>5, <2>3, <2>6, <2>7
<1>6. CASE sent = 2
  <2>1. uart = <<"a">> /\ wire = <<>> /\ timer >= 8 /\ ~acked /\ ~acking
    BY <1>1, <1>6 DEF Starting, Quiet
  <2>2. uart' = <<>> /\ Head(uart) = "a"
    BY <1>1, <2>1
  <2>3. mode' = "console" /\ (Prints(0, FALSE) \/ Prints(8, FALSE))
    BY <1>3, <2>2 DEF TakeAtMenu, TakeInConsole, Greeting
  <2>4. printing' \in {0, 8} /\ ~acking' /\ ~acked'
    BY <1>1, <2>1, <2>3, Printing
  <2>5. Quiet'
    BY <1>1, <2>1, <2>2 DEF Quiet
  <2>6. printing' \in Nat /\ printing' <= timer'
    BY <1>1, <2>1, <2>4
  <2>7. Starting'
    BY <2>3, <2>4, <2>5, <2>6 DEF Starting
  <2> QED
    BY <1>1, <1>2, <1>6, <2>3, <2>6, <2>7
<1>7. CASE sent >= 3
  <2>1. Setting
    BY <1>7
  <2>2. Len(uart) = 1 /\ uart' = <<>>
    BY <1>1, <1>2, <2>1, EmptySeq, LenProperties DEF Setting
  <2>3. mode' = "console" /\ ((Head(uart) = "end" /\ Prints(1, TRUE)) \/ Prints(0, FALSE))
    BY <1>3, <2>1 DEF TakeAtMenu, TakeInConsole, Setting
  <2>4. CASE Head(uart) = "end" /\ Prints(1, TRUE)
    <3>1. printing' = 1 /\ acking'
      BY <2>4, PrintingAck
    <3>2. wire = <<>> /\ Len(wire) = 0 /\ ~acked
      BY <1>1, <2>1, <2>4, EmptySeq DEF Setting, Quiet
    <3>3. uploader = "w2" => 1 <= timer
      BY <1>1, <2>1, <2>2, <3>2 DEF Setting
    <3>4. Quiet' /\ Len(uart') = 0
      BY <1>1, <2>2, <3>2, EmptySeq DEF Quiet
    <3>5. Setting'
      BY <1>1, <2>2, <2>3, <3>1, <3>2, <3>3, <3>4 DEF Setting
    <3> QED
      BY <1>1, <1>2, <1>7, <2>3, <3>1, <3>5
  <2>5. CASE Prints(0, FALSE)
    <3>1. printing' = 0 /\ ~acking'
      BY <2>5, Printing
    <3>2. Len(uart') = 0 /\ ~acked
      BY <1>1, <2>1, <2>2, EmptySeq DEF Setting, Quiet
    <3>3. uploader = "w2" => 2 * Len(wire) <= timer
      BY <1>1, <2>1, <2>2 DEF Setting
    <3>4. Setting'
      BY <1>1, <2>1, <2>2, <2>3, <3>1, <3>2, <3>3 DEF Setting
    <3> QED
      BY <1>1, <1>2, <1>7, <2>3, <3>1, <3>4
  <2> QED
    BY <2>3, <2>4, <2>5
<1> QED
  BY <1>4, <1>5, <1>6, <1>7

LEMMA TickPace == PaceInv /\ Tick => PaceInv'
<1> SUFFICES ASSUME PaceInv, Tick PROVE PaceInv'
  OBVIOUS
<1> USE DEF PaceInv, PacingTypeOK, NothingOverrun
<1>1. /\ printing > 0 \/ uart = <<>>
      /\ printing' = IF printing = 0 THEN 0 ELSE printing - 1
      /\ UNCHANGED <<uploader, sent, mode>>
  BY DEF Tick, Idle
<1>2. /\ acking => timer' = IF uploader = "legacy" THEN Ms(50) ELSE timer
      /\ ~acking => timer' = (IF timer = 0 THEN 0 ELSE timer - 1)
      /\ ~acking => (acked' <=> acked)
  BY DEF Tick
<1>3. acking' => acking /\ printing' > 0
  BY Zenon DEF Tick
<1>4. Ms(50) = 48
  BY DEF Ms
<1>5. printing' \in Nat /\ timer' \in Nat
  BY <1>1, <1>2, <1>4
<1>6. wire # <<>> => Head(wire) \in Chars /\ Tail(wire) \in Seq(Chars)
                     /\ Len(Tail(wire)) = Len(wire) - 1
  BY HeadTailProperties
<1>7. wire # <<>> => uart = <<>>
  <2>1. CASE sent <= 2
    BY <2>1 DEF Asleep, Waking, Starting, Quiet
  <2>2. CASE sent >= 3
    BY <1>1, <2>2 DEF Setting, Quiet
  <2> QED
    BY <2>1, <2>2
<1>8. \/ wire = <<>> /\ UNCHANGED <<wire, uart, lost>>
      \/ wire # <<>> /\ wire' = Tail(wire) /\ uart' = <<Head(wire)>> /\ UNCHANGED lost
  <2>1. uart = <<>> => Len(uart) < Depth /\ \A c : Append(uart, c) = <<c>>
    BY PacingAssumption
  <2> QED
    BY <1>7, <2>1 DEF Tick
<1>9. wire' \in Seq(Chars) /\ uart' \in Seq(Chars)
  <2>1. \A c \in Chars : <<c>> \in Seq(Chars)
    OBVIOUS
  <2> QED
    BY <1>6, <1>8, <2>1
<1>10. CASE sent = 0
  BY <1>1, <1>2, <1>3, <1>5, <1>8, <1>9, <1>10 DEF Asleep, Quiet
<1>11. CASE sent = 1
  <2>1. Waking /\ ~acking' /\ ~acked'
    BY <1>2, <1>3, <1>11 DEF Waking
  <2>2. timer' = IF timer = 0 THEN 0 ELSE timer - 1
    BY <1>2, <2>1 DEF Waking
  <2>3. ASSUME wire = <<"newline">>, uart = <<>>, printing <= 387, timer >= 480
        PROVE  Waking'
    <3>1. wire' = <<>> /\ uart' = <<"newline">>
      BY <1>8, <2>3
    <3>2. printing' + 93 <= timer'
      BY <1>1, <2>2, <2>3
    <3> QED
      BY <2>1, <3>1, <3>2 DEF Waking
  <2>4. ASSUME wire = <<>>, uart = <<"newline">>, printing + 93 <= timer
        PROVE  Waking'
    <3>1. UNCHANGED <<wire, uart>>
      BY <1>8, <2>4
    <3>2. printing > 0
      BY <1>1, <2>4
    <3>3. printing' + 93 <= timer'
      BY <1>1, <2>2, <2>4, <3>2
    <3> QED
      BY <2>1, <2>4, <3>1, <3>3 DEF Waking
  <2>5. ASSUME Quiet, printing <= timer + 249
        PROVE  Waking'
    <3>1. Quiet'
      BY <1>8, <2>5 DEF Quiet
    <3>2. printing' <= timer' + 249
      BY <1>1, <2>2, <2>5
    <3> QED
      BY <2>1, <3>1, <3>2 DEF Waking
  <2>6. Waking'
    BY <2>1, <2>3, <2>4, <2>5 DEF Waking
  <2> QED
    BY <1>1, <1>5, <1>8, <1>9, <1>11, <2>6
<1>12. CASE sent = 2
  <2>1. Starting /\ ~acking' /\ ~acked'
    BY <1>2, <1>3, <1>12 DEF Starting
  <2>2. timer' = IF timer = 0 THEN 0 ELSE timer - 1
    BY <1>2, <2>1 DEF Starting
  <2>3. ASSUME wire = <<"a">>, uart = <<>>, printing <= 249, timer >= 480
        PROVE  Starting'
    <3>1. wire' = <<>> /\ uart' = <<"a">>
      BY <1>8, <2>3
    <3>2. printing' + 8 <= timer'
      BY <1>1, <2>2, <2>3
    <3> QED
      BY <2>1, <3>1, <3>2 DEF Starting
  <2>4. ASSUME wire = <<>>, uart = <<"a">>, printing + 8 <= timer
        PROVE  Starting'
    <3>1. UNCHANGED <<wire, uart>>
      BY <1>8, <2>4
    <3>2. printing > 0
      BY <1>1, <2>4
    <3>3. printing' + 8 <= timer'
      BY <1>1, <2>2, <2>4, <3>2
    <3> QED
      BY <2>1, <2>4, <3>1, <3>3 DEF Starting
  <2>5. ASSUME Quiet, mode = "console", printing <= timer
        PROVE  Starting'
    <3>1. Quiet' /\ mode' = "console"
      BY <1>1, <1>8, <2>5 DEF Quiet
    <3>2. printing' <= timer'
      BY <1>1, <2>2, <2>5
    <3> QED
      BY <2>1, <3>1, <3>2 DEF Starting
  <2>6. Starting'
    BY <2>1, <2>3, <2>4, <2>5 DEF Starting
  <2> QED
    BY <1>1, <1>5, <1>8, <1>9, <1>12, <2>6
<1>13. CASE sent >= 3
  <2>1. Setting
    BY <1>13
  <2>2. CASE wire = <<>>
    <3>1. UNCHANGED <<wire, uart>>
      BY <1>8, <2>2
    <3> QED
      BY <1>1, <1>2, <1>3, <1>5, <1>8, <1>9, <1>13, <2>1, <2>2, <3>1 DEF Setting, Quiet
  <2>3. CASE wire # <<>>
    <3>1. printing = 0 /\ ~acking /\ ~acked
      BY <2>1, <2>3 DEF Setting, Quiet
    <3>2. wire' = Tail(wire) /\ uart' = <<Head(wire)>>
      BY <1>8, <2>3
    <3>3. \A i \in 1..Len(wire') : wire'[i] = wire[i + 1]
      BY <1>6, <2>3, <3>2, HeadTailProperties
    <3>4. \A i \in 1..Len(wire') : wire'[i] = "end" => i = Len(wire')
      BY <1>6, <2>1, <2>3, <3>2, <3>3 DEF Setting
    <3>5. Head(uart') = "end" => wire' = <<>>
      BY <1>6, <2>1, <2>3, <3>2, EmptySeq DEF Setting
    <3>6. Setting'
      BY <1>1, <1>2, <1>3, <1>6, <2>1, <2>3, <3>1, <3>2, <3>4, <3>5 DEF Setting, Quiet
    <3> QED
      BY <1>1, <1>5, <1>8, <1>9, <1>13, <3>6
  <2> QED
    BY <2>2, <2>3
<1> QED
  BY <1>10, <1>11, <1>12, <1>13

LEMMA PaceInductive == PacingSpec => []PaceInv
<1>1. PaceInv /\ UNCHANGED pacingVars => PaceInv'
  BY DEF PaceInv, PacingTypeOK, NothingOverrun, Asleep, Waking, Starting, Setting, Quiet,
         pacingVars, hostVars, boardVars
<1>2. PaceInv /\ [PacingNext]_pacingVars => PaceInv'
  BY <1>1, SendPace, TakePace, TickPace DEF PacingNext
<1> QED
  BY <1>2, InitPace, PTL DEF PacingSpec

-------------------------------------------------------------------------------
\* The pauses keep every character from being lost, for a UART of any depth and
\* a setup of any length.
THEOREM PausesSuffice == PacingSpec => []NothingOverrun
<1>1. PaceInv => NothingOverrun
  BY DEF PaceInv
<1> QED
  BY <1>1, PaceInductive, PTL

\* No command of the setup is ever taken for keys of the menu.
THEOREM CommandsFindConsole == PacingSpec => []NeverAstray
<1>1. PaceInv => NeverAstray
  <2> SUFFICES ASSUME PaceInv PROVE NeverAstray
    OBVIOUS
  <2>1. mode # "astray"
    BY DEF PaceInv, PacingTypeOK
  <2>2. ASSUME mode = "menu", uart # <<>>
        PROVE  Head(uart) \in {"newline", "a"}
    BY <2>2 DEF PaceInv, PacingTypeOK, Asleep, Waking, Starting, Setting, Quiet
  <2> QED
    BY <2>1, <2>2 DEF NeverAstray
<1> QED
  BY <1>1, PaceInductive, PTL

-------------------------------------------------------------------------------
(* Numbers.  What holds of 0 and of the successor of each number it holds of *)
(* holds of all: else there is a least number it does not hold of.  A        *)
(* recursive definition is reasoned about so, with a set for the induction.  *)

Below == {ss \in Nat \X Nat : ss[1] < ss[2]}

LEMMA LeastNumber ==
    ASSUME NEW T \in SUBSET Nat, T # {}
    PROVE  \E x \in T : \A y \in T : x <= y
<1>1. IsWellFoundedOn(Below, Nat)
  BY NatLessThanWellFounded DEF OpToRel, Below
<1>2. PICK x \in T : \A y \in T : ~(<<y, x>> \in Below)
  BY <1>1, WFMin
<1>3. ASSUME NEW y \in T, y < x PROVE FALSE
  <2>1. <<y, x>> \in Below
    BY <1>3 DEF Below
  <2> QED
    BY <1>2, <2>1
<1> QED
  BY <1>2, <1>3

LEMMA AllNumbers ==
    ASSUME NEW S, 0 \in S, \A n \in Nat : n \in S => n + 1 \in S
    PROVE  Nat \subseteq S
<1>1. SUFFICES ASSUME Nat \ S # {} PROVE FALSE
  OBVIOUS
<1>2. PICK x \in Nat \ S : \A y \in Nat \ S : x <= y
  BY <1>1, LeastNumber
<1>3. x - 1 \in Nat /\ (x - 1) + 1 = x
  BY <1>2
<1>4. x - 1 \in S
  BY <1>2, <1>3
<1> QED
  BY <1>2, <1>3, <1>4

-------------------------------------------------------------------------------
(* Powers of two.  One counts the subsets of an interval, and the subsets of *)
(* two intervals side by side are pairs of subsets.                          *)

LEMMA TwoToThe ==
    ASSUME NEW k \in Nat
    PROVE  2^k \in Nat
<1>1. IsFiniteSet(1..k) /\ Cardinality(1..k) = k
  BY FS_Interval
<1>2. Cardinality(SUBSET (1..k)) = 2^k /\ IsFiniteSet(SUBSET (1..k))
  BY <1>1, FS_SUBSET
<1> QED
  BY <1>2, FS_CardinalityType

LEMMA PowerPositive ==
    ASSUME NEW k \in Nat
    PROVE  2^k # 0
<1>1. IsFiniteSet(1..k) /\ Cardinality(1..k) = k
  BY FS_Interval
<1>2. Cardinality(SUBSET (1..k)) = 2^k /\ IsFiniteSet(SUBSET (1..k))
  BY <1>1, FS_SUBSET
<1>3. {} \in SUBSET (1..k)
  OBVIOUS
<1> QED
  BY <1>2, <1>3, FS_EmptySet

LEMMA PowerOfSum ==
    ASSUME NEW m \in Nat, NEW n \in Nat
    PROVE  2^(m + n) = 2^m * 2^n
<1> DEFINE A == 1..m
           B == (m + 1)..(m + n)
           pair == [S \in SUBSET (A \cup B) |-> <<S \cap A, S \cap B>>]
<1>1. IsFiniteSet(A) /\ Cardinality(A) = m
  BY FS_Interval
<1>2. IsFiniteSet(B) /\ Cardinality(B) = n
  <2>1. m + 1 \in Int /\ m + n \in Int /\ (m + n) - (m + 1) + 1 = n
        /\ (m + 1 > m + n => n = 0)
    OBVIOUS
  <2> QED
    BY <2>1, FS_Interval
<1>3. A \cap B = {}
  OBVIOUS
<1>4. IsFiniteSet(A \cup B) /\ Cardinality(A \cup B) = m + n
  <2>1. IsFiniteSet(A \cup B) /\ Cardinality(A \cup B)
        = Cardinality(A) + Cardinality(B) - Cardinality(A \cap B)
    BY <1>1, <1>2, FS_Union
  <2>2. Cardinality(A \cap B) = 0
    BY <1>3, FS_EmptySet
  <2> QED
    BY <1>1, <1>2, <2>1, <2>2
<1> HIDE DEF A, B
<1>5. pair \in Bijection(SUBSET (A \cup B), (SUBSET A) \X (SUBSET B))
  <2>1. pair \in [SUBSET (A \cup B) -> (SUBSET A) \X (SUBSET B)]
    OBVIOUS
  <2>2. \A S, T \in SUBSET (A \cup B) : pair[S] = pair[T] => S = T
    <3> TAKE S, T \in SUBSET (A \cup B)
    <3> HAVE pair[S] = pair[T]
    <3>1. S \cap A = T \cap A /\ S \cap B = T \cap B
      OBVIOUS
    <3> QED
      BY <3>1
  <2>3. \A p \in (SUBSET A) \X (SUBSET B) : \E S \in SUBSET (A \cup B) : pair[S] = p
    <3> TAKE p \in (SUBSET A) \X (SUBSET B)
    <3>1. PICK X \in SUBSET A, Y \in SUBSET B : p = <<X, Y>>
      OBVIOUS
    <3>2. X \cup Y \in SUBSET (A \cup B)
      OBVIOUS
    <3>3. (X \cup Y) \cap A = X /\ (X \cup Y) \cap B = Y
      BY <1>3
    <3> QED
      BY <3>1, <3>2, <3>3
  <2> QED
    BY <2>1, <2>2, <2>3, Fun_IsBij
<1>6. Cardinality((SUBSET A) \X (SUBSET B)) = Cardinality(SUBSET (A \cup B))
  <2>1. ExistsBijection(SUBSET (A \cup B), (SUBSET A) \X (SUBSET B))
    BY <1>5, Fun_ExistsBij
  <2> QED
    BY <1>4, <2>1, FS_SUBSET, FS_Bijection
<1>7. /\ IsFiniteSet(SUBSET A) /\ Cardinality(SUBSET A) = 2^m
      /\ IsFiniteSet(SUBSET B) /\ Cardinality(SUBSET B) = 2^n
      /\ Cardinality(SUBSET (A \cup B)) = 2^(m + n)
  BY <1>1, <1>2, <1>4, FS_SUBSET
<1>8. Cardinality((SUBSET A) \X (SUBSET B)) = Cardinality(SUBSET A) * Cardinality(SUBSET B)
  BY <1>7, FS_Product
<1> QED
  BY <1>6, <1>7, <1>8

LEMMA TwoToTheEight == 2^0 = 1 /\ 2^4 = 16 /\ 2^8 = 256
<1>1. 2^0 = 1
  <2>1. IsFiniteSet({}) /\ Cardinality({}) = 0
    BY FS_EmptySet
  <2>2. Cardinality(SUBSET {}) = 2^0
    BY <2>1, FS_SUBSET
  <2>3. SUBSET {} = {{}}
    OBVIOUS
  <2> QED
    BY <2>2, <2>3, FS_Singleton
<1>2. 2^1 = 2
  <2>1. IsFiniteSet({1}) /\ Cardinality({1}) = 1
    BY FS_Singleton
  <2>2. Cardinality(SUBSET {1}) = 2^1
    BY <2>1, FS_SUBSET
  <2>3. SUBSET {1} = {{}} \cup {{1}}
    OBVIOUS
  <2>4. IsFiniteSet({{}}) /\ Cardinality({{}}) = 1
    BY FS_Singleton
  <2>5. {1} \notin {{}}
    OBVIOUS
  <2>6. Cardinality({{}} \cup {{1}}) = Cardinality({{}}) + 1
    BY <2>4, <2>5, FS_AddElement
  <2> QED
    BY <2>2, <2>3, <2>4, <2>6
<1>3. 2^(1 + 1) = 2^1 * 2^1 /\ 2^(2 + 2) = 2^2 * 2^2 /\ 2^(4 + 4) = 2^4 * 2^4
  BY PowerOfSum
<1>4. 2^2 = 4
  BY <1>2, <1>3
<1>5. 2^4 = 16
  BY <1>3, <1>4
<1> QED
  BY <1>1, <1>3, <1>5

-------------------------------------------------------------------------------
(* What digits count, and what of a number is left when it does not fit into *)
(* a word.                                                                   *)

\* Division undoes multiplication, whatever is left over.
LEMMA Quotient ==
    ASSUME NEW d \in Nat \ {0}, NEW q \in Nat, NEW r \in 0..(d - 1)
    PROVE  (d * q + r) \div d = q
<1> DEFINE w == d * q + r
           x == w \div d
<1>1. w \in Nat /\ d * q <= w /\ w < d * q + d
  OBVIOUS
<1> HIDE DEF w
<1>2. x \in Int /\ d * x <= w /\ w < d * x + d
  BY <1>1
<1> HIDE DEF x
<1>3. ~(x + 1 <= q)
  <2> SUFFICES ASSUME x + 1 <= q PROVE FALSE
    OBVIOUS
  <2>1. d * (x + 1) <= d * q /\ d * (x + 1) = d * x + d
    BY <1>2
  <2> QED
    BY <1>1, <1>2, <2>1
<1>4. ~(q + 1 <= x)
  <2> SUFFICES ASSUME q + 1 <= x PROVE FALSE
    OBVIOUS
  <2>1. d * (q + 1) <= d * x /\ d * (q + 1) = d * q + d
    BY <1>2
  <2> QED
    BY <1>1, <1>2, <2>1
<1>5. x = q
  BY <1>2, <1>3, <1>4
<1> QED
  BY <1>5 DEF w, x

\* What k digits can count.
SixteenTo(k) == 2^(4 * k)

LEMMA Sixteens ==
    /\ SixteenTo(0) = 1
    /\ \A k \in Nat : SixteenTo(k) \in Nat \ {0} /\ SixteenTo(k + 1) = 16 * SixteenTo(k)
    /\ \A j, k \in Nat : SixteenTo(j + k) = SixteenTo(j) * SixteenTo(k)
<1>1. SixteenTo(0) = 1
  BY TwoToTheEight DEF SixteenTo
<1>2. ASSUME NEW j \in Nat, NEW k \in Nat
      PROVE  SixteenTo(j + k) = SixteenTo(j) * SixteenTo(k)
  <2>1. 4 * j \in Nat /\ 4 * k \in Nat /\ 4 * (j + k) = 4 * j + 4 * k
    OBVIOUS
  <2>2. 2^(4 * j + 4 * k) = 2^(4 * j) * 2^(4 * k)
    BY <2>1, PowerOfSum
  <2> QED
    BY <2>1, <2>2 DEF SixteenTo
<1>3. ASSUME NEW k \in Nat PROVE SixteenTo(k) \in Nat \ {0}
  <2>1. PICK n \in Nat : n = 4 * k
    OBVIOUS
  <2>2. 2^n \in Nat /\ 2^n # 0
    BY TwoToThe, PowerPositive
  <2> QED
    BY <2>1, <2>2 DEF SixteenTo
<1>4. SixteenTo(1) = 16
  BY TwoToTheEight DEF SixteenTo
<1>5. ASSUME NEW k \in Nat PROVE SixteenTo(k + 1) = 16 * SixteenTo(k)
  <2>1. SixteenTo(k + 1) = SixteenTo(k) * SixteenTo(1)
    BY <1>2
  <2>2. SixteenTo(k) \in Nat
    BY <1>3
  <2> QED
    BY <1>4, <2>1, <2>2
<1> QED
  BY <1>1, <1>2, <1>3, <1>5

\* Multiples of the modulus do not count.
LEMMA Multiples ==
    ASSUME NEW d \in Nat \ {0}, NEW q \in Nat, NEW y \in Nat
    PROVE  (d * q + y) % d = y % d
<1>1. PICK p \in Nat, r \in 0..(d - 1) : p = y \div d /\ r = y % d /\ y = d * p + r
  OBVIOUS
<1>2. d * q + y = d * (q + p) + r
  BY <1>1
<1>3. q + p \in Nat
  OBVIOUS
<1>4. \A w \in Nat : \E x, z \in Nat : w = d * x + z /\ x = w \div d /\ z = w % d
  OBVIOUS
<1>5. (d * (q + p) + r) \div d = q + p /\ d * (q + p) + r \in Nat
  BY <1>3, Quotient
<1>6. PICK w \in Nat : w = d * (q + p) + r
  BY <1>5
<1>7. PICK x \in Nat, z \in Nat : w = d * x + z /\ x = w \div d /\ z = w % d
  BY <1>4
<1>8. x = q + p
  BY <1>5, <1>6, <1>7
<1>9. z = r
  BY <1>3, <1>6, <1>7, <1>8
<1> QED
  BY <1>1, <1>2, <1>6, <1>7, <1>9

ShiftsIn(d, x, e, c) == ((x % d) * e + c) % d = (x * e + c) % d

\* Reading reduces after each digit: it might as well do so in the end.
LEMMA ShiftIn ==
    ASSUME NEW d \in Nat \ {0}, NEW x \in Nat, NEW e \in Nat, NEW c \in Nat
    PROVE  ShiftsIn(d, x, e, c)
<1>1. PICK p \in Nat, r \in Nat : p = x \div d /\ r = x % d /\ x = d * p + r
  OBVIOUS
<1>2. PICK y \in Nat, z \in Nat : y = p * e /\ z = r * e + c
  OBVIOUS
<1>3. x * e + c = d * y + z
  BY <1>1, <1>2
<1>4. (d * y + z) % d = z % d
  BY Multiples
<1> QED
  BY <1>1, <1>2, <1>3, <1>4 DEF ShiftsIn

LEMMA Small ==
    ASSUME NEW d \in Nat \ {0}, NEW y \in 0..(d - 1)
    PROVE  y % d = y
  OBVIOUS

-------------------------------------------------------------------------------
(* Reading.  getHex, one character after another, is a walk through what it  *)
(* has read so far: Reads(t, s, u) says that reading t leads from s to u.    *)

At(a, d, vs) == [acc |-> a, digits |-> d, values |-> vs]
Reading == [acc : 0..(MODULUS - 1), digits : Nat, values : Seq(Nat)]
Now     == At(acc, digits, values)

\* What a character is worth as a digit.
Worth(c) ==
    IF IsDigit(c) THEN c - 48
    ELSE IF IsUpper(c) THEN c - 55 ELSE IF IsLower(c) THEN c - 87 ELSE c

Counted(s, v) ==
    IF s.digits + 1 = MAX_DIGITS THEN At(0, 0, Append(s.values, v))
                                 ELSE At(v, s.digits + 1, s.values)

\* getHex as a function of the character and of what was read before.
After(s, c) ==
    IF c \in Terminators THEN At(0, 0, Append(s.values, s.acc))
    ELSE IF c = Backspace
         THEN At(s.acc \div 16, IF s.digits > 0 THEN s.digits - 1 ELSE 0, s.values)
         ELSE Counted(s, (s.acc * 16 + Worth(c)) % MODULUS)

\* Reading t from s leads to u.
Run(run, t, s, u) ==
    /\ run \in [0..Len(t) -> Reading]
    /\ run[0] = s /\ run[Len(t)] = u
    /\ \A i \in 1..Len(t) : run[i] = After(run[i - 1], t[i])

Reads(t, s, u) == t \in Seq(Nat) /\ \E run : Run(run, t, s, u)

\* A walk begins and ends in states getHex can be in.
LEMMA ReadsTypes ==
    ASSUME NEW t, NEW s, NEW u, Reads(t, s, u)
    PROVE  t \in Seq(Nat) /\ Len(t) \in Nat /\ s \in Reading /\ u \in Reading
<1>1. t \in Seq(Nat) /\ Len(t) \in Nat
  BY LenProperties DEF Reads
<1>2. PICK run : Run(run, t, s, u)
  BY DEF Reads
<1>3. 0 \in 0..Len(t) /\ Len(t) \in 0..Len(t)
  BY <1>1
<1> QED
  BY <1>1, <1>2, <1>3 DEF Run

\* An empty text leads nowhere else.
LEMMA ReadsNothing ==
    ASSUME NEW s, NEW u
    PROVE  Reads(<<>>, s, u) <=> s \in Reading /\ u = s
<1>1. <<>> \in Seq(Nat) /\ Len(<<>>) = 0
  OBVIOUS
<1>2. ASSUME s \in Reading, u = s PROVE Reads(<<>>, s, u)
  <2>1. Run([i \in 0..0 |-> s], <<>>, s, u)
    BY <1>1, <1>2 DEF Run
  <2> QED
    BY <1>1, <2>1 DEF Reads
<1>3. ASSUME Reads(<<>>, s, u) PROVE u = s
  BY <1>1, <1>3 DEF Reads, Run
<1>4. Reads(<<>>, s, u) => s \in Reading
  BY ReadsTypes
<1> QED
  BY <1>2, <1>3, <1>4

\* One text after another.
LEMMA ReadsBoth ==
    ASSUME NEW t, NEW v, NEW s, NEW u, NEW w, Reads(t, s, u), Reads(v, u, w)
    PROVE  Reads(t \o v, s, w)
<1>1. PICK r1 : Run(r1, t, s, u)
  BY DEF Reads
<1>2. PICK r2 : Run(r2, v, u, w)
  BY DEF Reads
<1>3. PICK m \in Nat, n \in Nat : m = Len(t) /\ n = Len(v)
  BY ReadsTypes
<1>4. /\ t \o v \in Seq(Nat) /\ Len(t \o v) = m + n
      /\ \A i \in 1..(m + n) : (t \o v)[i] = IF i <= m THEN t[i] ELSE v[i - m]
  <2>1. t \in Seq(Nat) /\ v \in Seq(Nat)
    BY DEF Reads
  <2> QED
    BY <1>3, <2>1, ConcatProperties
<1> DEFINE run == [i \in 0..(m + n) |-> IF i <= m THEN r1[i] ELSE r2[i - m]]
<1>5. r1 \in [0..m -> Reading] /\ r1[0] = s /\ r1[m] = u
      /\ \A i \in 1..m : r1[i] = After(r1[i - 1], t[i])
  BY <1>1, <1>3 DEF Run
<1>6. r2 \in [0..n -> Reading] /\ r2[0] = u /\ r2[n] = w
      /\ \A i \in 1..n : r2[i] = After(r2[i - 1], v[i])
  BY <1>2, <1>3 DEF Run
<1>7. run \in [0..(m + n) -> Reading]
  BY <1>5, <1>6
<1>8. run[0] = s /\ run[m + n] = w
  BY <1>5, <1>6
<1>9. \A i \in 0..(m + n) : run[i] = IF i <= m THEN r1[i] ELSE r2[i - m]
  OBVIOUS
<1> HIDE DEF run
<1>10. ASSUME NEW i \in 1..(m + n) PROVE run[i] = After(run[i - 1], (t \o v)[i])
  <2>0. i \in Int /\ i \in 0..(m + n) /\ i - 1 \in 0..(m + n)
    OBVIOUS
  <2>1. CASE i <= m
    <3>1. run[i] = r1[i] /\ run[i - 1] = r1[i - 1] /\ (t \o v)[i] = t[i] /\ i \in 1..m
      BY <1>4, <1>9, <2>0, <2>1
    <3> QED
      BY <1>5, <3>1
  <2>2. CASE ~(i <= m)
    <3>0. i - m \in 1..n
      BY <2>0, <2>2
    <3>1. run[i] = r2[i - m] /\ (t \o v)[i] = v[i - m] /\ i - m \in 1..n
      <4>1. run[i] = r2[i - m]
        BY <1>9, <2>0, <2>2, Zenon
      <4>2. (t \o v)[i] = v[i - m]
        BY <1>4, <2>2, Zenon
      <4> QED
        BY <3>0, <4>1, <4>2
    <3>2. CASE i - 1 <= m
      <4>1. i - 1 = m /\ (i - m) - 1 = 0
        BY <2>0, <2>2, <3>2
      <4>2. run[i - 1] = r1[i - 1]
        BY <1>9, <2>0, <3>2, Zenon
      <4>3. run[i - 1] = r2[(i - m) - 1]
        BY <1>5, <1>6, <4>1, <4>2, Zenon
      <4>4. r2[i - m] = After(r2[(i - m) - 1], v[i - m])
        BY <1>6, <3>0, Zenon
      <4> QED
        BY <3>1, <4>3, <4>4, Zenon
    <3>3. CASE ~(i - 1 <= m)
      <4>1. (i - 1) - m = (i - m) - 1
        BY <2>0
      <4>2. run[i - 1] = r2[(i - m) - 1]
        BY <1>9, <2>0, <3>3, <4>1
      <4> QED
        BY <1>6, <3>1, <4>2
    <3> QED
      BY <3>2, <3>3
  <2> QED
    BY <2>1, <2>2
<1>11. Run(run, t \o v, s, w)
  BY <1>4, <1>7, <1>8, <1>10 DEF Run
<1> QED
  BY <1>4, <1>11 DEF Reads

\* One character.
LEMMA ReadsOne ==
    ASSUME NEW s \in Reading, NEW c \in Nat, After(s, c) \in Reading
    PROVE  Reads(<<c>>, s, After(s, c))
<1> DEFINE u == After(s, c)
           run == [i \in 0..1 |-> IF i = 0 THEN s ELSE u]
<1>1. u \in Reading
  OBVIOUS
<1>2. <<c>> \in Seq(Nat) /\ Len(<<c>>) = 1 /\ <<c>>[1] = c
  OBVIOUS
<1>3. u = After(s, c)
  OBVIOUS
<1> HIDE DEF u
<1>4. Run(run, <<c>>, s, u)
  BY <1>1, <1>2, <1>3 DEF Run
<1> QED
  BY <1>2, <1>4 DEF Reads, u

\* Reading goes on behind the first character.
LEMMA ReadsRest ==
    ASSUME NEW t, NEW s, NEW u, Reads(t, s, u), t # <<>>
    PROVE  Head(t) \in Nat /\ Reads(Tail(t), After(s, Head(t)), u)
<1>1. PICK run : Run(run, t, s, u)
  BY DEF Reads
<1>2. t \in Seq(Nat) /\ Len(t) \in Nat \ {0} /\ Head(t) = t[1]
  BY EmptySeq DEF Reads
<1>3. /\ Tail(t) \in Seq(Nat) /\ Len(Tail(t)) = Len(t) - 1
      /\ \A i \in 1..(Len(t) - 1) : Tail(t)[i] = t[i + 1]
      /\ Head(t) \in Nat
  BY <1>2, HeadTailProperties
<1>4. PICK n \in Nat : n + 1 = Len(t)
  BY <1>2
<1> DEFINE rest == [i \in 0..n |-> run[i + 1]]
<1>5. /\ run \in [0..(n + 1) -> Reading] /\ run[0] = s /\ run[n + 1] = u
      /\ \A i \in 1..(n + 1) : run[i] = After(run[i - 1], t[i])
  BY <1>1, <1>4 DEF Run
<1>6. rest \in [0..n -> Reading] /\ rest[n] = u
  BY <1>5
<1>7. rest[0] = After(s, Head(t))
  BY <1>2, <1>5
<1>8. ASSUME NEW i \in 1..n PROVE rest[i] = After(rest[i - 1], Tail(t)[i])
  <2>1. rest[i] = run[i + 1] /\ rest[i - 1] = run[i] /\ Tail(t)[i] = t[i + 1]
    BY <1>3, <1>4
  <2>2. run[i + 1] = After(run[i], t[i + 1])
    BY <1>5
  <2> QED
    BY <2>1, <2>2
<1> HIDE DEF rest
<1>9. Run(rest, Tail(t), After(s, Head(t)), u)
  <2>0. Len(t) - 1 = n
    BY <1>4
  <2>1. Len(Tail(t)) = n
    BY <1>3, <2>0, Zenon
  <2> QED
    BY <1>6, <1>7, <1>8, <2>1 DEF Run
<1> QED
  BY <1>3, <1>9 DEF Reads

\* A step of getHex is a step of the walk.
LEMMA StepReads ==
    ASSUME getHex, Now \in Reading, Head(text) \in Nat
    PROVE  /\ Now' = After(Now, Head(text)) /\ text # <<>>
           /\ text' = Tail(text) /\ expected' = expected
<1>1. PICK c \in Nat : c = Head(text)
  OBVIOUS
<1>2. /\ text # <<>> /\ text' = Tail(text) /\ expected' = expected
      /\ Terminator(c) \/ Digit(c) \/ Upper(c) \/ Lower(c) \/ Erase(c) \/ Other(c)
  BY <1>1 DEF getHex
<1>3. /\ Now.acc = acc /\ Now.digits = digits /\ Now.values = values
      /\ Now' = At(acc', digits', values')
  BY DEF Now, At
<1>4. Terminator(c) => Now' = After(Now, c)
  BY <1>3 DEF Terminator, Return, After
<1>5. Erase(c) => Now' = After(Now, c)
  <2> HAVE Erase(c)
  <2>1. c = 8 /\ c \notin Terminators
    BY DEF Erase, Backspace, Terminators, CarriageReturn, NewLine, Space
  <2> QED
    BY <1>3, <2>1 DEF Erase, After, Backspace
<1>6. ASSUME c \notin Terminators, c # Backspace, Count(Shifted(Worth(c)))
      PROVE  Now' = After(Now, c)
  <2>1. ASSUME NEW v, Count(v) PROVE Now' = Counted(Now, v)
    BY <1>3, <2>1 DEF Count, Return, Counted
  <2>2. Now' = Counted(Now, Shifted(Worth(c)))
    BY <1>6, <2>1
  <2> QED
    BY <1>3, <1>6, <2>2 DEF After, Shifted
<1>7. Digit(c) => Now' = After(Now, c)
  <2> HAVE Digit(c)
  <2>1. c \notin Terminators /\ c # Backspace /\ Worth(c) = c - 48
    BY DEF Digit, IsDigit, Terminators, CarriageReturn, NewLine, Space, Backspace, Worth
  <2> QED
    BY <1>6, <2>1 DEF Digit
<1>8. Upper(c) => Now' = After(Now, c)
  <2> HAVE Upper(c)
  <2>1. c \notin Terminators /\ c # Backspace /\ Worth(c) = c - 55
    BY DEF Upper, IsUpper, IsDigit, Terminators, CarriageReturn, NewLine, Space,
                Backspace, Worth
  <2> QED
    BY <1>6, <2>1 DEF Upper
<1>9. Lower(c) => Now' = After(Now, c)
  <2> HAVE Lower(c)
  <2>1. c \notin Terminators /\ c # Backspace /\ Worth(c) = c - 87
    BY DEF Lower, IsLower, IsUpper, IsDigit, Terminators, CarriageReturn, NewLine,
                Space, Backspace, Worth
  <2> QED
    BY <1>6, <2>1 DEF Lower
<1>10. Other(c) => Now' = After(Now, c)
  <2> HAVE Other(c)
  <2>1. c \notin Terminators /\ c # Backspace /\ Worth(c) = c
    BY DEF Other, Worth
  <2> QED
    BY <1>6, <2>1 DEF Other
<1> QED
  BY <1>1, <1>2, <1>4, <1>5, <1>7, <1>8, <1>9, <1>10

-------------------------------------------------------------------------------
(* Functions defined by recursion.  The text of a word, the text of words    *)
(* and the value of a word are functions on an interval, which exist because *)
(* each step has a value; HexNumber is a function on all numbers, put        *)
(* together from functions on intervals, which agree.                        *)

\* A function that is defined by recursion exists.
Solves(f, n, S, b, step) ==
    f \in [0..n -> S] /\ f[0] = b /\ \A j \in 1..n : f[j] = step[<<j, f[j - 1]>>]

LEMMA Recursion ==
    ASSUME NEW n \in Nat, NEW S, NEW b \in S, NEW step \in [(1..n) \X S -> S]
    PROVE  \E f : Solves(f, n, S, b, step)
<1> DEFINE Defined(f, m) == /\ f \in [0..m -> S] /\ f[0] = b
                            /\ \A j \in 1..m : f[j] = step[<<j, f[j - 1]>>]
           Good == {m \in Nat : m <= n => \E f : Defined(f, m)}
<1>1. 0 \in Good
  <2>1. Defined([j \in 0..0 |-> b], 0)
    OBVIOUS
  <2> QED
    BY <2>1
<1>2. ASSUME NEW m \in Nat, m \in Good PROVE m + 1 \in Good
  <2> SUFFICES ASSUME m + 1 <= n PROVE \E g : Defined(g, m + 1)
    OBVIOUS
  <2>1. PICK f : Defined(f, m)
    BY <1>2
  <2> DEFINE x == step[<<m + 1, f[m]>>]
             g == [j \in 0..(m + 1) |-> IF j <= m THEN f[j] ELSE x]
  <2>2. f[m] \in S /\ x \in S
    BY <2>1
  <2>3. g \in [0..(m + 1) -> S] /\ g[0] = b
    BY <2>1, <2>2
  <2>4. \A j \in 0..m : g[j] = f[j]
    OBVIOUS
  <2>5. g[m + 1] = x
    OBVIOUS
  <2> HIDE DEF g
  <2>6. ASSUME NEW j \in 1..(m + 1) PROVE g[j] = step[<<j, g[j - 1]>>]
    <3>1. j - 1 \in 0..m /\ g[j - 1] = f[j - 1]
      BY <2>4
    <3>2. CASE j = m + 1
      BY <2>5, <3>1, <3>2
    <3>3. CASE j # m + 1
      <4>1. j \in 1..m /\ g[j] = f[j]
        BY <2>4, <3>3
      <4> QED
        BY <2>1, <3>1, <4>1
    <3> QED
      BY <3>2, <3>3
  <2>7. Defined(g, m + 1)
    BY <2>3, <2>6
  <2> QED
    BY <2>7
<1>3. Nat \subseteq Good
  <2> HIDE DEF Good
  <2> QED
    BY <1>1, <1>2, AllNumbers
<1> QED
  BY <1>3 DEF Solves

-------------------------------------------------------------------------------
(* HexNumber is what its definition says. *)

Approximates(f, m) ==
    /\ f \in [0..m -> Seq(Nat)]
    /\ \A i \in 0..m : f[i] = IF i < 16 THEN <<HexDigit(i)>>
                              ELSE Append(f[i \div 16], HexDigit(i % 16))

LEMMA HexDigitIsNat ==
    ASSUME NEW d \in Nat
    PROVE  HexDigit(d) \in Nat
  BY DEF HexDigit

\* The digits before the last are a smaller number.
LEMMA Smaller ==
    ASSUME NEW i \in Nat, i >= 16
    PROVE  i \div 16 \in Nat /\ i \div 16 < i /\ i % 16 \in 0..15 /\ i = 16 * (i \div 16) + (i % 16)
           /\ i \div 16 >= 1
<1>1. PICK x \in Nat, z \in 0..15 : i = 16 * x + z /\ x = i \div 16 /\ z = i % 16
  OBVIOUS
<1>2. x >= 1 /\ x < i
  BY <1>1
<1>3. i % 16 \in 0..15
  BY <1>1, Zenon
<1>4. i \div 16 \in Nat /\ i \div 16 < i /\ i \div 16 >= 1
  BY <1>1, <1>2, Zenon
<1>5. i = 16 * (i \div 16) + (i % 16)
  OBVIOUS
<1> QED
  BY <1>3, <1>4, <1>5

\* Two such functions agree where both are defined.
LEMMA ApproximationsAgree ==
    ASSUME NEW m \in Nat, NEW k \in Nat, NEW f, NEW g, Approximates(f, m), Approximates(g, k),
           NEW n \in Nat, n <= m, n <= k
    PROVE  f[n] = g[n]
<1> DEFINE T == {i \in Nat : i <= m /\ i <= k /\ f[i] # g[i]}
<1>1. SUFFICES ASSUME T # {} PROVE FALSE
  OBVIOUS
<1>2. PICK i \in T : \A y \in T : i <= y
  BY <1>1, LeastNumber
<1>3. i \in Nat /\ i \in 0..m /\ i \in 0..k /\ f[i] # g[i]
  OBVIOUS
<1>4. CASE i < 16
  BY <1>3, <1>4 DEF Approximates
<1>5. CASE i >= 16
  <2>1. i \div 16 \in Nat /\ i \div 16 < i
    BY <1>3, <1>5, Smaller
  <2>2. f[i \div 16] = g[i \div 16]
    BY <1>2, <1>3, <2>1
  <2>3. f[i] = Append(f[i \div 16], HexDigit(i % 16)) /\ g[i] = Append(g[i \div 16], HexDigit(i % 16))
    BY <1>3, <1>5 DEF Approximates
  <2> QED
    BY <1>3, <2>2, <2>3
<1> QED
  BY <1>3, <1>4, <1>5

\* There is one for every interval.
LEMMA ApproximationsExist ==
    ASSUME NEW n \in Nat
    PROVE  \E f : Approximates(f, n)
<1> DEFINE Good == {m \in Nat : \E f : Approximates(f, m)}
<1>1. 0 \in Good
  <2>1. HexDigit(0) \in Nat
    BY HexDigitIsNat
  <2>2. <<HexDigit(0)>> \in Seq(Nat)
    BY <2>1
  <2>3. Approximates([i \in 0..0 |-> <<HexDigit(0)>>], 0)
    BY <2>2 DEF Approximates
  <2> QED
    BY <2>3
<1>2. ASSUME NEW m \in Nat, m \in Good PROVE m + 1 \in Good
  <2>1. PICK f : Approximates(f, m)
    BY <1>2
  <2> DEFINE x == IF m + 1 < 16 THEN <<HexDigit(m + 1)>>
                  ELSE Append(f[(m + 1) \div 16], HexDigit((m + 1) % 16))
             g == [j \in 0..(m + 1) |-> IF j <= m THEN f[j] ELSE x]
  <2>2. x \in Seq(Nat)
    <3>1. CASE m + 1 < 16
      <4>1. HexDigit(m + 1) \in Nat
        BY HexDigitIsNat
      <4> QED
        BY <3>1, <4>1
    <3>2. CASE m + 1 >= 16
      <4>1. (m + 1) \div 16 \in 0..m /\ (m + 1) % 16 \in Nat
        BY <3>2
      <4>2. HexDigit((m + 1) % 16) \in Nat /\ f[(m + 1) \div 16] \in Seq(Nat)
        BY <2>1, <4>1, HexDigitIsNat DEF Approximates
      <4>3. Append(f[(m + 1) \div 16], HexDigit((m + 1) % 16)) \in Seq(Nat)
        BY <4>2, AppendProperties
      <4> QED
        BY <3>2, <4>3
    <3> QED
      BY <3>1, <3>2
  <2>3. g \in [0..(m + 1) -> Seq(Nat)]
    BY <2>1, <2>2 DEF Approximates
  <2>4. \A j \in 0..m : g[j] = f[j]
    OBVIOUS
  <2>5. g[m + 1] = x
    OBVIOUS
  <2> HIDE DEF g
  <2>6. ASSUME NEW i \in 0..(m + 1)
        PROVE  g[i] = IF i < 16 THEN <<HexDigit(i)>> ELSE Append(g[i \div 16], HexDigit(i % 16))
    <3>1. i >= 16 => i \div 16 \in 0..m
      BY Smaller
    <3>2. i >= 16 => g[i \div 16] = f[i \div 16]
      BY <2>4, <3>1
    <3>3. CASE i = m + 1
      BY <2>5, <3>2, <3>3
    <3>4. CASE i # m + 1
      <4>1. i \in 0..m /\ g[i] = f[i]
        BY <2>4, <3>4
      <4>2. f[i] = IF i < 16 THEN <<HexDigit(i)>> ELSE Append(f[i \div 16], HexDigit(i % 16))
        BY <2>1, <4>1 DEF Approximates
      <4> QED
        BY <3>2, <4>1, <4>2
    <3> QED
      BY <3>3, <3>4
  <2>7. Approximates(g, m + 1)
    BY <2>3, <2>6 DEF Approximates
  <2> QED
    BY <2>7
<1>3. Nat \subseteq Good
  <2> HIDE DEF Good
  <2> QED
    BY <1>1, <1>2, AllNumbers
<1> QED
  BY <1>3

\* So HexNumber[n], the CHOOSE of its definition, satisfies the definition.
LEMMA HexNumberEquation ==
    ASSUME NEW n \in Nat
    PROVE  HexNumber[n] = IF n < 16 THEN <<HexDigit(n)>>
                          ELSE Append(HexNumber[n \div 16], HexDigit(n % 16))
<1> DEFINE best(k) == CHOOSE f : Approximates(f, k)
           h == [k \in Nat |-> best(k)[k]]
           Recursive(f) == f = [k \in Nat |-> IF k < 16 THEN <<HexDigit(k)>>
                                  ELSE Append(f[k \div 16], HexDigit(k % 16))]
<1>1. \A k \in Nat : Approximates(best(k), k)
  BY ApproximationsExist
<1>2. ASSUME NEW k \in Nat
      PROVE  h[k] = IF k < 16 THEN <<HexDigit(k)>> ELSE Append(h[k \div 16], HexDigit(k % 16))
  <2> HIDE DEF best
  <2>1. h[k] = best(k)[k]
    OBVIOUS
  <2>2. best(k)[k] = IF k < 16 THEN <<HexDigit(k)>>
                     ELSE Append(best(k)[k \div 16], HexDigit(k % 16))
    <3>1. k \in 0..k
      OBVIOUS
    <3> QED
      BY <1>1, <3>1 DEF Approximates
  <2>3. k >= 16 => best(k)[k \div 16] = h[k \div 16]
    <3> HAVE k >= 16
    <3>1. k \div 16 \in Nat /\ k \div 16 <= k
      BY Smaller
    <3>2. h[k \div 16] = best(k \div 16)[k \div 16]
      BY <3>1
    <3>3. best(k)[k \div 16] = best(k \div 16)[k \div 16]
      BY <1>1, <3>1, ApproximationsAgree
    <3> QED
      BY <3>2, <3>3
  <2> QED
    BY <2>1, <2>2, <2>3
<1>3. Recursive(h)
  <2>1. h = [k \in Nat |-> h[k]]
    OBVIOUS
  <2> HIDE DEF h
  <2> QED
    BY <1>2, <2>1
<1>4. HexNumber = CHOOSE f : Recursive(f)
  BY DEF HexNumber
<1>5. Recursive(HexNumber)
  <2> HIDE DEF Recursive, h
  <2> QED
    BY <1>3, <1>4
<1> QED
  BY <1>5

LEMMA HexNumberIs ==
    /\ \A n \in Nat : n < 16 => HexNumber[n] = <<HexDigit(n)>>
    /\ \A n \in Nat : n >= 16 =>
          HexNumber[n] = Append(HexNumber[n \div 16], HexDigit(n % 16))
<1>1. ASSUME NEW n \in Nat, n < 16 PROVE HexNumber[n] = <<HexDigit(n)>>
  BY <1>1, HexNumberEquation
<1>2. ASSUME NEW n \in Nat, n >= 16
      PROVE  HexNumber[n] = Append(HexNumber[n \div 16], HexDigit(n % 16))
  <2>1. ~(n < 16)
    BY <1>2
  <2> QED
    BY <2>1, HexNumberEquation, Zenon
<1> QED
  BY <1>1, <1>2

-------------------------------------------------------------------------------
(* Text that stands for a number. *)

\* The sizes: an address has the digits 10...0.
LEMMA CodecFacts ==
    /\ DIGITS \in Nat \ {0, 1} /\ WORD_SIZE \in Nat \ {0} /\ DIGITS = 2 * WORD_SIZE
    /\ MAX_DIGITS \in Nat /\ MAX_DIGITS > DIGITS
    /\ MODULUS = SixteenTo(DIGITS) /\ MODULUS \in Nat \ {0}
    /\ ADDRESS = SixteenTo(DIGITS - 1) /\ ADDRESS \in Nat \ {0} /\ MODULUS = 16 * ADDRESS
<1>1. /\ DIGITS \in Nat \ {0, 1} /\ WORD_SIZE \in Nat \ {0} /\ DIGITS = 2 * WORD_SIZE
      /\ MAX_DIGITS \in Nat /\ MAX_DIGITS > DIGITS
  BY CodecAssumption DEF DIGITS
<1>2. ADDRESS = SixteenTo(DIGITS - 1)
  BY DEF ADDRESS, SixteenTo
<1>3. MODULUS = SixteenTo(DIGITS)
  <2>1. 8 * WORD_SIZE = 4 * DIGITS
    BY <1>1
  <2> QED
    BY <2>1 DEF MODULUS, SixteenTo
<1>4. PICK k \in Nat : k = DIGITS - 1 /\ k + 1 = DIGITS
  BY <1>1
<1>5. SixteenTo(k) \in Nat \ {0} /\ SixteenTo(k + 1) = 16 * SixteenTo(k)
  BY Sixteens
<1> QED
  BY <1>1, <1>2, <1>3, <1>4, <1>5

\* Read after anything, t adds its digits to the number: it stands for n.
Spells(t, n) ==
    /\ t \in Seq(Nat)
    /\ \A s \in Reading :
          s.digits + Len(t) < MAX_DIGITS =>
             Reads(t, s, At((s.acc * SixteenTo(Len(t)) + n) % MODULUS, s.digits + Len(t), s.values))

LEMMA ReadingFields ==
    ASSUME NEW s \in Reading
    PROVE  /\ s.acc \in 0..(MODULUS - 1) /\ s.acc \in Nat /\ s.digits \in Nat /\ s.values \in Seq(Nat)
           /\ s = At(s.acc, s.digits, s.values)
  BY CodecFacts DEF Reading, At

LEMMA AtIsReading ==
    ASSUME NEW a \in Nat, NEW d \in Nat, NEW vs \in Seq(Nat)
    PROVE  /\ At(a % MODULUS, d, vs) \in Reading
           /\ a < MODULUS => At(a, d, vs) \in Reading
           /\ At(a, d, vs).acc = a /\ At(a, d, vs).digits = d /\ At(a, d, vs).values = vs
<1>1. MODULUS \in Nat \ {0} /\ a % MODULUS \in 0..(MODULUS - 1)
  BY CodecFacts
<1> QED
  BY <1>1 DEF At, Reading

LEMMA SpellsNothing == Spells(<<>>, 0)
<1>1. <<>> \in Seq(Nat) /\ Len(<<>>) = 0
  OBVIOUS
<1>2. ASSUME NEW s \in Reading
      PROVE  Reads(<<>>, s, At((s.acc * SixteenTo(0) + 0) % MODULUS, s.digits + 0, s.values))
  <2>1. /\ s.acc \in 0..(MODULUS - 1) /\ s.digits \in Nat /\ MODULUS \in Nat \ {0}
        /\ s = At(s.acc, s.digits, s.values)
    BY ReadingFields, CodecFacts
  <2>2. s.acc * SixteenTo(0) + 0 = s.acc /\ s.digits + 0 = s.digits
    <3>1. s.acc \in Nat /\ SixteenTo(0) = 1
      BY <2>1, Sixteens
    <3> QED
      BY <2>1, <3>1
  <2>3. s.acc % MODULUS = s.acc
    BY <2>1, Small
  <2>4. At((s.acc * SixteenTo(0) + 0) % MODULUS, s.digits + 0, s.values) = s
    BY <2>1, <2>2, <2>3, Zenon
  <2> QED
    BY <2>4, ReadsNothing
<1> QED
  BY <1>1, <1>2 DEF Spells

\* A digit stands for what it is worth.
LEMMA SpellsDigit ==
    ASSUME NEW c \in Nat, c \notin Terminators, c # Backspace, Worth(c) \in Nat
    PROVE  Spells(<<c>>, Worth(c))
<1>1. <<c>> \in Seq(Nat) /\ Len(<<c>>) = 1
  OBVIOUS
<1>2. ASSUME NEW s \in Reading, s.digits + 1 < MAX_DIGITS
      PROVE  Reads(<<c>>, s, At((s.acc * SixteenTo(1) + Worth(c)) % MODULUS, s.digits + 1, s.values))
  <2>1. s.acc \in Nat /\ s.digits \in Nat /\ s.values \in Seq(Nat) /\ MAX_DIGITS \in Nat
    BY ReadingFields, CodecFacts
  <2>2. SixteenTo(1) = 16
    <3>1. SixteenTo(0 + 1) = 16 * SixteenTo(0) /\ SixteenTo(0) = 1
      BY Sixteens
    <3> QED
      BY <3>1
  <2>3. After(s, c) = At((s.acc * 16 + Worth(c)) % MODULUS, s.digits + 1, s.values)
    BY <1>2, <2>1 DEF After, Counted
  <2>4. After(s, c) \in Reading
    <3>1. s.acc * 16 + Worth(c) \in Nat /\ s.digits + 1 \in Nat
      BY <2>1
    <3> QED
      BY <2>1, <2>3, <3>1, AtIsReading
  <2>5. Reads(<<c>>, s, After(s, c))
    BY <2>4, ReadsOne
  <2> QED
    BY <2>2, <2>3, <2>5
<1> QED
  BY <1>1, <1>2 DEF Spells

\* Text behind text.
LEMMA SpellsBoth ==
    ASSUME NEW t, NEW v, NEW m \in Nat, NEW n \in Nat, Spells(t, m), Spells(v, n)
    PROVE  /\ Spells(t \o v, m * SixteenTo(Len(v)) + n)
           /\ Len(t \o v) = Len(t) + Len(v)
<1>1. t \in Seq(Nat) /\ v \in Seq(Nat)
  BY DEF Spells
<1>2. PICK j \in Nat, k \in Nat : j = Len(t) /\ k = Len(v)
  BY <1>1, LenProperties
<1>3. t \o v \in Seq(Nat) /\ Len(t \o v) = j + k
  BY <1>1, <1>2, ConcatProperties
<1>4. PICK p \in Nat, q \in Nat : p = SixteenTo(j) /\ q = SixteenTo(k) /\ SixteenTo(j + k) = p * q
  <2>1. SixteenTo(j) \in Nat /\ SixteenTo(k) \in Nat
    BY Sixteens
  <2>2. SixteenTo(j + k) = SixteenTo(j) * SixteenTo(k)
    BY Sixteens
  <2> QED
    BY <2>1, <2>2, Zenon
<1>5. ASSUME NEW s \in Reading, s.digits + (j + k) < MAX_DIGITS
      PROVE  Reads(t \o v, s, At((s.acc * SixteenTo(j + k) + (m * q + n)) % MODULUS,
                                 s.digits + (j + k), s.values))
  <2>1. PICK a \in Nat, d \in Nat : a = s.acc /\ d = s.digits
    BY ReadingFields
  <2>2. s.values \in Seq(Nat) /\ MAX_DIGITS \in Nat /\ MODULUS \in Nat \ {0}
    BY ReadingFields, CodecFacts
  <2> DEFINE u == At((a * p + m) % MODULUS, d + j, s.values)
  <2>3. Reads(t, s, u)
    <3>1. s.digits + j < MAX_DIGITS
      BY <1>5, <2>1, <2>2
    <3> QED
      BY <1>2, <1>4, <2>1, <3>1 DEF Spells
  <2>4. PICK x \in Nat : x = a * p + m
    OBVIOUS
  <2>0. x % MODULUS \in Nat /\ d + j \in Nat
    BY <2>2
  <2>5. u \in Reading /\ u.acc = x % MODULUS /\ u.digits = d + j /\ u.values = s.values
    <3>1. PICK y \in 0..(MODULUS - 1), i \in Nat : y = x % MODULUS /\ i = d + j
      BY <2>0, <2>2
    <3>2. u = At(y, i, s.values)
      BY <2>4, <3>1
    <3>3. At(y, i, s.values) \in Reading
      BY <2>2 DEF At, Reading
    <3> QED
      BY <3>1, <3>2, <3>3 DEF At
  <2> HIDE DEF u
  <2>6. Reads(v, u, At((u.acc * q + n) % MODULUS, u.digits + k, u.values))
    <3>1. u.digits + k < MAX_DIGITS
      BY <1>5, <2>1, <2>2, <2>5
    <3> QED
      BY <1>2, <1>4, <2>5, <3>1 DEF Spells
  <2>7. (u.acc * q + n) % MODULUS = (s.acc * SixteenTo(j + k) + (m * q + n)) % MODULUS
    <3>0. ShiftsIn(MODULUS, x, q, n)
      BY <2>2, ShiftIn
    <3>1. ((x % MODULUS) * q + n) % MODULUS = (x * q + n) % MODULUS
      BY <3>0 DEF ShiftsIn
    <3>2. x * q + n = a * (p * q) + (m * q + n)
      BY <2>4
    <3> QED
      BY <1>4, <2>1, <2>5, <3>1, <3>2
  <2>8. u.digits + k = s.digits + (j + k)
    BY <2>1, <2>5
  <2>9. Reads(v, u, At((s.acc * SixteenTo(j + k) + (m * q + n)) % MODULUS,
                       s.digits + (j + k), s.values))
    BY <2>5, <2>6, <2>7, <2>8
  <2> QED
    BY <2>3, <2>9, ReadsBoth
<1>6. Spells(t \o v, m * q + n)
  BY <1>3, <1>5 DEF Spells
<1> QED
  BY <1>2, <1>3, <1>4, <1>6

\* A digit behind text.
LEMMA SpellsMore ==
    ASSUME NEW t, NEW m \in Nat, Spells(t, m),
           NEW c \in Nat, c \notin Terminators, c # Backspace, Worth(c) \in Nat
    PROVE  Spells(Append(t, c), 16 * m + Worth(c)) /\ Len(Append(t, c)) = Len(t) + 1
<1>1. t \in Seq(Nat) /\ Append(t, c) = t \o <<c>> /\ Len(<<c>>) = 1
  BY AppendIsConcat DEF Spells
<1>2. Spells(<<c>>, Worth(c))
  BY SpellsDigit
<1>3. Spells(t \o <<c>>, m * SixteenTo(1) + Worth(c)) /\ Len(t \o <<c>>) = Len(t) + 1
  BY <1>1, <1>2, SpellsBoth
<1>4. SixteenTo(0 + 1) = 16 * SixteenTo(0) /\ SixteenTo(0) = 1
  BY Sixteens
<1>5. m * SixteenTo(1) + Worth(c) = 16 * m + Worth(c)
  BY <1>4
<1> QED
  BY <1>1, <1>3, <1>5

\* The digits std::hex prints and those the loader prints.
LEMMA DigitsAreWorth ==
    ASSUME NEW d \in 0..15
    PROVE  /\ HexDigit(d) \in Nat \ Terminators /\ HexDigit(d) # Backspace /\ Worth(HexDigit(d)) = d
           /\ LET c == IF d < 10 THEN 48 + d ELSE 55 + d
              IN  c \in Nat \ Terminators /\ c # Backspace /\ Worth(c) = d
  BY DEF HexDigit, Terminators, CarriageReturn, NewLine, Space, Backspace, Worth, IsDigit,
         IsUpper, IsLower

\* What std::hex prints stands for the number.
LEMMA HexNumberSpells ==
    ASSUME NEW n \in Nat
    PROVE  Spells(HexNumber[n], n)
<1> DEFINE T == {i \in Nat : ~Spells(HexNumber[i], i)}
<1>1. SUFFICES ASSUME T # {} PROVE FALSE
  OBVIOUS
<1>2. PICK i \in T : \A y \in T : i <= y
  BY <1>1, LeastNumber
<1>3. i \in Nat /\ ~Spells(HexNumber[i], i)
  OBVIOUS
<1>4. CASE i < 16
  <2>1. i \in 0..15 /\ HexNumber[i] = <<HexDigit(i)>>
    BY <1>3, <1>4, HexNumberIs
  <2>2. Spells(<<HexDigit(i)>>, i)
    <3>1. HexDigit(i) \in Nat /\ HexDigit(i) \notin Terminators /\ HexDigit(i) # Backspace
          /\ Worth(HexDigit(i)) = i
      BY <2>1, DigitsAreWorth
    <3> QED
      BY <1>3, <3>1, SpellsDigit
  <2> QED
    BY <1>3, <2>1, <2>2
<1>5. CASE i >= 16
  <2>1. PICK x \in Nat, z \in 0..15 : x = i \div 16 /\ z = i % 16 /\ x < i /\ i = 16 * x + z
    BY <1>3, <1>5, Smaller
  <2>2. HexNumber[i] = Append(HexNumber[x], HexDigit(z))
    BY <1>3, <1>5, <2>1, HexNumberIs
  <2>3. Spells(HexNumber[x], x)
    BY <1>2, <2>1
  <2>4. HexDigit(z) \in Nat /\ HexDigit(z) \notin Terminators /\ HexDigit(z) # Backspace
        /\ Worth(HexDigit(z)) = z
    BY DigitsAreWorth
  <2>5. Spells(Append(HexNumber[x], HexDigit(z)), 16 * x + z)
    BY <2>3, <2>4, SpellsMore
  <2> QED
    BY <1>3, <2>1, <2>2, <2>5
<1> QED
  BY <1>3, <1>4, <1>5

\* Without its last digit a number is one digit shorter.
LEMMA HexNumberMore ==
    ASSUME NEW n \in Nat, n >= 16
    PROVE  \E x \in Nat, z \in 0..15 :
              /\ x = n \div 16 /\ z = n % 16 /\ n = 16 * x + z
              /\ HexNumber[n] = Append(HexNumber[x], HexDigit(z))
              /\ Len(HexNumber[n]) = Len(HexNumber[x]) + 1 /\ Len(HexNumber[x]) \in Nat
<1>1. PICK x \in Nat, z \in 0..15 : x = n \div 16 /\ z = n % 16 /\ n = 16 * x + z
  BY Smaller
<1>2. HexNumber[n] = Append(HexNumber[x], HexDigit(z))
  BY <1>1, HexNumberIs
<1>3. HexNumber[x] \in Seq(Nat) /\ HexDigit(z) \in Nat
  BY HexNumberSpells, HexDigitIsNat DEF Spells
<1>4. Len(Append(HexNumber[x], HexDigit(z))) = Len(HexNumber[x]) + 1 /\ Len(HexNumber[x]) \in Nat
  BY <1>3, AppendProperties, LenProperties
<1> QED
  BY <1>1, <1>2, <1>4

\* How many digits a number has.
LEMMA HexNumberLength ==
    ASSUME NEW k \in Nat
    PROVE  \A n \in Nat : /\ n < SixteenTo(k + 1) => Len(HexNumber[n]) <= k + 1
                          /\ n >= SixteenTo(k) => Len(HexNumber[n]) >= k + 1
<1> DEFINE Good == {j \in Nat : \A n \in Nat :
                       /\ n < SixteenTo(j + 1) => Len(HexNumber[n]) <= j + 1
                       /\ n >= SixteenTo(j) => Len(HexNumber[n]) >= j + 1}
<1>0. ASSUME NEW n \in Nat, n < 16 PROVE Len(HexNumber[n]) = 1
  <2>1. HexNumber[n] = <<HexDigit(n)>>
    BY <1>0, HexNumberIs
  <2> QED
    BY <2>1
<1>1. 0 \in Good
  <2>1. SixteenTo(0) = 1 /\ SixteenTo(0 + 1) = 16
    <3>1. SixteenTo(0) = 1 /\ SixteenTo(0 + 1) = 16 * SixteenTo(0)
      BY Sixteens
    <3> QED
      BY <3>1
  <2>2. ASSUME NEW n \in Nat
        PROVE  (n < 16 => Len(HexNumber[n]) <= 1) /\ (n >= 1 => Len(HexNumber[n]) >= 1)
    <3>1. CASE n < 16
      <4>1. Len(HexNumber[n]) = 1
        BY <1>0, <3>1
      <4> QED
        BY <4>1
    <3>2. CASE n >= 16
      <4>1. PICK x \in Nat : Len(HexNumber[n]) = Len(HexNumber[x]) + 1 /\ Len(HexNumber[x]) \in Nat
        BY <3>2, HexNumberMore
      <4> QED
        BY <3>2, <4>1
    <3> QED
      BY <3>1, <3>2
  <2> QED
    BY <2>1, <2>2
<1>2. ASSUME NEW j \in Nat, j \in Good PROVE j + 1 \in Good
  <2>1. PICK p \in Nat \ {0} : p = SixteenTo(j) /\ SixteenTo(j + 1) = 16 * p
                               /\ SixteenTo((j + 1) + 1) = 16 * (16 * p)
    <3>1. SixteenTo(j) \in Nat \ {0} /\ SixteenTo(j + 1) = 16 * SixteenTo(j)
      BY Sixteens
    <3>2. j + 1 \in Nat
      OBVIOUS
    <3>3. SixteenTo((j + 1) + 1) = 16 * SixteenTo(j + 1)
      BY <3>2, Sixteens
    <3> QED
      BY <3>1, <3>3
  <2>2. ASSUME NEW n \in Nat
        PROVE  /\ n < 16 * (16 * p) => Len(HexNumber[n]) <= (j + 1) + 1
               /\ n >= 16 * p => Len(HexNumber[n]) >= (j + 1) + 1
    <3>1. CASE n < 16
      <4>1. Len(HexNumber[n]) = 1
        BY <1>0, <3>1
      <4>2. ~(n >= 16 * p)
        BY <3>1
      <4> QED
        BY <4>1, <4>2
    <3>2. CASE n >= 16
      <4>1. PICK x \in Nat, z \in 0..15 :
               /\ n = 16 * x + z
               /\ Len(HexNumber[n]) = Len(HexNumber[x]) + 1 /\ Len(HexNumber[x]) \in Nat
        BY <3>2, HexNumberMore
      <4>2. (x < 16 * p => Len(HexNumber[x]) <= j + 1) /\ (x >= p => Len(HexNumber[x]) >= j + 1)
        BY <1>2, <2>1
      <4>3. (n < 16 * (16 * p) => x < 16 * p) /\ (n >= 16 * p => x >= p)
        BY <4>1
      <4> QED
        BY <4>1, <4>2, <4>3
    <3> QED
      BY <3>1, <3>2
  <2> QED
    BY <2>1, <2>2
<1>3. Nat \subseteq Good
  <2> HIDE DEF Good
  <2> QED
    BY <1>1, <1>2, AllNumbers
<1> QED
  BY <1>3

\* An address has all digits, and without the last one all but one.
LEMMA AddressDigits ==
    ASSUME NEW address \in ADDRESS..(MODULUS - 1)
    PROVE  \E x \in Nat, z \in 0..15 :
              /\ x = address \div 16 /\ z = address % 16 /\ address = 16 * x + z
              /\ HexNumber[address] = Append(HexNumber[x], HexDigit(z))
              /\ Len(HexNumber[x]) = DIGITS - 1
<1>1. /\ MODULUS \in Nat \ {0} /\ ADDRESS \in Nat \ {0} /\ address \in Nat
      /\ DIGITS \in Nat \ {0, 1} /\ ADDRESS = SixteenTo(DIGITS - 1) /\ MODULUS = SixteenTo(DIGITS)
  BY CodecFacts
<1>2. PICK j \in Nat : j + 1 = DIGITS - 1 /\ (j + 1) + 1 = DIGITS
  <2>1. DIGITS - 2 \in Nat /\ (DIGITS - 2) + 1 = DIGITS - 1 /\ ((DIGITS - 2) + 1) + 1 = DIGITS
    BY <1>1
  <2> QED
    BY <2>1
<1>3. address >= SixteenTo(j + 1) /\ address < SixteenTo((j + 1) + 1) /\ j + 1 \in Nat
  BY <1>1, <1>2
<1>4. address >= 16
  <2>1. SixteenTo(j + 1) = 16 * SixteenTo(j) /\ SixteenTo(j) \in Nat \ {0}
    BY Sixteens
  <2>2. 16 * SixteenTo(j) >= 16
    BY <2>1
  <2> QED
    BY <1>1, <1>3, <2>1, <2>2
<1>5. Len(HexNumber[address]) >= (j + 1) + 1 /\ Len(HexNumber[address]) <= (j + 1) + 1
  BY <1>1, <1>3, HexNumberLength
<1>6. PICK x \in Nat, z \in 0..15 :
         /\ x = address \div 16 /\ z = address % 16 /\ address = 16 * x + z
         /\ HexNumber[address] = Append(HexNumber[x], HexDigit(z))
         /\ Len(HexNumber[address]) = Len(HexNumber[x]) + 1 /\ Len(HexNumber[x]) \in Nat
  BY <1>1, <1>4, HexNumberMore
<1>7. Len(HexNumber[x]) = DIGITS - 1
  BY <1>2, <1>5, <1>6
<1> QED
  BY <1>6, <1>7

\* A character that is not a letter or a digit has a worth too.
LEMMA ByteIsWorth ==
    ASSUME NEW c \in Byte
    PROVE  c \in Nat /\ Worth(c) \in Nat
  BY DEF Byte, Worth, IsDigit, IsUpper, IsLower

-------------------------------------------------------------------------------
(* Numbers and what ends them. *)

\* Read from the beginning of a number, a text that stands for n gives n.
LEMMA FieldReads ==
    ASSUME NEW t, NEW n \in 0..(MODULUS - 1), Spells(t, n), Len(t) < MAX_DIGITS,
           NEW vs \in Seq(Nat)
    PROVE  Reads(t, At(0, 0, vs), At(n, Len(t), vs))
<1>1. t \in Seq(Nat) /\ Len(t) \in Nat
  BY LenProperties DEF Spells
<1>2. MODULUS \in Nat \ {0} /\ SixteenTo(Len(t)) \in Nat
  BY <1>1, CodecFacts, Sixteens
<1>3. PICK s : s = At(0, 0, vs)
  OBVIOUS
<1>4. s \in Reading /\ s.acc = 0 /\ s.digits = 0 /\ s.values = vs
  <2>1. 0 \in 0..(MODULUS - 1)
    BY <1>2
  <2> QED
    BY <1>3, <2>1 DEF At, Reading
<1>5. s.acc * SixteenTo(Len(t)) + n = n /\ s.digits + Len(t) = Len(t)
  BY <1>1, <1>2, <1>4
<1>6. n % MODULUS = n
  BY <1>2, Small
<1>7. Reads(t, s, At((s.acc * SixteenTo(Len(t)) + n) % MODULUS, s.digits + Len(t), s.values))
  BY <1>4, <1>5 DEF Spells
<1> QED
  BY <1>3, <1>4, <1>5, <1>6, <1>7

\* A terminator returns the number and begins the next.
LEMMA EndReads ==
    ASSUME NEW c \in Terminators, NEW a \in 0..(MODULUS - 1), NEW d \in Nat, NEW vs \in Seq(Nat)
    PROVE  Reads(<<c>>, At(a, d, vs), At(0, 0, Append(vs, a)))
<1>1. c \in Nat /\ MODULUS \in Nat \ {0} /\ a \in Nat
  BY CodecFacts DEF Terminators, CarriageReturn, NewLine, Space
<1>2. Append(vs, a) \in Seq(Nat)
  BY <1>1, AppendProperties
<1>3. /\ At(a, d, vs) \in Reading /\ At(0, 0, Append(vs, a)) \in Reading
      /\ At(a, d, vs).acc = a /\ At(a, d, vs).values = vs
  <2>1. a < MODULUS /\ 0 < MODULUS /\ 0 \in Nat
    BY <1>1
  <2>2. At(a, d, vs) \in Reading /\ At(a, d, vs).acc = a /\ At(a, d, vs).values = vs
    BY DEF At, Reading
  <2>3. At(0, 0, Append(vs, a)) \in Reading
    BY <1>2, <2>1, AtIsReading, Zenon
  <2> QED
    BY <2>2, <2>3
<1>4. After(At(a, d, vs), c) = At(0, 0, Append(vs, a))
  BY <1>3 DEF After
<1> QED
  BY <1>1, <1>3, <1>4, ReadsOne

\* A number behind what was read before.
LEMMA NumberReads ==
    ASSUME NEW p, NEW s, NEW vs \in Seq(Nat), Reads(p, s, At(0, 0, vs)),
           NEW t, NEW n \in 0..(MODULUS - 1), Spells(t, n), Len(t) < MAX_DIGITS,
           NEW c \in Terminators
    PROVE  Reads((p \o t) \o <<c>>, s, At(0, 0, Append(vs, n)))
<1>1. Reads(t, At(0, 0, vs), At(n, Len(t), vs)) /\ Len(t) \in Nat
  BY FieldReads, LenProperties DEF Spells
<1>2. Reads(p \o t, s, At(n, Len(t), vs))
  BY <1>1, ReadsBoth
<1>3. Reads(<<c>>, At(n, Len(t), vs), At(0, 0, Append(vs, n)))
  BY <1>1, EndReads
<1> QED
  BY <1>2, <1>3, ReadsBoth

\* Whatever stands before a command is digits of something, if it ends no number.
LEMMA JunkSpells ==
    ASSUME NEW t \in Seq(Byte \ (Terminators \cup {Backspace}))
    PROVE  \E n \in Nat : Spells(t, n)
<1>1. t \in Seq(Nat) /\ Len(t) \in Nat
  <2>1. Byte \subseteq Nat
    BY DEF Byte
  <2>2. Byte \ (Terminators \cup {Backspace}) \subseteq Nat
    BY <2>1
  <2> QED
    BY <2>2, SeqMonotonic, LenProperties
<1> DEFINE Good == {k \in Nat : k <= Len(t) => \E n \in Nat : Spells(SubSeq(t, 1, k), n)}
<1>2. 0 \in Good
  <2>1. SubSeq(t, 1, 0) = <<>>
    BY SubSeqEmpty
  <2> QED
    BY <2>1, SpellsNothing
<1>3. ASSUME NEW k \in Nat, k \in Good PROVE k + 1 \in Good
  <2> SUFFICES ASSUME k + 1 <= Len(t) PROVE \E n \in Nat : Spells(SubSeq(t, 1, k + 1), n)
    OBVIOUS
  <2>1. PICK n \in Nat : Spells(SubSeq(t, 1, k), n)
    BY <1>1, <1>3
  <2>2. k + 1 \in 1..Len(t) /\ 1 \in 1..Len(t) /\ k + 1 \in 1..(k + 1) /\ (k + 1) - 1 = k
    BY <1>1
  <2>3. SubSeq(t, 1, k + 1) = SubSeq(t, 1, k) \o <<t[k + 1]>>
    <3>1. SubSeq(t, 1, k + 1) = SubSeq(t, 1, (k + 1) - 1) \o <<t[k + 1]>>
      BY <1>1, <2>2, SubSeqRecursiveSecond
    <3> QED
      BY <2>2, <3>1
  <2>4. PICK c \in Byte \ (Terminators \cup {Backspace}) : c = t[k + 1]
    BY <2>2, ElementOfSeq
  <2>5. Spells(<<c>>, Worth(c)) /\ Worth(c) \in Nat
    BY ByteIsWorth, SpellsDigit
  <2>6. Spells(SubSeq(t, 1, k) \o <<c>>, n * SixteenTo(Len(<<c>>)) + Worth(c))
    BY <2>1, <2>5, SpellsBoth
  <2>7. n * SixteenTo(Len(<<c>>)) + Worth(c) \in Nat
    <3>1. Len(<<c>>) \in Nat
      OBVIOUS
    <3>2. SixteenTo(Len(<<c>>)) \in Nat
      BY <3>1, Sixteens
    <3> QED
      BY <2>5, <3>2
  <2> QED
    BY <2>3, <2>4, <2>6, <2>7
<1>4. Nat \subseteq Good
  <2> HIDE DEF Good
  <2> QED
    BY <1>2, <1>3, AllNumbers
<1>5. SubSeq(t, 1, Len(t)) = t
  BY <1>1, SubSeqFull
<1>6. Len(t) \in Good
  BY <1>1, <1>4
<1>7. \E n \in Nat : Spells(SubSeq(t, 1, Len(t)), n)
  BY <1>1, <1>6
<1> QED
  BY <1>5, <1>7, Zenon

-------------------------------------------------------------------------------
(* Bytes and words. *)

\* What both uploaders do with a byte.
Encodes(encode) == \A c \in Byte : Spells(encode[c], c) /\ Len(encode[c]) = 2

LEMMA Zero == Spells(<<48>>, 0) /\ Len(<<48>>) = 1
<1>1. 48 \in Nat /\ 48 \notin Terminators /\ 48 # Backspace /\ Worth(48) = 0
  BY DEF Terminators, CarriageReturn, NewLine, Space, Backspace, Worth, IsDigit
<1> QED
  BY <1>1, SpellsDigit

\* A byte has one digit or two.
LEMMA ByteDigits ==
    ASSUME NEW c \in Byte
    PROVE  /\ c < 16 => Len(HexNumber[c]) = 1 /\ Len(<<48>> \o HexNumber[c]) = 2
           /\ c >= 16 => Len(HexNumber[c]) = 2
           /\ HexNumber[c] \in Seq(Nat)
           /\ Spells(HexNumber[c], c) /\ Spells(<<48>> \o HexNumber[c], c)
<1>1. c \in Nat /\ c <= 255
  BY DEF Byte
<1>2. ASSUME c < 16 PROVE Len(HexNumber[c]) = 1
  <2>1. HexNumber[c] = <<HexDigit(c)>>
    BY <1>1, <1>2, HexNumberIs
  <2> QED
    BY <2>1
<1>3. ASSUME c >= 16 PROVE Len(HexNumber[c]) = 2
  <2>1. PICK x \in Nat, z \in 0..15 : x = c \div 16 /\ z = c % 16 /\ c = 16 * x + z
    BY <1>1, <1>3, Smaller
  <2>2. x < 16
    BY <1>1, <2>1
  <2>3. HexNumber[x] = <<HexDigit(x)>>
    BY <2>2, HexNumberIs
  <2>4. HexNumber[c] = Append(<<HexDigit(x)>>, HexDigit(z))
    BY <1>1, <1>3, <2>1, <2>3, HexNumberIs
  <2> QED
    BY <2>4
<1>4. Spells(HexNumber[c], c) /\ HexNumber[c] \in Seq(Nat)
  BY <1>1, HexNumberSpells DEF Spells
<1>5. /\ Spells(<<48>> \o HexNumber[c], 0 * SixteenTo(Len(HexNumber[c])) + c)
      /\ Len(<<48>> \o HexNumber[c]) = 1 + Len(HexNumber[c])
  BY <1>1, <1>4, Zero, SpellsBoth
<1>6. 0 * SixteenTo(Len(HexNumber[c])) + c = c
  <2>1. SixteenTo(Len(HexNumber[c])) \in Nat
    BY <1>4, LenProperties, Sixteens
  <2> QED
    BY <1>1, <2>1
<1>7. c < 16 => Len(<<48>> \o HexNumber[c]) = 2
  <2> HAVE c < 16
  <2>1. Len(HexNumber[c]) = 1 /\ Len(<<48>> \o HexNumber[c]) = 1 + Len(HexNumber[c])
    BY <1>2, <1>5
  <2>2. 1 + 1 = 2
    OBVIOUS
  <2> QED
    BY <2>1, <2>2, Zenon
<1> QED
  BY <1>2, <1>3, <1>4, <1>5, <1>6, <1>7, Zenon

\* Both uploaders print a byte in two digits.
LEMMA BothEncode ==
    /\ Encodes([c \in Byte |-> charToHexString(c)])
    /\ Encodes([c \in Byte |-> byteToAsciiString(c)])
<1>1. ASSUME NEW c \in Byte PROVE Spells(charToHexString(c), c) /\ Len(charToHexString(c)) = 2
  <2>1. CASE c < 16
    <3>0. Len(HexNumber[c]) = 1
      BY <2>1, ByteDigits
    <3>1. 2 - Len(HexNumber[c]) = 1
      BY <3>0
    <3>2. [i \in 1..1 |-> 48] = <<48>>
      OBVIOUS
    <3>3. charToHexString(c) = <<48>> \o HexNumber[c]
      BY <3>1, <3>2, Zenon DEF charToHexString
    <3> QED
      BY <2>1, <3>3, ByteDigits, Zenon
  <2>2. CASE c >= 16
    <3>1. 2 - Len(HexNumber[c]) = 0
      BY <2>2, ByteDigits
    <3>2. [i \in 1..0 |-> 48] = <<>>
      OBVIOUS
    <3>3. charToHexString(c) = <<>> \o HexNumber[c]
      BY <3>1, <3>2, Zenon DEF charToHexString
    <3>4. charToHexString(c) = HexNumber[c]
      BY <3>3, ByteDigits, ConcatEmptySeq
    <3> QED
      BY <2>2, <3>4, ByteDigits
  <2> QED
    BY <2>1, <2>2 DEF Byte
<1>2. ASSUME NEW c \in Byte PROVE Spells(byteToAsciiString(c), c) /\ Len(byteToAsciiString(c)) = 2
  <2>1. CASE c <= 15
    <3>1. c < 16
      BY <2>1 DEF Byte
    <3>2. byteToAsciiString(c) = <<48>> \o HexNumber[c]
      BY <2>1, Zenon DEF byteToAsciiString
    <3> QED
      BY <3>1, <3>2, ByteDigits, Zenon
  <2>2. CASE ~(c <= 15)
    <3>1. c >= 16
      BY <2>2 DEF Byte
    <3>2. byteToAsciiString(c) = HexNumber[c]
      BY <2>2, ByteDigits, ConcatEmptySeq DEF byteToAsciiString
    <3> QED
      BY <3>1, <3>2, ByteDigits
  <2> QED
    BY <2>1, <2>2
<1> QED
  BY <1>1, <1>2 DEF Encodes

\* The definition of WordText holds,
LEMMA WordTextIs ==
    ASSUME NEW encode, Encodes(encode), NEW word \in [1..WORD_SIZE -> Byte]
    PROVE  \E f : /\ f[0] = <<>>
                  /\ \A j \in 1..WORD_SIZE : f[j] = encode[word[j]] \o f[j - 1]
                  /\ WordText(word, encode) = f[WORD_SIZE]
<1> DEFINE step == [p \in (1..WORD_SIZE) \X Seq(Nat) |-> encode[word[p[1]]] \o p[2]]
           Recursive(f) == f = [j \in 0..WORD_SIZE |->
                                   IF j = 0 THEN <<>> ELSE encode[word[j]] \o f[j - 1]]
           text_ == CHOOSE f : Recursive(f)
<1>1. WORD_SIZE \in Nat
  BY CodecFacts
<1>2. step \in [(1..WORD_SIZE) \X Seq(Nat) -> Seq(Nat)]
  <2>1. ASSUME NEW j \in 1..WORD_SIZE, NEW t \in Seq(Nat) PROVE encode[word[j]] \o t \in Seq(Nat)
    BY ConcatProperties DEF Encodes, Spells
  <2> QED
    BY <2>1
<1>3. <<>> \in Seq(Nat)
  OBVIOUS
<1>4. PICK f \in [0..WORD_SIZE -> Seq(Nat)] :
         f[0] = <<>> /\ \A j \in 1..WORD_SIZE : f[j] = step[<<j, f[j - 1]>>]
  <2>1. <<>> \in Seq(Nat)
    OBVIOUS
  <2> HIDE DEF step
  <2>2. \E f : Solves(f, WORD_SIZE, Seq(Nat), <<>>, step)
    BY <1>1, <1>2, <2>1, Recursion, Zenon
  <2> QED
    BY <2>2, Zenon DEF Solves
<1>5. \A j \in 1..WORD_SIZE : f[j] = encode[word[j]] \o f[j - 1]
  <2> TAKE j \in 1..WORD_SIZE
  <2>1. f[j - 1] \in Seq(Nat)
    BY <1>1
  <2> QED
    BY <1>4, <2>1
<1>6. Recursive(f)
  <2>1. f = [j \in 0..WORD_SIZE |-> f[j]]
    OBVIOUS
  <2>2. ASSUME NEW j \in 0..WORD_SIZE
        PROVE  f[j] = IF j = 0 THEN <<>> ELSE encode[word[j]] \o f[j - 1]
    <3>1. j # 0 => j \in 1..WORD_SIZE
      BY <1>1
    <3> QED
      BY <1>4, <1>5, <3>1, Zenon
  <2> QED
    BY <2>1, <2>2
<1>7. Recursive(text_)
  <2> HIDE DEF Recursive
  <2> QED
    BY <1>6
<1>8. WordText(word, encode) = text_[WORD_SIZE]
  BY DEF WordText
<1> HIDE DEF text_
<1>9. text_[0] = <<>> /\ \A j \in 1..WORD_SIZE : text_[j] = encode[word[j]] \o text_[j - 1]
  <2>1. ASSUME NEW j \in 0..WORD_SIZE
        PROVE  text_[j] = IF j = 0 THEN <<>> ELSE encode[word[j]] \o text_[j - 1]
    BY <1>7, Zenon
  <2>2. 0 \in 0..WORD_SIZE /\ \A j \in 1..WORD_SIZE : j \in 0..WORD_SIZE /\ j # 0
    BY <1>1
  <2> QED
    BY <2>1, <2>2, Zenon
<1> QED
  BY <1>8, <1>9

\* and that of WordValue:
LEMMA WordValueIs ==
    ASSUME NEW word \in [1..WORD_SIZE -> Byte]
    PROVE  \E f : /\ f[0] = 0
                  /\ \A j \in 1..WORD_SIZE : f[j] = f[j - 1] + word[j] * SixteenTo(2 * (j - 1))
                  /\ WordValue(word) = f[WORD_SIZE]
<1> DEFINE step == [p \in (1..WORD_SIZE) \X Nat |-> p[2] + word[p[1]] * SixteenTo(2 * (p[1] - 1))]
           Recursive(f) == f = [j \in 0..WORD_SIZE |->
                                   IF j = 0 THEN 0 ELSE f[j - 1] + word[j] * 2^(8 * (j - 1))]
           value_ == CHOOSE f : Recursive(f)
<1>1. WORD_SIZE \in Nat
  BY CodecFacts
<1>2. step \in [(1..WORD_SIZE) \X Nat -> Nat]
  <2>1. ASSUME NEW j \in 1..WORD_SIZE, NEW n \in Nat
        PROVE  n + word[j] * SixteenTo(2 * (j - 1)) \in Nat
    <3>1. 2 * (j - 1) \in Nat /\ word[j] \in Nat
      <4>1. word[j] \in Byte
        OBVIOUS
      <4>2. Byte \subseteq Nat
        BY DEF Byte
      <4>3. 2 * (j - 1) \in Nat
        BY <1>1
      <4> QED
        BY <4>1, <4>2, <4>3
    <3>2. SixteenTo(2 * (j - 1)) \in Nat
      BY <3>1, Sixteens
    <3> QED
      BY <3>1, <3>2
  <2> QED
    BY <2>1
<1>3. PICK f \in [0..WORD_SIZE -> Nat] :
         f[0] = 0 /\ \A j \in 1..WORD_SIZE : f[j] = step[<<j, f[j - 1]>>]
  <2>1. 0 \in Nat
    OBVIOUS
  <2> HIDE DEF step
  <2>2. \E f : Solves(f, WORD_SIZE, Nat, 0, step)
    BY <1>1, <1>2, <2>1, Recursion, Zenon
  <2> QED
    BY <2>2, Zenon DEF Solves
<1>4. \A j \in 1..WORD_SIZE : f[j] = f[j - 1] + word[j] * SixteenTo(2 * (j - 1))
  <2> TAKE j \in 1..WORD_SIZE
  <2>1. f[j - 1] \in Nat
    BY <1>1
  <2> QED
    BY <1>3, <2>1
<1>5. \A j \in 1..WORD_SIZE : SixteenTo(2 * (j - 1)) = 2^(8 * (j - 1))
  <2> TAKE j \in 1..WORD_SIZE
  <2>1. 4 * (2 * (j - 1)) = 8 * (j - 1)
    BY <1>1
  <2> QED
    BY <2>1 DEF SixteenTo
<1>6. Recursive(f)
  <2>1. f = [j \in 0..WORD_SIZE |-> f[j]]
    OBVIOUS
  <2>2. ASSUME NEW j \in 0..WORD_SIZE
        PROVE  f[j] = IF j = 0 THEN 0 ELSE f[j - 1] + word[j] * 2^(8 * (j - 1))
    <3>1. j # 0 => j \in 1..WORD_SIZE
      BY <1>1
    <3> QED
      BY <1>3, <1>4, <1>5, <3>1, Zenon
  <2> QED
    BY <2>1, <2>2
<1>7. Recursive(value_)
  <2> HIDE DEF Recursive
  <2> QED
    BY <1>6
<1>8. WordValue(word) = value_[WORD_SIZE]
  BY DEF WordValue
<1> HIDE DEF value_
<1>9. value_[0] = 0 /\ \A j \in 1..WORD_SIZE : value_[j] = value_[j - 1] + word[j] * 2^(8 * (j - 1))
  <2>1. ASSUME NEW j \in 0..WORD_SIZE
        PROVE  value_[j] = IF j = 0 THEN 0 ELSE value_[j - 1] + word[j] * 2^(8 * (j - 1))
    BY <1>7, Zenon
  <2>2. 0 \in 0..WORD_SIZE /\ \A j \in 1..WORD_SIZE : j \in 0..WORD_SIZE /\ j # 0
    BY <1>1
  <2> QED
    BY <2>1, <2>2, Zenon
<1>10. \A j \in 1..WORD_SIZE : value_[j] = value_[j - 1] + word[j] * SixteenTo(2 * (j - 1))
  BY <1>9, <1>5
<1> QED
  BY <1>8, <1>9, <1>10

\* the text of a word, its bytes in reverse, stands for its little-endian value.
LEMMA WordSpells ==
    ASSUME NEW encode, Encodes(encode), NEW word \in [1..WORD_SIZE -> Byte]
    PROVE  /\ Spells(WordText(word, encode), WordValue(word))
           /\ Len(WordText(word, encode)) = DIGITS
           /\ WordValue(word) \in 0..(MODULUS - 1)
<1>1. WORD_SIZE \in Nat /\ DIGITS = 2 * WORD_SIZE /\ MODULUS = SixteenTo(DIGITS)
  BY CodecFacts
<1>2. PICK f : /\ f[0] = <<>>
               /\ \A j \in 1..WORD_SIZE : f[j] = encode[word[j]] \o f[j - 1]
               /\ WordText(word, encode) = f[WORD_SIZE]
  BY WordTextIs
<1>3. PICK g : /\ g[0] = 0
               /\ \A j \in 1..WORD_SIZE : g[j] = g[j - 1] + word[j] * SixteenTo(2 * (j - 1))
               /\ WordValue(word) = g[WORD_SIZE]
  BY WordValueIs
<1> DEFINE Good == {j \in Nat : j <= WORD_SIZE => /\ Spells(f[j], g[j]) /\ Len(f[j]) = 2 * j
                                                  /\ g[j] \in Nat /\ g[j] < SixteenTo(2 * j)}
<1>4. 0 \in Good
  <2>1. Spells(f[0], g[0]) /\ Len(f[0]) = 2 * 0
    BY <1>2, <1>3, SpellsNothing
  <2>2. g[0] \in Nat /\ g[0] < SixteenTo(2 * 0)
    BY <1>3, Sixteens
  <2> QED
    BY <2>1, <2>2
<1>5. ASSUME NEW j \in Nat, j \in Good PROVE j + 1 \in Good
  <2> DEFINE k == j + 1
  <2> SUFFICES ASSUME k <= WORD_SIZE
               PROVE  /\ Spells(f[k], g[k]) /\ Len(f[k]) = 2 * k
                      /\ g[k] \in Nat /\ g[k] < SixteenTo(2 * k)
    OBVIOUS
  <2>1. k \in 1..WORD_SIZE /\ k - 1 = j /\ j <= WORD_SIZE
    BY <1>1
  <2>2. f[k] = encode[word[k]] \o f[j] /\ g[k] = g[j] + word[k] * SixteenTo(2 * j)
    BY <1>2, <1>3, <2>1
  <2>3. Spells(f[j], g[j]) /\ Len(f[j]) = 2 * j /\ g[j] \in Nat /\ g[j] < SixteenTo(2 * j)
    BY <1>5, <2>1
  <2>4. PICK c \in Byte : c = word[k]
    BY <2>1
  <2>5. Spells(encode[c], c) /\ Len(encode[c]) = 2 /\ c \in Nat /\ c <= 255
    <3>1. Spells(encode[c], c) /\ Len(encode[c]) = 2
      BY DEF Encodes
    <3>2. c \in Nat /\ c <= 255
      BY DEF Byte
    <3> QED
      BY <3>1, <3>2
  <2>6. Spells(encode[c] \o f[j], c * SixteenTo(2 * j) + g[j]) /\ Len(encode[c] \o f[j]) = 2 + 2 * j
    BY <2>3, <2>5, SpellsBoth
  <2>7. PICK p \in Nat \ {0} : p = SixteenTo(2 * j) /\ SixteenTo(2 * k) = 16 * (16 * p)
    <3>1. PICK i \in Nat : i = 2 * j /\ (i + 1) + 1 = 2 * k
      OBVIOUS
    <3>2. SixteenTo(i) \in Nat \ {0} /\ SixteenTo(i + 1) = 16 * SixteenTo(i)
      BY Sixteens
    <3>3. i + 1 \in Nat
      OBVIOUS
    <3>4. SixteenTo((i + 1) + 1) = 16 * SixteenTo(i + 1)
      BY <3>3, Sixteens
    <3> QED
      BY <3>1, <3>2, <3>4
  <2>8. g[k] = c * p + g[j]
    <3>1. g[k] = g[j] + c * p
      BY <2>2, <2>4, <2>7, Zenon
    <3>2. c * p \in Nat
      BY <2>5
    <3> QED
      BY <2>3, <3>1, <3>2
  <2>9. g[k] \in Nat /\ g[k] < 256 * p
    <3>1. g[j] < p /\ c * p <= 255 * p
      BY <2>3, <2>5, <2>7
    <3>2. c * p \in Nat
      BY <2>5
    <3> QED
      BY <2>3, <2>8, <3>1, <3>2
  <2>10. 2 + 2 * j = 2 * k
    OBVIOUS
  <2>11. Spells(f[k], g[k]) /\ Len(f[k]) = 2 * k
    BY <2>2, <2>4, <2>6, <2>7, <2>8, <2>10
  <2>12. g[k] < SixteenTo(2 * k)
    BY <2>7, <2>9
  <2> QED
    BY <2>9, <2>11, <2>12
<1>6. Nat \subseteq Good
  <2> HIDE DEF Good
  <2> QED
    BY <1>4, <1>5, AllNumbers
<1>7. /\ Spells(f[WORD_SIZE], g[WORD_SIZE]) /\ Len(f[WORD_SIZE]) = 2 * WORD_SIZE
      /\ g[WORD_SIZE] \in Nat /\ g[WORD_SIZE] < SixteenTo(2 * WORD_SIZE)
  BY <1>1, <1>6
<1>8. MODULUS \in Nat
  BY CodecFacts
<1> QED
  BY <1>1, <1>2, <1>3, <1>7, <1>8

\* The numbers that n words stand for.
WordValues(words, n) == [i \in 1..n |-> WordValue(words[i])]

\* The definition of WordsText holds.
LEMMA WordsTextIs ==
    ASSUME NEW encode, Encodes(encode), NEW n \in Nat,
           NEW words \in [1..n -> [1..WORD_SIZE -> Byte]]
    PROVE  \E f : /\ f[0] = <<>>
                  /\ \A i \in 1..n : f[i] = f[i - 1] \o WordText(words[i], encode)
                                                \o <<IF i < n THEN Space ELSE CarriageReturn>>
                  /\ WordsText(words, encode) = f[n]
<1> DEFINE last(i) == <<IF i < n THEN Space ELSE CarriageReturn>>
           step == [p \in (1..n) \X Seq(Nat) |-> p[2] \o WordText(words[p[1]], encode) \o last(p[1])]
           Recursive(f) == f = [i \in 0..Len(words) |->
                                   IF i = 0 THEN <<>>
                                   ELSE f[i - 1] \o WordText(words[i], encode)
                                            \o <<IF i < Len(words) THEN Space ELSE CarriageReturn>>]
           text_ == CHOOSE f : Recursive(f)
<1>1. Len(words) = n
  OBVIOUS
<1>2. step \in [(1..n) \X Seq(Nat) -> Seq(Nat)]
  <2>1. ASSUME NEW i \in 1..n, NEW t \in Seq(Nat)
        PROVE  t \o WordText(words[i], encode) \o last(i) \in Seq(Nat)
    <3>1. WordText(words[i], encode) \in Seq(Nat)
      <4>1. words[i] \in [1..WORD_SIZE -> Byte]
        OBVIOUS
      <4> QED
        BY <4>1, WordSpells DEF Spells
    <3>2. last(i) \in Seq(Nat)
      BY DEF Space, CarriageReturn
    <3>3. t \o WordText(words[i], encode) \in Seq(Nat)
      BY <3>1, ConcatProperties
    <3> QED
      BY <3>2, <3>3, ConcatProperties
  <2> HIDE DEF last
  <2> QED
    BY <2>1
<1>3. PICK f : Solves(f, n, Seq(Nat), <<>>, step)
  <2>1. <<>> \in Seq(Nat)
    OBVIOUS
  <2> HIDE DEF step
  <2>2. \E f : Solves(f, n, Seq(Nat), <<>>, step)
    BY <1>2, <2>1, Recursion, Zenon
  <2> QED
    BY <2>2, Zenon
<1>4. /\ f \in [0..n -> Seq(Nat)] /\ f[0] = <<>>
      /\ \A i \in 1..n : f[i] = step[<<i, f[i - 1]>>]
  BY <1>3, Zenon DEF Solves
<1>5. \A i \in 1..n : f[i] = f[i - 1] \o WordText(words[i], encode) \o last(i)
  <2> TAKE i \in 1..n
  <2>1. f[i - 1] \in Seq(Nat)
    BY <1>4
  <2> HIDE DEF last
  <2> QED
    BY <1>4, <2>1
<1>6. Recursive(f)
  <2>1. f = [i \in 0..n |-> f[i]]
    BY <1>4
  <2>2. ASSUME NEW i \in 0..n
        PROVE  f[i] = IF i = 0 THEN <<>> ELSE f[i - 1] \o WordText(words[i], encode) \o last(i)
    <3>1. i # 0 => i \in 1..n
      OBVIOUS
    <3> QED
      BY <1>4, <1>5, <3>1, Zenon
  <2> QED
    BY <1>1, <2>1, <2>2
<1>7. Recursive(text_)
  <2> HIDE DEF Recursive
  <2> QED
    BY <1>6
<1>8. WordsText(words, encode) = text_[Len(words)]
  BY DEF WordsText
<1> HIDE DEF text_
<1>9. /\ text_[0] = <<>>
      /\ \A i \in 1..n : text_[i] = text_[i - 1] \o WordText(words[i], encode) \o last(i)
  <2>1. ASSUME NEW i \in 0..n
        PROVE  text_[i] = IF i = 0 THEN <<>> ELSE text_[i - 1] \o WordText(words[i], encode) \o last(i)
    BY <1>1, <1>7, Zenon
  <2>2. 0 \in 0..n /\ \A i \in 1..n : i \in 0..n /\ i # 0
    OBVIOUS
  <2> QED
    BY <2>1, <2>2, Zenon
<1> QED
  BY <1>1, <1>8, <1>9

LEMMA Associates ==
    ASSUME NEW x \in Seq(Nat), NEW y \in Seq(Nat), NEW z \in Seq(Nat)
    PROVE  (x \o y) \o z = x \o (y \o z)
<1>1. ASSUME NEW S PROVE \A t, u, v \in Seq(S) : (t \o u) \o v = t \o (u \o v)
  BY ConcatAssociative, SMTT(30)
<1> QED
  BY <1>1, SMTT(30)

LEMMA WordValuesMore ==
    ASSUME NEW vs \in Seq(Nat), NEW words, NEW n \in Nat, NEW i \in Nat, i + 1 <= n,
           \A j \in 1..n : WordValue(words[j]) \in Nat
    PROVE  /\ vs \o WordValues(words, i) \in Seq(Nat)
           /\ Append(vs \o WordValues(words, i), WordValue(words[i + 1])) = vs \o WordValues(words, i + 1)
<1>1. PICK v \in Nat : v = WordValue(words[i + 1])
  OBVIOUS
<1>2. /\ WordValues(words, i) \in Seq(Nat) /\ Len(WordValues(words, i)) = i
      /\ WordValues(words, i + 1) \in Seq(Nat) /\ Len(WordValues(words, i + 1)) = i + 1
      /\ WordValues(words, i + 1)[i + 1] = v
      /\ \A j \in 1..i : WordValues(words, i + 1)[j] = WordValues(words, i)[j]
  BY <1>1 DEF WordValues
<1>3. Append(WordValues(words, i), v) = WordValues(words, i + 1)
  <2>1. /\ Append(WordValues(words, i), v) \in Seq(Nat)
        /\ Len(Append(WordValues(words, i), v)) = i + 1
        /\ \A j \in 1..i : Append(WordValues(words, i), v)[j] = WordValues(words, i)[j]
        /\ Append(WordValues(words, i), v)[i + 1] = v
    BY <1>2, AppendProperties
  <2>2. ASSUME NEW j \in 1..(i + 1)
        PROVE  Append(WordValues(words, i), v)[j] = WordValues(words, i + 1)[j]
    BY <1>2, <2>1
  <2> QED
    BY <1>2, <2>1, <2>2, SeqEqual
<1>4. vs \o WordValues(words, i) \in Seq(Nat)
  BY <1>2, ConcatProperties
<1>5. Append(vs \o WordValues(words, i), v) = (vs \o WordValues(words, i)) \o <<v>>
  BY <1>4, AppendIsConcat
<1>6. Append(WordValues(words, i), v) = WordValues(words, i) \o <<v>>
  BY <1>2, AppendIsConcat
<1>7. (vs \o WordValues(words, i)) \o <<v>> = vs \o (WordValues(words, i) \o <<v>>)
  <2>1. PICK t \in Seq(Nat) : t = WordValues(words, i)
    BY <1>2, Zenon
  <2>2. PICK u \in Seq(Nat) : u = <<v>>
    <3>1. <<v>> \in Seq(Nat)
      OBVIOUS
    <3> QED
      BY <3>1, Zenon
  <2>3. (vs \o t) \o u = vs \o (t \o u)
    BY Associates, SMTT(30)
  <2> QED
    BY <2>1, <2>2, <2>3, Zenon
<1> QED
  BY <1>1, <1>3, <1>4, <1>5, <1>6, <1>7, Zenon

\* The words of a command are read as their values.
LEMMA WordsRead ==
    ASSUME NEW encode, Encodes(encode), NEW n \in Nat,
           NEW words \in [1..n -> [1..WORD_SIZE -> Byte]], NEW vs \in Seq(Nat)
    PROVE  Reads(WordsText(words, encode), At(0, 0, vs), At(0, 0, vs \o WordValues(words, n)))
<1>1. PICK f : /\ f[0] = <<>>
               /\ \A i \in 1..n : f[i] = f[i - 1] \o WordText(words[i], encode)
                                             \o <<IF i < n THEN Space ELSE CarriageReturn>>
               /\ WordsText(words, encode) = f[n]
  BY WordsTextIs
<1>2. \A i \in 1..n : /\ Spells(WordText(words[i], encode), WordValue(words[i]))
                      /\ Len(WordText(words[i], encode)) < MAX_DIGITS
                      /\ WordValue(words[i]) \in 0..(MODULUS - 1) /\ WordValue(words[i]) \in Nat
  <2> TAKE i \in 1..n
  <2>1. words[i] \in [1..WORD_SIZE -> Byte]
    OBVIOUS
  <2>2. /\ Spells(WordText(words[i], encode), WordValue(words[i]))
        /\ Len(WordText(words[i], encode)) = DIGITS
        /\ WordValue(words[i]) \in 0..(MODULUS - 1)
    BY <2>1, WordSpells
  <2>3. DIGITS < MAX_DIGITS /\ MODULUS \in Nat
    BY CodecFacts
  <2> QED
    BY <2>2, <2>3
<1> DEFINE Good == {i \in Nat : i <= n => Reads(f[i], At(0, 0, vs), At(0, 0, vs \o WordValues(words, i)))}
<1>3. 0 \in Good
  <2>1. WordValues(words, 0) = <<>>
    BY DEF WordValues
  <2>2. vs \o WordValues(words, 0) = vs
    BY <2>1, ConcatEmptySeq
  <2>3. At(0, 0, vs) \in Reading
    BY CodecFacts DEF At, Reading
  <2> QED
    BY <1>1, <2>2, <2>3, ReadsNothing
<1>4. ASSUME NEW i \in Nat, i \in Good PROVE i + 1 \in Good
  <2> SUFFICES ASSUME i + 1 <= n
               PROVE  Reads(f[i + 1], At(0, 0, vs), At(0, 0, vs \o WordValues(words, i + 1)))
    OBVIOUS
  <2>1. PICK k \in 1..n : k = i + 1 /\ k - 1 = i
    OBVIOUS
  <2>2. Reads(f[i], At(0, 0, vs), At(0, 0, vs \o WordValues(words, i)))
    BY <1>4
  <2>3. PICK c \in Terminators : c = IF k < n THEN Space ELSE CarriageReturn
    BY DEF Terminators
  <2>4. f[k] = (f[i] \o WordText(words[k], encode)) \o <<c>>
    BY <1>1, <2>1, <2>3
  <2>5. /\ vs \o WordValues(words, i) \in Seq(Nat)
        /\ Append(vs \o WordValues(words, i), WordValue(words[i + 1])) = vs \o WordValues(words, i + 1)
    BY <1>2, WordValuesMore
  <2>6. Reads((f[i] \o WordText(words[k], encode)) \o <<c>>, At(0, 0, vs),
              At(0, 0, Append(vs \o WordValues(words, i), WordValue(words[k]))))
    BY <1>2, <2>2, <2>5, NumberReads
  <2> QED
    BY <2>1, <2>4, <2>5, <2>6, Zenon
<1>5. Nat \subseteq Good
  <2> HIDE DEF Good
  <2> QED
    BY <1>3, <1>4, AllNumbers
<1>6. Reads(f[n], At(0, 0, vs), At(0, 0, vs \o WordValues(words, n)))
  BY <1>5
<1> QED
  BY <1>1, <1>6, Zenon

-------------------------------------------------------------------------------
(* Commands, printed numbers, and a digit that is taken back. *)

LEMMA AppendPair ==
    ASSUME NEW x \in Nat, NEW y \in Nat
    PROVE  Append(<<x>>, y) = <<x, y>>
<1>1. /\ Append(<<x>>, y) \in Seq(Nat) /\ Len(Append(<<x>>, y)) = 2
      /\ Append(<<x>>, y)[1] = x /\ Append(<<x>>, y)[2] = y
  OBVIOUS
<1>2. <<x, y>> \in Seq(Nat) /\ Len(<<x, y>>) = 2 /\ <<x, y>>[1] = x /\ <<x, y>>[2] = y
  OBVIOUS
<1>3. ASSUME NEW i \in 1..2 PROVE Append(<<x>>, y)[i] = <<x, y>>[i]
  <2>1. i = 1 \/ i = 2
    OBVIOUS
  <2> QED
    BY <1>1, <1>2, <2>1
<1> QED
  BY <1>1, <1>2, <1>3, SeqEqual

\* Where reading begins.
LEMMA Beginning ==
    \E s \in Reading : s = At(0, 0, <<>>) /\ s.acc = 0 /\ s.digits = 0 /\ s.values = <<>>
<1>1. 0 \in 0..(MODULUS - 1) /\ 0 \in Nat /\ <<>> \in Seq(Nat)
  BY CodecFacts
<1>2. PICK s : s = At(0, 0, <<>>)
  OBVIOUS
<1>3. s \in Reading /\ s.acc = 0 /\ s.digits = 0 /\ s.values = <<>>
  BY <1>1, <1>2 DEF At, Reading
<1> QED
  BY <1>2, <1>3

\* Text that fills a number up: its last digit returns the number.
LEMMA FillsUp ==
    ASSUME NEW t, NEW m \in Nat, Spells(t, m),
           NEW c \in Nat, c \notin Terminators, c # Backspace, Worth(c) \in Nat,
           Len(t) + 1 = MAX_DIGITS
    PROVE  Reads(Append(t, c), At(0, 0, <<>>), At(0, 0, <<(16 * m + Worth(c)) % MODULUS>>))
<1>1. MODULUS \in Nat \ {0} /\ t \in Seq(Nat) /\ Len(t) \in Nat /\ <<>> \in Seq(Nat)
  BY CodecFacts, LenProperties DEF Spells
<1>2. PICK k \in Nat, p \in Nat : k = Len(t) /\ p = SixteenTo(k) /\ k < MAX_DIGITS
  <2>1. SixteenTo(Len(t)) \in Nat
    BY <1>1, Sixteens
  <2>2. Len(t) < MAX_DIGITS
    BY <1>1
  <2> QED
    BY <1>1, <2>1, <2>2
<1>3. PICK x \in 0..(MODULUS - 1) : x = m % MODULUS
  BY <1>1
<1>4. Reads(t, At(0, 0, <<>>), At(x, k, <<>>))
  <2>1. PICK s \in Reading : s = At(0, 0, <<>>) /\ s.acc = 0 /\ s.digits = 0 /\ s.values = <<>>
    BY Beginning
  <2>2. s.acc * p + m = m /\ s.digits + k = k
    BY <2>1
  <2> QED
    BY <1>2, <1>3, <2>1, <2>2 DEF Spells
<1>5. PICK v \in 0..(MODULUS - 1) : v = (16 * m + Worth(c)) % MODULUS
  BY <1>1
<1>6. (x * 16 + Worth(c)) % MODULUS = v
  <2>1. ShiftsIn(MODULUS, m, 16, Worth(c))
    BY <1>1, ShiftIn
  <2>2. m * 16 = 16 * m
    OBVIOUS
  <2> QED
    BY <1>3, <1>5, <2>1, <2>2 DEF ShiftsIn
<1>7. Append(<<>>, v) = <<v>> /\ <<v>> \in Seq(Nat)
  BY <1>1
<1>8. At(x, k, <<>>) \in Reading /\ At(0, 0, <<v>>) \in Reading
  <2>1. 0 \in 0..(MODULUS - 1)
    BY <1>1
  <2> QED
    BY <1>1, <1>7, <2>1 DEF At, Reading
<1>9. After(At(x, k, <<>>), c) = At(0, 0, <<v>>)
  <2>1. /\ At(x, k, <<>>).acc = x /\ At(x, k, <<>>).digits = k /\ At(x, k, <<>>).values = <<>>
    BY DEF At
  <2>2. k + 1 = MAX_DIGITS
    BY <1>2
  <2> QED
    BY <1>6, <1>7, <2>1, <2>2 DEF After, Counted
<1>10. Reads(<<c>>, At(x, k, <<>>), At(0, 0, <<v>>))
  BY <1>8, <1>9, ReadsOne
<1>11. Reads(t \o <<c>>, At(0, 0, <<>>), At(0, 0, <<v>>))
  BY <1>4, <1>10, ReadsBoth
<1>12. Append(t, c) = t \o <<c>>
  BY <1>1, AppendIsConcat
<1> QED
  BY <1>5, <1>11, <1>12, Zenon

\* The address is read as AddressRead says: the letter w is worth two digits,
\* so that the digits of the address, all but one if need be, shift it and
\* what stands before it out of the number.
LEMMA AddressReads ==
    ASSUME NEW address \in ADDRESS..(MODULUS - 1),
           NEW junk \in Seq(Byte \ (Terminators \cup {Backspace})),
           Len(junk) + DIGITS <= MAX_DIGITS
    PROVE  Reads(((junk \o <<LetterW>>) \o HexNumber[address]) \o <<Space>>, At(0, 0, <<>>),
                 At(0, 0, AddressRead(address, Len(junk) + 1)))
<1>1. PICK a \in Nat : Spells(junk, a)
  BY JunkSpells
<1>2. /\ MODULUS \in Nat \ {0} /\ ADDRESS \in Nat \ {0} /\ MODULUS = 16 * ADDRESS
      /\ DIGITS \in Nat \ {0, 1} /\ MAX_DIGITS \in Nat /\ DIGITS < MAX_DIGITS
      /\ ADDRESS = SixteenTo(DIGITS - 1) /\ address \in Nat /\ <<>> \in Seq(Nat)
      /\ address \in 0..(MODULUS - 1)
  BY CodecFacts
<1>3. PICK m \in Nat : m = Len(junk)
  BY LenProperties
<1>4. PICK x \in Nat, z \in 0..15 :
         /\ x = address \div 16 /\ z = address % 16 /\ address = 16 * x + z
         /\ HexNumber[address] = Append(HexNumber[x], HexDigit(z))
         /\ Len(HexNumber[x]) = DIGITS - 1
  BY AddressDigits
<1>40. x = address \div 16 /\ z = address % 16 /\ address = 16 * x + z
  BY <1>4, Zenon
<1>41. Len(HexNumber[x]) = DIGITS - 1
  BY <1>4, Zenon
<1>42. address = 16 * x + z
  BY <1>4, Zenon
<1>5. PICK c \in Nat : c = HexDigit(z) /\ c \notin Terminators /\ c # Backspace /\ Worth(c) = z
  BY DigitsAreWorth
\* The text without the last digit of the address.
<1>6. PICK lead : lead = junk \o <<LetterW>> /\ Spells(lead, 16 * (a + 2)) /\ Len(lead) = m + 1
  <2>1. LetterW \in Nat /\ LetterW \notin Terminators /\ LetterW # Backspace /\ Worth(LetterW) = 32
    BY DEF LetterW, Terminators, CarriageReturn, NewLine, Space, Backspace, Worth, IsDigit,
           IsUpper, IsLower
  <2>2. Spells(Append(junk, LetterW), 16 * a + 32) /\ Len(Append(junk, LetterW)) = m + 1
    BY <1>1, <1>3, <2>1, SpellsMore
  <2>3. 16 * a + 32 = 16 * (a + 2)
    OBVIOUS
  <2>4. Append(junk, LetterW) = junk \o <<LetterW>>
    BY <1>1, <2>1, AppendIsConcat DEF Spells
  <2> QED
    BY <2>2, <2>3, <2>4
<1>7. PICK b \in Nat : b = a + 2
  OBVIOUS
<1>80. (16 * b) * ADDRESS + x \in Nat
  <2>1. 16 * b \in Nat /\ ADDRESS \in Nat
    BY <1>2
  <2>2. \A i, j \in Nat : i * j \in Nat
    OBVIOUS
  <2>3. (16 * b) * ADDRESS \in Nat
    BY <2>1, <2>2, Zenon
  <2>4. \A i, j \in Nat : i + j \in Nat
    OBVIOUS
  <2> QED
    BY <2>3, <2>4, Zenon
<1>8. PICK U \in Nat : U = (16 * b) * ADDRESS + x
  BY <1>80, Zenon
<1>9. U = MODULUS * b + x /\ 16 * U + z = MODULUS * (16 * b) + address
  <2>1. (16 * b) * ADDRESS = (16 * ADDRESS) * b
    BY <1>2
  <2>2. 16 * (MODULUS * b) = MODULUS * (16 * b)
    BY <1>2
  <2>3. U = MODULUS * b + x
    BY <1>2, <1>8, <2>1
  <2>4. PICK y \in Nat, w \in Nat : y = MODULUS * b /\ w = MODULUS * (16 * b) /\ w = 16 * y
    BY <1>2, <2>2
  <2>5. U = y + x
    BY <2>3, <2>4, Zenon
  <2>6. w = 16 * y
    BY <2>4, Zenon
  <2>7. 16 * U + z = w + address
    BY <1>42, <2>5, <2>6
  <2> QED
    BY <2>3, <2>4, <2>7, Zenon
<1>10. U % MODULUS = x /\ (16 * U + z) % MODULUS = address
  <2>1. x \in 0..(MODULUS - 1)
    BY <1>2, <1>40
  <2>0. \A q, y \in Nat : (MODULUS * q + y) % MODULUS = y % MODULUS
    BY <1>2, Multiples
  <2>2. (MODULUS * b + x) % MODULUS = x % MODULUS
    BY <2>0
  <2>3. (MODULUS * (16 * b) + address) % MODULUS = address % MODULUS
    <3>1. PICK q \in Nat : q = 16 * b
      OBVIOUS
    <3>2. (MODULUS * q + address) % MODULUS = address % MODULUS
      BY <1>2, <2>0
    <3> QED
      BY <3>1, <3>2
  <2>4. x % MODULUS = x /\ address % MODULUS = address
    BY <1>2, <2>1, Small
  <2> QED
    BY <1>9, <2>2, <2>3, <2>4
<1>11. PICK u : /\ u = lead \o HexNumber[x] /\ Spells(u, U) /\ Len(u) = m + DIGITS
                /\ lead \o HexNumber[address] = Append(u, c)
  <2>1. Spells(HexNumber[x], x)
    BY HexNumberSpells
  <2>2. 16 * (a + 2) \in Nat
    OBVIOUS
  <2>3. /\ Spells(lead \o HexNumber[x], 16 * (a + 2) * SixteenTo(Len(HexNumber[x])) + x)
        /\ Len(lead \o HexNumber[x]) = Len(lead) + Len(HexNumber[x])
    BY <1>6, <2>1, <2>2, SpellsBoth
  <2>4. 16 * (a + 2) * SixteenTo(Len(HexNumber[x])) + x = U
    BY <1>41, <1>2, <1>7, <1>8
  <2>5. (m + 1) + (DIGITS - 1) = m + DIGITS
    BY <1>2
  <2>6. lead \o Append(HexNumber[x], c) = Append(lead \o HexNumber[x], c)
    <3>1. lead \in Seq(Nat) /\ HexNumber[x] \in Seq(Nat) /\ <<c>> \in Seq(Nat)
      BY <1>6, <2>1 DEF Spells
    <3>2. PICK h \in Seq(Nat), l \in Seq(Nat), d \in Seq(Nat) : h = HexNumber[x] /\ l = lead /\ d = <<c>>
      BY <3>1, Zenon
    <3>3. (l \o h) \o d = l \o (h \o d)
      BY Associates, SMTT(30)
    <3>4. Append(h, c) = h \o <<c>> /\ l \o h \in Seq(Nat)
      BY AppendIsConcat, ConcatProperties
    <3>5. Append(l \o h, c) = (l \o h) \o <<c>>
      BY <3>4, AppendIsConcat
    <3> QED
      BY <3>2, <3>3, <3>4, <3>5, Zenon
  <2> QED
    BY <1>4, <1>5, <1>6, <2>3, <2>4, <2>5, <2>6
<1>12. Space \in Terminators /\ u \in Seq(Nat) /\ 0 \in 0..(MODULUS - 1)
  BY <1>2, <1>11 DEF Terminators, Spells
<1>13. SUFFICES Reads(Append(u, c) \o <<Space>>, At(0, 0, <<>>),
                      At(0, 0, AddressRead(address, Len(junk) + 1)))
  BY <1>6, <1>11
<1>14. CASE m + DIGITS + 1 < MAX_DIGITS
  <2>1. AddressRead(address, Len(junk) + 1) = <<address>>
    <3>1. /\ (Len(junk) + 1) + DIGITS < MAX_DIGITS
          /\ (Len(junk) + 1) + DIGITS # MAX_DIGITS
      BY <1>2, <1>3, <1>14
    <3> QED
      BY <3>1 DEF AddressRead
  <2>2. Spells(Append(u, c), 16 * U + z) /\ Len(Append(u, c)) = m + DIGITS + 1
    <3>1. Worth(c) \in Nat
      BY <1>5
    <3>2. Spells(Append(u, c), 16 * U + Worth(c)) /\ Len(Append(u, c)) = Len(u) + 1
      BY <1>5, <1>11, <3>1, SpellsMore
    <3> QED
      BY <1>5, <1>11, <3>2
  <2>3. Reads(Append(u, c), At(0, 0, <<>>), At(address, m + DIGITS + 1, <<>>))
    <3>1. PICK s \in Reading : s = At(0, 0, <<>>) /\ s.acc = 0 /\ s.digits = 0 /\ s.values = <<>>
      BY Beginning
    <3>2. PICK p \in Nat : p = SixteenTo(m + DIGITS + 1)
      <4>1. m + DIGITS + 1 \in Nat
        BY <1>2
      <4> QED
        BY <4>1, Sixteens
    <3>3. s.acc * p + (16 * U + z) = 16 * U + z /\ s.digits + (m + DIGITS + 1) = m + DIGITS + 1
      BY <1>2, <3>1
    <3> QED
      BY <1>10, <1>14, <2>2, <3>1, <3>2, <3>3 DEF Spells
  <2>4. Reads(<<Space>>, At(address, m + DIGITS + 1, <<>>), At(0, 0, Append(<<>>, address)))
    <3>1. m + DIGITS + 1 \in Nat
      BY <1>2
    <3> QED
      BY <1>2, <1>12, <3>1, EndReads
  <2>5. Append(<<>>, address) = <<address>>
    OBVIOUS
  <2> QED
    BY <2>1, <2>3, <2>4, <2>5, ReadsBoth
<1>15. CASE m + DIGITS + 1 = MAX_DIGITS
  <2>1. AddressRead(address, Len(junk) + 1) = <<address, 0>>
    <3>1. (Len(junk) + 1) + DIGITS = MAX_DIGITS /\ ~((Len(junk) + 1) + DIGITS < MAX_DIGITS)
      BY <1>2, <1>3, <1>15
    <3> QED
      BY <3>1 DEF AddressRead
  <2>2. Reads(Append(u, c), At(0, 0, <<>>), At(0, 0, <<(16 * U + z) % MODULUS>>))
    <3>1. Worth(c) \in Nat /\ Len(u) + 1 = MAX_DIGITS
      BY <1>5, <1>11, <1>15
    <3>2. Reads(Append(u, c), At(0, 0, <<>>), At(0, 0, <<(16 * U + Worth(c)) % MODULUS>>))
      BY <1>5, <1>11, <3>1, FillsUp
    <3> QED
      BY <1>5, <3>2
  <2>3. Reads(<<Space>>, At(0, 0, <<address>>), At(0, 0, Append(<<address>>, 0)))
    <3>1. <<address>> \in Seq(Nat)
      BY <1>2
    <3> QED
      BY <1>12, <3>1, EndReads
  <2>4. Append(<<address>>, 0) = <<address, 0>>
    BY <1>2, AppendPair
  <2> QED
    BY <1>10, <2>1, <2>2, <2>3, <2>4, ReadsBoth
<1>16. CASE m + DIGITS = MAX_DIGITS
  <2>1. AddressRead(address, Len(junk) + 1) = <<x, z>>
    <3>1. ~((Len(junk) + 1) + DIGITS < MAX_DIGITS) /\ ~((Len(junk) + 1) + DIGITS = MAX_DIGITS)
      BY <1>2, <1>3, <1>16
    <3> QED
      BY <1>40, <3>1 DEF AddressRead
  <2>2. PICK u0 \in Seq(Nat), n0 \in Nat, c0 \in Nat :
           /\ u = Append(u0, c0) /\ Spells(u0, n0) /\ Len(u) = Len(u0) + 1
           /\ c0 \notin Terminators /\ c0 # Backspace /\ Worth(c0) \in Nat
           /\ 16 * n0 + Worth(c0) = U
    <3>0. PICK k \in Nat : k + 1 = DIGITS - 1 /\ SixteenTo(k + 1) = 16 * SixteenTo(k) /\ SixteenTo(k) \in Nat
      <4>1. DIGITS - 2 \in Nat /\ (DIGITS - 2) + 1 = DIGITS - 1
        BY <1>2
      <4> QED
        BY <4>1, Sixteens
    <3>1. CASE x < 16
      <4>0. x \in 0..15
        BY <3>1
      <4>1. HexNumber[x] = <<HexDigit(x)>>
        BY <3>1, HexNumberIs
      <4>2. PICK c0 \in Nat : c0 = HexDigit(x) /\ c0 \notin Terminators /\ c0 # Backspace /\ Worth(c0) = x
        BY <4>0, DigitsAreWorth
      <4>20. Worth(c0) \in Nat
        BY <4>2
      <4>3. lead \in Seq(Nat)
        BY <1>6 DEF Spells
      <4>4. u = Append(lead, c0)
        <5>1. Append(lead, c0) = lead \o <<c0>>
          BY <4>2, <4>3, AppendIsConcat
        <5> QED
          BY <1>11, <4>1, <4>2, <5>1, Zenon
      <4>5. PICK n0 \in Nat : n0 = 16 * (a + 2)
        OBVIOUS
      <4>6. Spells(Append(lead, c0), 16 * n0 + Worth(c0)) /\ Len(Append(lead, c0)) = Len(lead) + 1
        BY <1>6, <4>2, <4>20, <4>5, SpellsMore
      <4>7. 16 * n0 + x = U
        <5>1. Len(HexNumber[x]) = 1
          BY <4>1
        <5>2. SixteenTo(0 + 1) = 16 * SixteenTo(0) /\ SixteenTo(0) = 1
          BY Sixteens
        <5>3. DIGITS - 1 = 0 + 1
          <6>1. DIGITS - 1 = 1
            BY <1>41, <5>1, Zenon
          <6> QED
            BY <6>1
        <5>4. ADDRESS = 16
          <6>1. ADDRESS = SixteenTo(0 + 1)
            BY <1>2, <5>3, Zenon
          <6> QED
            BY <5>2, <6>1
        <5> QED
          BY <1>7, <1>8, <4>5, <5>4
      <4>8. 16 * n0 + Worth(c0) = U /\ Len(u) = Len(lead) + 1 /\ Spells(lead, n0)
        BY <1>6, <4>2, <4>4, <4>5, <4>6, <4>7
      <4> WITNESS lead \in Seq(Nat), n0 \in Nat, c0 \in Nat
      <4> QED
        BY <4>2, <4>20, <4>4, <4>8, Zenon
    <3>2. CASE x >= 16
      <4>1. PICK y \in Nat, w \in 0..15 :
               /\ y = x \div 16 /\ w = x % 16 /\ x = 16 * y + w
               /\ HexNumber[x] = Append(HexNumber[y], HexDigit(w))
               /\ Len(HexNumber[x]) = Len(HexNumber[y]) + 1 /\ Len(HexNumber[y]) \in Nat
        BY <3>2, HexNumberMore, Zenon
      <4>14. x = 16 * y + w /\ Len(HexNumber[x]) = Len(HexNumber[y]) + 1 /\ Len(HexNumber[y]) \in Nat
        BY <4>1, Zenon
      <4>2. PICK c0 \in Nat : c0 = HexDigit(w) /\ c0 \notin Terminators /\ c0 # Backspace /\ Worth(c0) = w
        BY DigitsAreWorth
      <4>20. Worth(c0) \in Nat
        BY <4>2
      <4>3. Len(HexNumber[y]) = k
        BY <1>41, <3>0, <4>14
      <4>4. Spells(HexNumber[y], y)
        BY HexNumberSpells
      <4>5. 16 * (a + 2) \in Nat
        OBVIOUS
      <4>6. Spells(lead \o HexNumber[y], 16 * (a + 2) * SixteenTo(k) + y)
        BY <1>6, <4>3, <4>4, <4>5, SpellsBoth
      <4>7. PICK p \in Nat : p = SixteenTo(k)
        BY <3>0
      <4>8. PICK n0 \in Nat : n0 = (16 * b) * p + y
        OBVIOUS
      <4>9. Spells(lead \o HexNumber[y], n0)
        BY <1>7, <4>6, <4>7, <4>8
      <4>10. u = Append(lead \o HexNumber[y], c0)
        <5>1. lead \in Seq(Nat) /\ HexNumber[y] \in Seq(Nat) /\ <<c0>> \in Seq(Nat)
          BY <1>6, <4>4 DEF Spells
        <5>2. PICK h \in Seq(Nat), l \in Seq(Nat), d \in Seq(Nat) : h = HexNumber[y] /\ l = lead /\ d = <<c0>>
          BY <5>1, Zenon
        <5>3. (l \o h) \o d = l \o (h \o d)
          BY Associates, SMTT(30)
        <5>4. Append(h, c0) = h \o <<c0>> /\ l \o h \in Seq(Nat)
          BY AppendIsConcat, ConcatProperties
        <5>5. Append(l \o h, c0) = (l \o h) \o <<c0>>
          BY <5>4, AppendIsConcat
        <5> QED
          BY <1>11, <4>1, <4>2, <5>2, <5>3, <5>4, <5>5, Zenon
      <4>11. Len(Append(lead \o HexNumber[y], c0)) = Len(lead \o HexNumber[y]) + 1
        BY <4>9, AppendProperties DEF Spells
      <4>12. 16 * n0 + w = U
        <5>1. ADDRESS = 16 * p
          BY <1>2, <3>0, <4>7
        <5>2. PICK e \in Nat : e = (16 * b) * p
          OBVIOUS
        <5>3. (16 * b) * (16 * p) = 16 * e
          BY <5>2
        <5> QED
          BY <1>8, <4>14, <4>8, <5>1, <5>2, <5>3
      <4>13. 16 * n0 + Worth(c0) = U /\ Len(u) = Len(lead \o HexNumber[y]) + 1
        BY <4>2, <4>10, <4>11, <4>12
      <4>15. lead \o HexNumber[y] \in Seq(Nat)
        BY <4>9 DEF Spells
      <4> WITNESS lead \o HexNumber[y] \in Seq(Nat), n0 \in Nat, c0 \in Nat
      <4> QED
        BY <4>2, <4>20, <4>9, <4>10, <4>13, Zenon
    <3> QED
      BY <3>1, <3>2
  <2>3. Reads(u, At(0, 0, <<>>), At(0, 0, <<x>>))
    <3>1. Len(u0) + 1 = MAX_DIGITS
      BY <1>11, <1>16, <2>2
    <3>2. Reads(Append(u0, c0), At(0, 0, <<>>), At(0, 0, <<(16 * n0 + Worth(c0)) % MODULUS>>))
      BY <2>2, <3>1, FillsUp
    <3> QED
      BY <1>10, <2>2, <3>2
  <2>4. Reads(<<c>>, At(0, 0, <<x>>), At(z, 1, <<x>>))
    <3>1. Spells(<<c>>, z) /\ Len(<<c>>) = 1
      BY <1>5, SpellsDigit
    <3>2. z \in 0..(MODULUS - 1)
      BY <1>2
    <3>3. <<x>> \in Seq(Nat) /\ Len(<<c>>) < MAX_DIGITS
      BY <1>2, <3>1
    <3>4. Reads(<<c>>, At(0, 0, <<x>>), At(z, Len(<<c>>), <<x>>))
      BY <3>1, <3>2, <3>3, FieldReads
    <3> QED
      BY <3>1, <3>4
  <2>5. Reads(<<Space>>, At(z, 1, <<x>>), At(0, 0, Append(<<x>>, z)))
    <3>1. z \in 0..(MODULUS - 1) /\ <<x>> \in Seq(Nat)
      BY <1>2
    <3> QED
      BY <1>12, <3>1, EndReads
  <2>6. Append(<<x>>, z) = <<x, z>> /\ Append(u, c) = u \o <<c>>
    <3>1. z \in Nat
      OBVIOUS
    <3>2. Append(<<x>>, z) = <<x, z>>
      BY <3>1, AppendPair, Zenon
    <3>3. Append(u, c) = u \o <<c>>
      BY <1>12, AppendIsConcat
    <3> QED
      BY <3>2, <3>3
  <2>7. Reads(u \o <<c>>, At(0, 0, <<>>), At(z, 1, <<x>>))
    BY <2>3, <2>4, ReadsBoth
  <2> QED
    BY <2>1, <2>5, <2>6, <2>7, ReadsBoth
<1>17. m + DIGITS <= MAX_DIGITS
  BY <1>3
<1>18. m + DIGITS + 1 < MAX_DIGITS \/ m + DIGITS + 1 = MAX_DIGITS \/ m + DIGITS = MAX_DIGITS
  BY <1>2, <1>17
<1> QED
  BY <1>14, <1>15, <1>16, <1>18, Zenon

Associate(x, y, z) == (x \o y) \o z = x \o (y \o z)

\* The same text, grouped by what is read together.
Grouped(j, w, h, s, n, v) ==
    j \o (((((w \o h) \o s) \o n) \o s) \o v) = (((((j \o w) \o h) \o s) \o n) \o s) \o v

LEMMA Regroup ==
    ASSUME NEW j \in Seq(Nat), NEW w \in Seq(Nat), NEW h \in Seq(Nat), NEW s \in Seq(Nat),
           NEW n \in Seq(Nat), NEW v \in Seq(Nat)
    PROVE  Grouped(j, w, h, s, n, v)
<1>0. ASSUME NEW x \in Seq(Nat), NEW y \in Seq(Nat), NEW z \in Seq(Nat)
      PROVE  Associate(x, y, z)
  <2>1. (x \o y) \o z = x \o (y \o z)
    BY Associates, SMTT(60)
  <2> QED
    BY <2>1 DEF Associate
<1>1. \A x, y \in Seq(Nat) : x \o y \in Seq(Nat)
  BY ConcatProperties
<1>2. PICK a \in Seq(Nat) : a = w \o h
  BY <1>1
<1>3. PICK b \in Seq(Nat) : b = a \o s
  BY <1>1
<1>4. PICK c \in Seq(Nat) : c = b \o n
  BY <1>1
<1>5. PICK d \in Seq(Nat) : d = c \o s
  BY <1>1
<1>6. Associate(j, d, v)
  BY <1>0
<1>7. Associate(j, c, s)
  BY <1>0
<1>8. Associate(j, b, n)
  BY <1>0
<1>9. Associate(j, a, s)
  BY <1>0
<1>10. Associate(j, w, h)
  BY <1>0
<1> QED
  BY <1>2, <1>3, <1>4, <1>5, <1>6, <1>7, <1>8, <1>9, <1>10, Zenon
     DEF Associate, Grouped

\* The reader before a command and after it.
LEMMA CommandReads ==
    ASSUME NEW address \in ADDRESS..(MODULUS - 1),
           NEW encode, Encodes(encode), NEW n \in 0..(MODULUS - 1),
           NEW words \in [1..n -> [1..WORD_SIZE -> Byte]],
           NEW junk \in Seq(Byte \ (Terminators \cup {Backspace})),
           Len(junk) + DIGITS <= MAX_DIGITS
    PROVE  Reads(junk \o Command(address, words, encode), At(0, 0, <<>>),
                 At(0, 0, (AddressRead(address, Len(junk) + 1) \o <<n>>) \o WordValues(words, n)))
<1>1. /\ MODULUS \in Nat \ {0} /\ DIGITS \in Nat \ {0} /\ MAX_DIGITS \in Nat /\ DIGITS < MAX_DIGITS
      /\ MODULUS = SixteenTo(DIGITS) /\ ADDRESS \in Nat /\ address \in Nat
  BY CodecFacts
<1>2. n \in Nat /\ Len(words) = n /\ Space \in Terminators
  BY <1>1 DEF Terminators
<1>3. PICK first : first = ((junk \o <<LetterW>>) \o HexNumber[address]) \o <<Space>>
  OBVIOUS
<1>4. PICK vs \in Seq(Nat) : /\ vs = AddressRead(address, Len(junk) + 1)
                             /\ Reads(first, At(0, 0, <<>>), At(0, 0, vs))
  <2>1. Reads(first, At(0, 0, <<>>), At(0, 0, AddressRead(address, Len(junk) + 1)))
    BY <1>3, AddressReads
  <2>2. At(0, 0, AddressRead(address, Len(junk) + 1)) \in Reading
    BY <2>1, ReadsTypes
  <2>3. AddressRead(address, Len(junk) + 1) \in Seq(Nat)
    BY <2>2 DEF At, Reading
  <2> QED
    BY <2>1, <2>3
\* The count.
<1>5. Spells(HexNumber[n], n)
  BY <1>2, HexNumberSpells
<1>6. Len(HexNumber[n]) < MAX_DIGITS
  <2>1. PICK k \in Nat : k = DIGITS - 1 /\ k + 1 = DIGITS
    BY <1>1
  <2>2. n < SixteenTo(k + 1)
    BY <1>1, <2>1
  <2>3. Len(HexNumber[n]) <= k + 1
    BY <1>2, <2>2, HexNumberLength
  <2>4. Len(HexNumber[n]) \in Nat
    BY <1>5, LenProperties DEF Spells
  <2> QED
    BY <1>1, <2>1, <2>3, <2>4
<1>7. Reads((first \o HexNumber[n]) \o <<Space>>, At(0, 0, <<>>), At(0, 0, Append(vs, n)))
  BY <1>2, <1>4, <1>5, <1>6, NumberReads
<1>8. Append(vs, n) = vs \o <<n>> /\ Append(vs, n) \in Seq(Nat)
  BY <1>2, AppendIsConcat, AppendProperties
\* The words.
<1>9. Reads(WordsText(words, encode), At(0, 0, Append(vs, n)),
            At(0, 0, Append(vs, n) \o WordValues(words, n)))
  BY <1>2, <1>8, WordsRead
<1>10. Reads(((first \o HexNumber[n]) \o <<Space>>) \o WordsText(words, encode), At(0, 0, <<>>),
             At(0, 0, (vs \o <<n>>) \o WordValues(words, n)))
  BY <1>7, <1>8, <1>9, ReadsBoth
<1>11. junk \o Command(address, words, encode)
       = ((first \o HexNumber[n]) \o <<Space>>) \o WordsText(words, encode)
  <2>1. PICK a \in Nat : Spells(junk, a)
    BY JunkSpells
  <2>2. /\ junk \in Seq(Nat) /\ HexNumber[address] \in Seq(Nat) /\ HexNumber[n] \in Seq(Nat)
        /\ WordsText(words, encode) \in Seq(Nat)
    BY <1>1, <1>5, <1>9, <2>1, HexNumberSpells, ReadsTypes DEF Spells
  <2>3. <<LetterW>> \in Seq(Nat) /\ <<Space>> \in Seq(Nat)
    BY DEF LetterW, Space
  <2>4. Command(address, words, encode)
        = ((((<<LetterW>> \o HexNumber[address]) \o <<Space>>) \o HexNumber[n]) \o <<Space>>)
            \o WordsText(words, encode)
    BY <1>2, Zenon DEF Command
  <2>5. junk \o (((((<<LetterW>> \o HexNumber[address]) \o <<Space>>) \o HexNumber[n]) \o <<Space>>)
                    \o WordsText(words, encode))
        = (((((junk \o <<LetterW>>) \o HexNumber[address]) \o <<Space>>) \o HexNumber[n]) \o <<Space>>)
            \o WordsText(words, encode)
    <3>1. Grouped(junk, <<LetterW>>, HexNumber[address], <<Space>>, HexNumber[n],
                  WordsText(words, encode))
      BY <2>2, <2>3, Regroup
    <3> QED
      BY <3>1, Zenon DEF Grouped
  <2> QED
    BY <1>3, <2>4, <2>5, Zenon
<1> QED
  BY <1>4, <1>10, <1>11

\* What the loader prints for a number: its first k digits stand for the number
\* without the digits behind them.
LEMMA xtoaSpells ==
    ASSUME NEW v \in 0..(MODULUS - 1)
    PROVE  Spells(xtoa(v), v) /\ Len(xtoa(v)) = DIGITS
<1>1. DIGITS \in Nat /\ MODULUS = SixteenTo(DIGITS) /\ MODULUS \in Nat \ {0} /\ v \in Nat
  BY CodecFacts
<1> DEFINE digit(i) == (v \div 2^(4 * (DIGITS - i))) % 16
           char(d)  == IF d < 10 THEN 48 + d ELSE 55 + d
           first(k) == v \div SixteenTo(DIGITS - k)
<1>2. ASSUME NEW k \in 0..DIGITS
      PROVE  /\ SixteenTo(DIGITS - k) \in Nat \ {0}
             /\ first(k) \in Nat /\ 2^(4 * (DIGITS - k)) = SixteenTo(DIGITS - k)
  <2>1. PICK p \in Nat \ {0} : p = SixteenTo(DIGITS - k)
    <3>1. DIGITS - k \in Nat
      BY <1>1
    <3> QED
      BY <3>1, Sixteens
  <2>2. v \div p \in Nat
    BY <1>1
  <2> QED
    BY <2>1, <2>2 DEF SixteenTo
<1>3. ASSUME NEW k \in 1..DIGITS
      PROVE  digit(k) \in 0..15 /\ first(k) = 16 * first(k - 1) + digit(k)
  <2>1. PICK p \in Nat \ {0} : p = SixteenTo(DIGITS - k) /\ SixteenTo(DIGITS - (k - 1)) = 16 * p
    <3>1. PICK j \in Nat : j = DIGITS - k /\ j + 1 = DIGITS - (k - 1)
      BY <1>1
    <3>2. SixteenTo(j) \in Nat \ {0} /\ SixteenTo(j + 1) = 16 * SixteenTo(j)
      BY Sixteens
    <3> QED
      BY <3>1, <3>2
  <2>2. PICK x \in Nat, r \in 0..(p - 1) : v = p * x + r /\ x = v \div p
    BY <1>1
  <2>3. PICK y \in Nat, d \in 0..15 : x = 16 * y + d /\ d = x % 16
    OBVIOUS
  <2>4. v \div (16 * p) = y
    <3>1. PICK q \in Nat \ {0}, w \in Nat : q = 16 * p /\ w = p * d + r
      OBVIOUS
    <3>2. v = q * y + w
      <4>1. p * x = p * (16 * y) + p * d /\ p * (16 * y) = q * y
        BY <2>3, <3>1
      <4>2. p * x \in Nat /\ p * d \in Nat /\ q * y \in Nat
        BY <3>1
      <4> QED
        BY <2>2, <3>1, <4>1, <4>2
    <3>3. w \in 0..(q - 1)
      <4>1. p * d <= p * 15
        OBVIOUS
      <4> QED
        BY <3>1, <4>1
    <3>4. (q * y + w) \div q = y
      BY <3>3, Quotient
    <3> QED
      BY <3>1, <3>2, <3>4
  <2>5. digit(k) = d
    <3>1. k \in 0..DIGITS
      BY <1>1
    <3>2. 2^(4 * (DIGITS - k)) = p
      BY <1>2, <2>1, <3>1
    <3> QED
      BY <2>2, <2>3, <3>2, Zenon
  <2>6. first(k) = x /\ first(k - 1) = y
    BY <2>1, <2>2, <2>4, Zenon
  <2> QED
    BY <2>3, <2>5, <2>6
<1> HIDE DEF digit, first, char
<1>4. xtoa(v) = [i \in 1..DIGITS |-> char(digit(i))]
  BY Zenon DEF xtoa, digit, char
<1>5. ASSUME NEW k \in 1..DIGITS
      PROVE  /\ char(digit(k)) \in Nat \ Terminators /\ char(digit(k)) # Backspace
             /\ Worth(char(digit(k))) = digit(k)
  BY <1>3, DigitsAreWorth DEF char
<1>6. xtoa(v) \in Seq(Nat) /\ Len(xtoa(v)) = DIGITS
  <2>1. \A k \in 1..DIGITS : char(digit(k)) \in Nat
    BY <1>5
  <2> QED
    BY <1>1, <1>4, <2>1
<1>7. \A k \in 1..DIGITS : xtoa(v)[k] = char(digit(k))
  BY <1>4
<1> DEFINE Good == {k \in Nat : k <= DIGITS => Spells(SubSeq(xtoa(v), 1, k), first(k))}
<1>8. 0 \in Good
  <2>1. SubSeq(xtoa(v), 1, 0) = <<>>
    BY SubSeqEmpty
  <2>2. first(0) = 0
    <3>1. v \div MODULUS = 0
      <4>1. (MODULUS * 0 + v) \div MODULUS = 0
        BY <1>1, Quotient
      <4>2. MODULUS * 0 + v = v
        BY <1>1
      <4> QED
        BY <4>1, <4>2
    <3>2. DIGITS - 0 = DIGITS
      BY <1>1
    <3> QED
      BY <1>1, <3>1, <3>2 DEF first
  <2> QED
    BY <2>1, <2>2, SpellsNothing
<1>9. ASSUME NEW j \in Nat, j \in Good PROVE j + 1 \in Good
  <2> SUFFICES ASSUME j + 1 <= DIGITS
               PROVE  Spells(SubSeq(xtoa(v), 1, j + 1), first(j + 1))
    OBVIOUS
  <2>1. PICK k \in 1..DIGITS : k = j + 1 /\ k - 1 = j /\ j \in 0..DIGITS
    BY <1>1
  <2>2. SubSeq(xtoa(v), 1, k) = SubSeq(xtoa(v), 1, j) \o <<xtoa(v)[k]>>
    <3>1. k \in 1..Len(xtoa(v)) /\ 1 \in 1..Len(xtoa(v)) /\ k \in 1..k
      BY <1>1, <1>6
    <3>2. SubSeq(xtoa(v), 1, k) = SubSeq(xtoa(v), 1, k - 1) \o <<xtoa(v)[k]>>
      BY <1>6, <3>1, SubSeqRecursiveSecond
    <3> QED
      BY <2>1, <3>2
  <2>3. PICK c \in Nat : c = xtoa(v)[k] /\ c \notin Terminators /\ c # Backspace /\ Worth(c) = digit(k)
    BY <1>5, <1>7
  <2>4. PICK t : t = SubSeq(xtoa(v), 1, j) /\ Spells(t, first(j)) /\ first(j) \in Nat
    <3>1. j <= DIGITS /\ first(j) \in Nat
      BY <1>1, <1>2, <2>1
    <3>2. Spells(SubSeq(xtoa(v), 1, j), first(j))
      BY <1>9, <3>1
    <3> QED
      BY <3>1, <3>2
  <2>5. Worth(c) \in Nat
    BY <1>3, <2>3
  <2>6. Spells(Append(t, c), 16 * first(j) + Worth(c))
    BY <2>3, <2>4, <2>5, SpellsMore
  <2>7. Append(t, c) = t \o <<c>>
    BY <2>4, AppendIsConcat DEF Spells
  <2>8. first(k) = 16 * first(j) + Worth(c)
    BY <1>3, <2>1, <2>3
  <2> QED
    BY <2>1, <2>2, <2>3, <2>4, <2>6, <2>7, <2>8
<1>10. Nat \subseteq Good
  <2> HIDE DEF Good
  <2> QED
    BY <1>8, <1>9, AllNumbers
<1>11. Spells(SubSeq(xtoa(v), 1, DIGITS), first(DIGITS))
  BY <1>1, <1>10
<1>12. SubSeq(xtoa(v), 1, DIGITS) = xtoa(v)
  BY <1>6, SubSeqFull
<1>13. first(DIGITS) = v
  <2>1. DIGITS - DIGITS = 0 /\ v \div 1 = v
    BY <1>1
  <2>2. SixteenTo(0) = 1
    BY Sixteens
  <2> QED
    BY <2>1, <2>2 DEF first
<1> QED
  BY <1>6, <1>11, <1>12, <1>13

\* What the loader prints is read as it was.
LEMMA PrintedReads ==
    ASSUME NEW v \in 0..(MODULUS - 1)
    PROVE  Reads(xtoa(v) \o <<Space>>, At(0, 0, <<>>), At(0, 0, <<v>>))
<1>1. Spells(xtoa(v), v) /\ Len(xtoa(v)) < MAX_DIGITS
  <2>1. Spells(xtoa(v), v) /\ Len(xtoa(v)) = DIGITS
    BY xtoaSpells
  <2> QED
    BY <2>1, CodecFacts
<1>2. <<>> \in Seq(Nat) /\ Append(<<>>, v) = <<v>>
  OBVIOUS
<1>3. Reads(xtoa(v), At(0, 0, <<>>), At(v, Len(xtoa(v)), <<>>)) /\ Len(xtoa(v)) \in Nat
  BY <1>1, <1>2, FieldReads, LenProperties DEF Spells
<1>4. Space \in Terminators
  BY DEF Terminators
<1>5. Reads(<<Space>>, At(v, Len(xtoa(v)), <<>>), At(0, 0, Append(<<>>, v)))
  BY <1>2, <1>3, <1>4, EndReads
<1> QED
  BY <1>2, <1>3, <1>5, ReadsBoth

LEMMA Triple ==
    ASSUME NEW a \in Nat, NEW b \in Nat, NEW c \in Nat
    PROVE  <<a, b, c>> = (<<a>> \o <<b>>) \o <<c>>
<1>1. PICK t \in Seq(Nat) : t = <<a>> \o <<b>> /\ Len(t) = 2 /\ t[1] = a /\ t[2] = b
  <2>1. /\ <<a>> \o <<b>> \in Seq(Nat) /\ Len(<<a>> \o <<b>>) = 2
        /\ (<<a>> \o <<b>>)[1] = a /\ (<<a>> \o <<b>>)[2] = b
    OBVIOUS
  <2> QED
    BY <2>1, Zenon
<1>2. PICK z \in Seq(Nat) : z = <<c>> /\ Len(z) = 1 /\ z[1] = c
  <2>1. <<c>> \in Seq(Nat) /\ Len(<<c>>) = 1 /\ <<c>>[1] = c
    OBVIOUS
  <2> QED
    BY <2>1, Zenon
<1>3. /\ t \o z \in Seq(Nat) /\ Len(t \o z) = 3
      /\ (t \o z)[1] = a /\ (t \o z)[2] = b /\ (t \o z)[3] = c
  BY <1>1, <1>2, ConcatProperties
<1>4. /\ <<a, b, c>> \in Seq(Nat) /\ Len(<<a, b, c>>) = 3
      /\ <<a, b, c>>[1] = a /\ <<a, b, c>>[2] = b /\ <<a, b, c>>[3] = c
  OBVIOUS
<1>5. ASSUME NEW i \in 1..3 PROVE <<a, b, c>>[i] = (t \o z)[i]
  <2>1. i = 1 \/ i = 2 \/ i = 3
    OBVIOUS
  <2> QED
    BY <1>3, <1>4, <2>1
<1>6. <<a, b, c>> = t \o z
  BY <1>3, <1>4, <1>5, SeqEqual
<1> QED
  BY <1>1, <1>2, <1>6, Zenon

LEMMA ThreeMore ==
    ASSUME NEW t \in Seq(Nat), NEW a \in Nat, NEW b \in Nat, NEW c \in Nat
    PROVE  t \o <<a, b, c>> = (Append(t, a) \o <<b>>) \o <<c>>
<1>1. PICK x \in Seq(Nat), y \in Seq(Nat), z \in Seq(Nat) : x = <<a>> /\ y = <<b>> /\ z = <<c>>
  <2>1. <<a>> \in Seq(Nat) /\ <<b>> \in Seq(Nat) /\ <<c>> \in Seq(Nat)
    OBVIOUS
  <2> QED
    BY <2>1, Zenon
<1>2. PICK w \in Seq(Nat) : w = x \o y
  BY ConcatProperties
<1>3. (t \o w) \o z = t \o (w \o z)
  BY Associates, SMTT(60)
<1>4. t \o (x \o y) = (t \o x) \o y
  BY Associates, SMTT(30)
<1>5. <<a, b, c>> = (x \o y) \o z
  BY <1>1, Triple
<1>6. Append(t, a) = t \o x
  BY <1>1, AppendIsConcat
<1> QED
  BY <1>1, <1>2, <1>3, <1>4, <1>5, <1>6, Zenon
\* A digit that is taken back leaves the number it was added to.
LEMMA CorrectedReads ==
    ASSUME NEW v \in 0..(MODULUS - 1), v < ADDRESS, NEW d \in 0..15
    PROVE  Reads(HexNumber[v] \o <<HexDigit(d), Backspace, NewLine>>,
                 At(0, 0, <<>>), At(0, 0, <<v>>))
<1>1. /\ MODULUS \in Nat \ {0} /\ ADDRESS \in Nat \ {0} /\ MODULUS = 16 * ADDRESS
      /\ DIGITS \in Nat \ {0, 1} /\ MAX_DIGITS \in Nat /\ DIGITS < MAX_DIGITS
      /\ ADDRESS = SixteenTo(DIGITS - 1)
  BY CodecFacts
<1>2. v \in Nat /\ <<>> \in Seq(Nat) /\ Append(<<>>, v) = <<v>>
  BY <1>1
<1>3. Spells(HexNumber[v], v)
  BY <1>2, HexNumberSpells
<1>4. PICK k \in Nat : k = Len(HexNumber[v]) /\ k + 1 < MAX_DIGITS
  <2>1. PICK j \in Nat : j + 2 = DIGITS /\ j + 1 = DIGITS - 1
    <3>1. DIGITS - 2 \in Nat /\ (DIGITS - 2) + 2 = DIGITS /\ (DIGITS - 2) + 1 = DIGITS - 1
      BY <1>1
    <3> QED
      BY <3>1
  <2>2. v < SixteenTo(j + 1)
    BY <1>1, <2>1
  <2>3. Len(HexNumber[v]) <= j + 1
    BY <1>2, <2>2, HexNumberLength
  <2>4. Len(HexNumber[v]) \in Nat
    BY <1>3, LenProperties DEF Spells
  <2> QED
    BY <1>1, <2>1, <2>3, <2>4
<1>5. PICK c \in Nat : c = HexDigit(d) /\ c \notin Terminators /\ c # Backspace /\ Worth(c) = d
  BY DigitsAreWorth
\* With the digit.
<1>6. 16 * v + d \in 0..(MODULUS - 1)
  BY <1>1, <1>2
<1>7. Spells(Append(HexNumber[v], c), 16 * v + d) /\ Len(Append(HexNumber[v], c)) = k + 1
  <2>1. Worth(c) \in Nat
    BY <1>5
  <2> QED
    BY <1>2, <1>3, <1>4, <1>5, <2>1, SpellsMore
<1>8. Reads(Append(HexNumber[v], c), At(0, 0, <<>>), At(16 * v + d, k + 1, <<>>))
  BY <1>2, <1>4, <1>6, <1>7, FieldReads
\* Without it.
<1>9. Reads(<<Backspace>>, At(16 * v + d, k + 1, <<>>), At(v, k, <<>>))
  <2>1. (16 * v + d) \div 16 = v
    BY <1>2, Quotient
  <2>2. PICK w \in 0..(MODULUS - 1) : w = 16 * v + d
    BY <1>6
  <2>3. At(w, k + 1, <<>>) \in Reading /\ At(v, k, <<>>) \in Reading
    BY <1>2 DEF At, Reading
  <2>4. Backspace \in Nat /\ Backspace \notin Terminators
    BY DEF Backspace, Terminators, CarriageReturn, NewLine, Space
  <2>5. After(At(w, k + 1, <<>>), Backspace) = At(v, k, <<>>)
    <3>1. k + 1 > 0 /\ (k + 1) - 1 = k
      OBVIOUS
    <3> QED
      BY <2>1, <2>2, <2>4, <3>1 DEF After, At
  <2>6. Reads(<<Backspace>>, At(w, k + 1, <<>>), After(At(w, k + 1, <<>>), Backspace))
    BY <2>3, <2>4, <2>5, ReadsOne
  <2> QED
    BY <2>2, <2>5, <2>6
<1>10. Reads(<<NewLine>>, At(v, k, <<>>), At(0, 0, <<v>>))
  <2>1. NewLine \in Terminators
    BY DEF Terminators
  <2>2. Reads(<<NewLine>>, At(v, k, <<>>), At(0, 0, Append(<<>>, v)))
    BY <1>2, <2>1, EndReads
  <2> QED
    BY <1>2, <2>2
<1>11. Reads((Append(HexNumber[v], c) \o <<Backspace>>) \o <<NewLine>>, At(0, 0, <<>>), At(0, 0, <<v>>))
  BY <1>8, <1>9, <1>10, ReadsBoth
<1>12. HexNumber[v] \o <<c, Backspace, NewLine>>
       = (Append(HexNumber[v], c) \o <<Backspace>>) \o <<NewLine>>
  <2>1. HexNumber[v] \in Seq(Nat) /\ Backspace \in Nat /\ NewLine \in Nat
    BY <1>3 DEF Spells, Backspace, NewLine
  <2> QED
    BY <2>1, ThreeMore
<1> QED
  BY <1>5, <1>11, <1>12

-------------------------------------------------------------------------------

\* The inductive invariant: what is still to be read leads, from what has been
\* read, to the numbers that were meant.  Decoded says so of the end only.
ReadInv == \E u : Reads(text, Now, u) /\ u.values = expected

\* It holds of a command,
LEMMA CommandsReadInv ==
    ASSUME InitReader, InitCommand
    PROVE  ReadInv
<1>0. PICK n \in Counts, address \in Addresses :
        \E words \in [1..n -> [1..WORD_SIZE -> Bytes]], junk \in Junks :
         /\ \/ text = junk \o Command(address, words, [c \in Byte |-> charToHexString(c)])
            \/ text = junk \o Command(address, words, [c \in Byte |-> byteToAsciiString(c)])
         /\ expected = AddressRead(address, Len(junk) + 1)
                           \o <<n>> \o [i \in 1..n |-> WordValue(words[i])]
  BY Zenon DEF InitCommand
<1>1. PICK words \in [1..n -> [1..WORD_SIZE -> Bytes]], junk \in Junks :
         /\ \/ text = junk \o Command(address, words, [c \in Byte |-> charToHexString(c)])
            \/ text = junk \o Command(address, words, [c \in Byte |-> byteToAsciiString(c)])
         /\ expected = AddressRead(address, Len(junk) + 1)
                           \o <<n>> \o [i \in 1..n |-> WordValue(words[i])]
  BY <1>0, Zenon
<1>2. /\ n \in 0..(MODULUS - 1) /\ words \in [1..n -> [1..WORD_SIZE -> Byte]]
      /\ junk \in Seq(Byte \ (Terminators \cup {Backspace}))
      /\ Len(junk) + DIGITS <= MAX_DIGITS
      /\ address \in ADDRESS..(MODULUS - 1)
  <2>1. /\ Counts \subseteq 0..(MODULUS - 1) /\ Bytes \subseteq Byte
        /\ Addresses \subseteq ADDRESS..(MODULUS - 1)
    BY CodecAssumption
  <2>2. [1..WORD_SIZE -> Bytes] \subseteq [1..WORD_SIZE -> Byte]
    BY <2>1
  <2>3. words \in [1..n -> [1..WORD_SIZE -> Byte]]
    BY <2>2
  <2>4. /\ junk \in Seq(Byte \ (Terminators \cup {Backspace}))
        /\ Len(junk) + DIGITS <= MAX_DIGITS
    BY CodecAssumption, Zenon
  <2> QED
    BY <2>1, <2>3, <2>4
<1>3. expected = (AddressRead(address, Len(junk) + 1) \o <<n>>) \o WordValues(words, n)
  BY <1>1, Zenon DEF WordValues
<1>4. Now = At(0, 0, <<>>)
  BY DEF InitReader, Now
<1>5. ASSUME NEW encode, Encodes(encode), text = junk \o Command(address, words, encode)
      PROVE  ReadInv
  <2>1. Reads(text, Now, At(0, 0, (AddressRead(address, Len(junk) + 1) \o <<n>>)
                                      \o WordValues(words, n)))
    BY <1>2, <1>4, <1>5, CommandReads
  <2>2. At(0, 0, (AddressRead(address, Len(junk) + 1) \o <<n>>) \o WordValues(words, n)).values
        = expected
    BY <1>3 DEF At
  <2> QED
    BY <2>1, <2>2 DEF ReadInv
<1> QED
  BY <1>1, <1>5, BothEncode

\* and of a number.
LEMMA NumbersReadInv ==
    ASSUME InitReader, InitNumber
    PROVE  ReadInv
<1>1. PICK v \in Numbers :
         /\ \/ text = xtoa(v) \o <<Space>>
            \/ v < ADDRESS /\ \E d \in 0..15 :
                  text = HexNumber[v] \o <<HexDigit(d), Backspace, NewLine>>
         /\ expected = <<v>>
  BY DEF InitNumber
<1>2. v \in 0..(MODULUS - 1)
  BY CodecAssumption
<1>3. Now = At(0, 0, <<>>)
  BY DEF InitReader, Now
<1>4. Reads(text, Now, At(0, 0, <<v>>))
  <2>1. CASE text = xtoa(v) \o <<Space>>
    BY <1>2, <1>3, <2>1, PrintedReads
  <2>2. CASE v < ADDRESS /\ \E d \in 0..15 :
                text = HexNumber[v] \o <<HexDigit(d), Backspace, NewLine>>
    BY <1>2, <1>3, <2>2, CorrectedReads
  <2> QED
    BY <1>1, <2>1, <2>2
<1>5. At(0, 0, <<v>>).values = expected
  BY <1>1 DEF At
<1> QED
  BY <1>4, <1>5 DEF ReadInv

\* The numbers getHex returns for the text of a command are the address, the count
\* and the words the uploaders put into it, whatever stands before the command;
\* only where that and the address fill a number up does it end before its
\* terminator.  A printed number, and one with a digit taken back, are read as
\* they are.
THEOREM CodecReadsBack == CodecSpec => []Decoded
<1>1. CodecInit => ReadInv
  BY CommandsReadInv, NumbersReadInv DEF CodecInit
<1>2. ReadInv /\ [getHex]_vars => ReadInv'
  <2> SUFFICES ASSUME ReadInv, [getHex]_vars PROVE ReadInv'
    OBVIOUS
  <2>1. CASE getHex
    <3>1. PICK u : Reads(text, Now, u) /\ u.values = expected
      BY DEF ReadInv
    <3>2. text # <<>> /\ Now \in Reading
      BY <2>1, <3>1, ReadsTypes DEF getHex
    <3>3. Head(text) \in Nat /\ Reads(Tail(text), After(Now, Head(text)), u)
      BY <3>1, <3>2, ReadsRest
    <3>4. Now' = After(Now, Head(text)) /\ text' = Tail(text) /\ expected' = expected
      BY <2>1, <3>2, <3>3, StepReads
    <3>5. Reads(text', Now', u) /\ u.values = expected'
      BY <3>1, <3>3, <3>4
    <3> QED
      BY <3>5 DEF ReadInv
  <2>2. CASE UNCHANGED vars
    BY <2>2 DEF vars, ReadInv, Now, At, Reads, Run
  <2> QED
    BY <2>1, <2>2
<1>3. ReadInv => Decoded
  <2> SUFFICES ASSUME ReadInv, text = <<>> PROVE values = expected
    BY DEF Decoded
  <2>1. PICK u : Reads(<<>>, Now, u) /\ u.values = expected
    BY DEF ReadInv
  <2>2. u = Now
    BY <2>1, ReadsNothing
  <2> QED
    BY <2>1, <2>2 DEF Now, At
<1> QED
  BY <1>1, <1>2, <1>3, PTL DEF CodecSpec

===============================================================================
