-------------------------------- MODULE Pacing --------------------------------
(***************************************************************************)
(* The pauses of the uploaders against the loader of Binary/miniboot.s,     *)
(* which does not read its UART while it prints: the newline that wakes the *)
(* menu, the a that starts the console, and the commands of the setup, with *)
(* time counted in characters.  At 9600 baud, a start and a stop bit, a     *)
(* second is 960 of them.                                                   *)
(*                                                                          *)
(* Pauses are minimal: the host may be late with everything it sends.       *)
(***************************************************************************)
EXTENDS Integers, Sequences

CONSTANTS
    Depth,      \* characters the board's UART holds (external)
    Commands    \* how many commands the setup has, three in the code

ASSUME PacingAssumption == Depth \in Nat \ {0} /\ Commands \in Nat

Banner   == 45     \* what the loader prints at power-up,
Menu     == 342    \* with the menu and the prompt behind it
Greeting == 8      \* of the console

\* Milliseconds in characters.
Ms(t) == (t * 960) \div 1000

VARIABLES
    uploader,   \* "legacy", SerialPortMac and SerialPortWindows, or "w2"
    sent,       \* what has been sent: newline, a, and commands
    timer,      \* what is left of the host's pause
    acked,      \* has an ACK been read since the last thing was sent?
    wire,       \* characters on their way to the board
    uart,       \* characters its UART holds
    lost,       \* characters that came when it was full
    printing,   \* characters the board has yet to print
    acking,     \* is an ACK what it prints?
    mode        \* "menu", "console", or "astray", in a function nobody meant

hostVars   == <<uploader, sent, timer, acked>>
boardVars  == <<printing, acking, mode>>
pacingVars == <<hostVars, wire, uart, lost, boardVars>>

\* The n-th thing sent: a newline, an a, and then commands of 15 characters.
Text(n) ==
    CASE n = 1 -> <<"newline">>
      [] n = 2 -> <<"a">>
      [] OTHER -> [i \in 1..15 |-> CASE i = 1 -> "letter" [] i = 15 -> "end" [] OTHER -> "digit"]

\* Mutation of Pause: 500 ms become 50.
PauseShort(n) ==
    CASE uploader = "w2" -> Ms(1000)
      [] uploader = "legacy" /\ n <= 2 -> Ms(50)
      [] OTHER -> 0

\* After the n-th thing was sent: the old uploaders sleep after the newline and
\* after the a, the new one waits for an ACK, at most a second.
Pause(n) ==
    CASE uploader = "w2" -> Ms(1000)
      [] uploader = "legacy" /\ n <= 2 -> Ms(500)
      [] OTHER -> 0

\* The newline is about to be sent.  The board may have been switched on at any
\* time before, or wait at the prompt of the menu or of the console.
PacingInit ==
    /\ uploader \in {"legacy", "w2"}
    /\ sent = 0 /\ timer = 0 /\ acked = FALSE
    /\ wire = <<>> /\ uart = <<>> /\ lost = 0 /\ acking = FALSE
    /\ \/ mode = "menu" /\ printing \in 0..(Banner + Menu)
       \/ mode = "console" /\ printing = 0

-------------------------------------------------------------------------------
\* The next thing is sent.  For its commands the legacy uploader needs the ACK
\* of the last; the new one only saves what is left of its second.
Send ==
    /\ sent < Commands + 2
    /\ CASE uploader = "w2" -> timer = 0 \/ acked
         [] OTHER           -> timer = 0 /\ (sent >= 3 => acked)
    /\ wire' = wire \o Text(sent + 1)
    /\ sent' = sent + 1
    /\ timer' = Pause(sent + 1)
    /\ acked' = FALSE
    /\ UNCHANGED <<uploader, uart, lost, boardVars>>

Idle == printing = 0

Prints(n, ack) == printing' = n /\ acking' = ack

\* The board takes a character, in no time.
TakeAtMenu(c) ==
    /\ mode = "menu"
    /\ CASE c = "a"     -> mode' = "console" /\ Prints(Greeting, FALSE)
         [] c = "digit" -> mode' = "astray"  /\ Prints(0, FALSE)
         [] OTHER       -> mode' = "menu"    /\ Prints(Menu, FALSE)

\* Mutation of TakeInConsole: a command is not answered.
TakeInConsoleMute(c) == mode = "console" /\ Prints(0, FALSE) /\ UNCHANGED mode

TakeInConsole(c) ==
    /\ mode = "console"
    /\ IF c = "end" THEN Prints(1, TRUE) ELSE Prints(0, FALSE)
    /\ UNCHANGED mode

TakeAstray == mode = "astray" /\ UNCHANGED boardVars

Take ==
    /\ Idle
    /\ uart # <<>>
    /\ TakeAtMenu(Head(uart)) \/ TakeInConsole(Head(uart)) \/ TakeAstray
    /\ uart' = Tail(uart)
    /\ UNCHANGED <<hostVars, wire, lost>>

\* A character time passes: one is printed, one arrives, an ACK is read.  When
\* an ACK has been polled the legacy uploader sleeps for 50 ms.
Tick ==
    /\ ~Idle \/ uart = <<>>
    /\ printing' = IF Idle THEN 0 ELSE printing - 1
    /\ acking' = (acking /\ printing' > 0)
    /\ IF acking
       THEN acked' = TRUE /\ timer' = IF uploader = "legacy" THEN Ms(50) ELSE timer
       ELSE timer' = (IF timer = 0 THEN 0 ELSE timer - 1) /\ UNCHANGED acked
    /\ IF wire = <<>> THEN UNCHANGED <<wire, uart, lost>>
       ELSE /\ wire' = Tail(wire)
            /\ IF Len(uart) < Depth
               THEN uart' = Append(uart, Head(wire)) /\ UNCHANGED lost
               ELSE lost' = lost + 1 /\ UNCHANGED uart
    /\ UNCHANGED <<uploader, sent, mode>>

PacingNext == Send \/ Take \/ Tick

\* Time passes, the board reads its UART, the host goes on.
PacingSpec ==
    /\ PacingInit
    /\ [][PacingNext]_pacingVars
    /\ WF_pacingVars(Send) /\ WF_pacingVars(Take) /\ WF_pacingVars(Tick)

-------------------------------------------------------------------------------
(***************************************************************************)
(* No character is lost although the board reads nothing while it prints    *)
(* and although it may have been switched on at any time before: the pauses *)
(* leave room for the banner and the menu, with a UART that holds one       *)
(* character.                                                               *)
(***************************************************************************)
NothingOverrun == lost = 0

(***************************************************************************)
(* The first command finds the board in the console: its letters are never  *)
(* keys of the menu, whose functions its digits would start.                *)
(***************************************************************************)
NeverAstray ==
    /\ mode # "astray"
    /\ mode = "menu" /\ uart # <<>> => Head(uart) \in {"newline", "a"}

(***************************************************************************)
(* Every command of the setup is sent in the end, and its ACK read.         *)
(***************************************************************************)
SetupEnds == <>[](sent = Commands + 2 /\ acked)

===============================================================================
