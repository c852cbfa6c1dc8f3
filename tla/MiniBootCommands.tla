--------------------------- MODULE MiniBootCommands ---------------------------
(***************************************************************************)
(* The loader of MiniBoot alone, fed with any tokens, against what its      *)
(* commands are for: w stores its words from an address on, s stores them   *)
(* from an offset to the word at a pointer on.                              *)
(***************************************************************************)
EXTENDS MiniBoot

CONSTANTS
    Numbers,    \* values of the numbers fed
    MaxTokens   \* bound: how many tokens are fed

ASSUME CommandsAssumption ==
    /\ EraseAddr \notin Flash
    /\ Numbers \subseteq Nat
    /\ Mixed \subseteq Numbers
    /\ Blank \in Nat

VARIABLES
    fed,      \* tokens fed so far
    before,   \* the flash when the last command was selected
    letter,   \* the last command selected
    numbers   \* the numbers it has been given

history     == <<fed, before, letter, numbers>>
commandVars == <<bootVars, history>>

Keys == {"newline", "a", "w", "s", "r", "l", "R", "j", "d", "i"}

CommandsInit ==
    /\ BootInit
    /\ fed = 0
    /\ before = mem
    /\ letter = "none"
    /\ numbers = <<>>

\* What the loader leaves of a token is one of the tokens that may come next.
Feed(tok) ==
    /\ fed < MaxTokens
    /\ mode = "menu" => tok[1] = "key"
    /\ fed' = fed + 1
    /\ \E v \in Values(tok) :
        /\ Consume(tok, v)
        /\ IF cmd = "none" /\ cmd' # "none"
           THEN before' = mem /\ letter' = cmd' /\ numbers' = <<>>
           ELSE /\ UNCHANGED <<before, letter>>
                /\ numbers' = IF cmd # "none" /\ EndsNumber(tok)
                              THEN Append(numbers, v) ELSE numbers

CommandsNext ==
    \/ \E k \in Keys : Feed(<<"key", k>>)
    \/ \E v \in Numbers : Feed(<<"num", v>>)
    \/ \E d \in 1..DIGITS : Feed(<<"part", d>>)

CommandsSpec == CommandsInit /\ [][CommandsNext]_commandVars

-------------------------------------------------------------------------------
Old(a) == IF a \in Flash THEN before[a] ELSE 0

\* Where a command's words go, once its numbers say so.
Target ==
    CASE letter = "w" -> numbers[1]
      [] letter = "s" -> numbers[2] + Old(numbers[1])

\* The words the command was given so far, and where they go, one after another.
Words ==
    IF letter \in {"w", "s"} THEN 1..(Len(numbers) - Header[letter]) ELSE {}
Place(d) == Target + 4 * (d - 1)
Word(d)  == numbers[Header[letter] + d]

\* Those of them that go to f, and whether one of them erased the flash after d.
GivenTo(f)   == {d \in Words : Place(d) = f}
Erasures     == GivenTo(EraseAddr)
StillThere(d) == \A e \in Erasures : e < d

\* Cell f as the command means it: the word it was given for f, unless it was
\* then erased, and what the flash held before otherwise.
AsMeant(f) ==
    IF \E d \in GivenTo(f) : StillThere(d)
    THEN \A d \in GivenTo(f) : mem[f] = Word(d)
    ELSE mem[f] = IF Erasures = {} THEN before[f] ELSE Blank

(***************************************************************************)
(* At every moment the flash is what the command and the numbers it was     *)
(* given so far mean, w and s alike, whatever letters were read as digits   *)
(* on the way; s keeps the base it read before it stored anything, even if  *)
(* it then stores over the pointer; a word for the flash controller erases  *)
(* what came before it, and no other command stores.                        *)
(***************************************************************************)
StoresWhatIsMeant == \A f \in Flash : AsMeant(f)

(***************************************************************************)
(* A command takes exactly the numbers it announced, and is back at the     *)
(* prompt with the last of them: what follows is a new command.             *)
(***************************************************************************)
TakesWhatItAnnounced ==
    letter # "none" =>
        LET header == Header[letter]
            data   == IF letter \in {"w", "s", "R"} THEN numbers[header] ELSE 0
        IN  /\ cmd = "none" => Len(numbers) = header + data
            /\ cmd # "none" /\ Len(numbers) >= header => Len(numbers) < header + data

===============================================================================
