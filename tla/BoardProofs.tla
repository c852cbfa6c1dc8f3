------------------------------ MODULE BoardProofs ------------------------------
(***************************************************************************)
(* What the loader of MiniBoot does with the tokens of one command: lemmas  *)
(* for the proofs about the uploaders that are attached to it.              *)
(***************************************************************************)
EXTENDS MiniBoot, SequenceTheorems, TLAPS

BoardToken(tok) ==
    \/ tok[1] = "key"
    \/ tok[1] \in {"num", "part"} /\ tok[2] \in Nat

-------------------------------------------------------------------------------
(* Types. *)

LEMMA StoreTypes ==
    ASSUME mem \in [Flash -> Nat], Blank \in Nat, NEW a, NEW v \in Nat
    PROVE  Store(a, v) \in [Flash -> Nat]
  BY DEF Store

LEMMA ValuesTypes ==
    ASSUME NEW tok, BoardToken(tok), NEW v \in Values(tok)
    PROVE  v \in Nat
  BY BootAssumption DEF Values, BoardToken

LEMMA WidthTypes ==
    ASSUME NEW tok, BoardToken(tok)
    PROVE  Width(tok) \in Nat
  BY BootAssumption DEF Width, BoardToken

LEMMA ConsumeTypes ==
    ASSUME BootTypeOK, Blank \in Nat, NEW tok, BoardToken(tok), NEW v \in Values(tok),
           Consume(tok, v)
    PROVE  BootTypeOK'
<1> USE DEF BootTypeOK
<1>0. 0 \in 0..(MAX_DIGITS - 1)
  BY BootAssumption
<1>1. <<>> \in Seq(BOOLEAN) /\ <<>> \in Seq(Nat)
  BY EmptySeq
<1>2. \A b \in BOOLEAN : <<b>> \in Seq(BOOLEAN)
  OBVIOUS
<1>3. CASE \/ MenuConsole(tok) \/ MenuAgain(tok) \/ EnterBridge(tok) \/ Ignore(tok)
           \/ Elsewhere(tok)
  BY <1>1, <1>2, <1>3 DEF MenuConsole, MenuAgain, EnterBridge, Ignore, Elsewhere
<1>6. CASE Absorb(tok)
  <2>1. digits' \in 0..(MAX_DIGITS - 1)
    BY <1>6, BootAssumption, WidthTypes DEF Absorb, EndsNumber, AtLimit
  <2> QED
    BY <1>1, <1>6, <2>1 DEF Absorb
<1>4. CASE Select(tok)
  BY <1>0, <1>1, <1>4 DEF Select, AtPrompt
<1>5. CASE EndsNumber(tok) /\ (ReadHeader(v) \/ ReadData(v))
  <2> DEFINE a == Append(args, v)
  <2>1. v \in Nat
    BY ValuesTypes
  <2>0. digits' \in 0..(MAX_DIGITS - 1)
    BY <1>0, <1>5 DEF ReadHeader, ReadData
  <2>2. a \in Seq(Nat) /\ Len(a) = Len(args) + 1 /\ Len(args) \in Nat
    BY <2>1, AppendProperties, LenProperties
  <2>3. \A i \in 1..Len(a) : a[i] \in Nat
    BY <2>2, ElementOfSeq
  <2>4. mem' \in [Flash -> Nat]
    <3>1. mem' = mem \/ mem' = Store(base, v)
      BY <1>5 DEF ReadHeader, ReadData
    <3> QED
      BY <2>1, <3>1, StoreTypes
  <2>5. CASE Finish
    <3>1. cmd' = "none" /\ args' = <<>> /\ base' = 0 /\ mode' \in {"run", mode}
      BY <2>5 DEF Finish
    <3>2. reply' = <<cmd \in {"w", "s", "j"}>>
      BY <2>5 DEF Finish
    <3>3. reply' \in Seq(BOOLEAN)
      BY <1>2, <3>2
    <3> QED
      BY <1>1, <2>0, <2>4, <3>1, <3>3
  <2>6. CASE ReadHeader(v) /\ ~Finish
    <3>1. /\ args' = a
          /\ base' = CASE cmd = "w" -> a[1]
                       [] cmd = "s" /\ Len(a) = 3 -> a[2] + Load(a[1])
                       [] OTHER -> base
          /\ reply' = <<>> /\ UNCHANGED <<mode, cmd>>
      BY <2>6 DEF ReadHeader
    <3>2. \A x : Load(x) \in Nat
      BY DEF Load
    <3>3. a[1] \in Nat /\ (Len(a) = 3 => a[2] \in Nat)
      BY <2>2, <2>3
    <3>4. Load(a[1]) \in Nat
      BY <3>2
    <3> HIDE DEF a
    <3>5. base' \in Nat
      BY <3>1, <3>3, <3>4
    <3> QED
      BY <1>1, <2>0, <2>2, <2>4, <3>1, <3>5
  <2>7. CASE ReadData(v) /\ ~Finish
    <3>1. args' = a /\ base' = base + 4 /\ reply' = <<>> /\ UNCHANGED <<mode, cmd>>
      BY <2>7 DEF ReadData
    <3> HIDE DEF a
    <3> QED
      BY <1>1, <2>0, <2>2, <2>4, <3>1
  <2> QED
    BY <1>5, <2>5, <2>6, <2>7
<1> QED
  BY <1>3, <1>4, <1>5, <1>6 DEF Consume

-------------------------------------------------------------------------------
(* A w command for the words ws from address a on, and what precedes it: m    *)
(* tokens, which are none, or the newline and the a that start the console.   *)

Prompt == mode = "console" /\ cmd = "none" /\ digits = 0

\* Its k-th number.
Number(a, ws, k) == IF k = 1 THEN a ELSE IF k = 2 THEN Len(ws) ELSE ws[k - 2]

Total(m, ws) == m + 3 + Len(ws)

\* The i-th of those tokens.
TokenAt(m, a, ws, i) ==
    IF i <= m THEN <<"key", IF i = 1 THEN "newline" ELSE "a">>
    ELSE IF i = m + 1 THEN <<"key", "w">>
    ELSE <<"num", Number(a, ws, i - m - 1)>>

\* The loader has read k of its numbers, and nothing of the next one.
Taking(a, ws, k) ==
    /\ mode = "console" /\ cmd = "w" /\ digits = 0
    /\ args \in Seq(Nat) /\ Len(args) = k
    /\ k >= 1 => args[1] = a
    /\ k >= 2 => args[2] = Len(ws)
    /\ k = 1 => base = a
    /\ k >= 2 => base = a + 4 * (k - 2)

\* The loader has executed j of those tokens.
BoardAt(m, a, ws, j) ==
    /\ j < m => mode \in {"menu", "console"} /\ cmd = "none" /\ digits = 0
    /\ j = m => Prompt
    /\ j > m => Taking(a, ws, j - m - 1)

\* The words stored by then.
StoredBy(m, j) == IF j <= m + 3 THEN 0 ELSE j - m - 3

LEMMA NumberTypes ==
    ASSUME NEW a \in Nat, NEW ws \in Seq(Nat), NEW k \in 1..(2 + Len(ws))
    PROVE  Number(a, ws, k) \in Nat
  BY LenProperties, ElementOfSeq DEF Number

\* With nothing read of the next number, a token means what it says, and nothing
\* of it is left.
LEMMA ExactTokens ==
    ASSUME digits = 0, NEW tok, NEW v \in Values(tok), NEW rest \in Rests(tok)
    PROVE  /\ tok[1] = "num" => v = tok[2]
           /\ tok[1] = "key" => ~AtLimit(tok)
           /\ tok[1] \in {"num", "key"} => rest = <<>>
<1>1. tok[1] \in {"num", "key"} => Width(tok) \in Nat /\ Width(tok) < MAX_DIGITS
  BY BootAssumption DEF Width
<1>2. tok[1] = "num" => v = tok[2]
  BY BootAssumption DEF Values
<1>3. tok[1] \in {"num", "key"} => ~AtLimit(tok)
  BY <1>1, BootAssumption DEF AtLimit
<1>4. tok[1] \in {"num", "key"} => rest = <<>>
  BY <1>1, BootAssumption DEF Rests
<1> QED
  BY <1>2, <1>3, <1>4

\* A number of the command, the header's first.
LEMMA TakeNumber ==
    ASSUME NEW a \in Nat, NEW ws \in Seq(Nat), ws # <<>>, NEW k \in 0..(1 + Len(ws)),
           Taking(a, ws, k),
           NEW v \in Values(<<"num", Number(a, ws, k + 1)>>),
           Consume(<<"num", Number(a, ws, k + 1)>>, v)
    PROVE  /\ mem' = IF k < 2 THEN mem ELSE Store(a + 4 * (k - 2), ws[k - 1])
           /\ k < 1 + Len(ws) => Taking(a, ws, k + 1)' /\ reply' = <<>>
           /\ k = 1 + Len(ws) => Prompt' /\ reply' = <<TRUE>>
<1> DEFINE b == Append(args, v)
<1>1. Len(ws) \in Nat /\ Len(ws) >= 1
  BY LenProperties, EmptySeq
<1>0. digits = 0
  BY DEF Taking
<1>11. v = Number(a, ws, k + 1)
  BY <1>0, BootAssumption DEF Values
<1>2. v \in Nat
  BY <1>1, <1>11, NumberTypes
<1>3. mode = "console" /\ cmd = "w" /\ args \in Seq(Nat) /\ Len(args) = k
  BY DEF Taking
<1>4. ReadHeader(v) \/ ReadData(v)
  BY <1>3 DEF Consume, MenuConsole, MenuAgain, Select, EnterBridge, Ignore, Absorb, Elsewhere,
              AtPrompt, EndsNumber
<1>5. /\ b \in Seq(Nat) /\ Len(b) = k + 1
      /\ \A i \in 1..k : b[i] = args[i]
      /\ b[k + 1] = v
  BY <1>2, <1>3, AppendProperties
<1>6. Header[cmd] = 2 /\ DataCount(cmd, b) = b[2]
  BY <1>3 DEF Header, DataCount
<1>7. b[1] = a
  BY <1>3, <1>5, <1>11 DEF Taking, Number
<1>8. k >= 1 => b[2] = Len(ws)
  BY <1>3, <1>5, <1>11 DEF Taking, Number
<1> HIDE DEF b
<1>9. CASE ReadHeader(v)
  <2>1. k < 2 /\ UNCHANGED mem
    BY <1>3, <1>6, <1>9 DEF ReadHeader
  <2>2. ~(Len(b) = Header[cmd] /\ DataCount(cmd, b) = 0)
    BY <1>1, <1>5, <1>6, <1>8, <2>1
  <2>3. args' = b /\ base' = b[1] /\ reply' = <<>> /\ UNCHANGED <<mode, cmd>> /\ digits' = 0
    BY <1>3, <1>9, <2>2 DEF ReadHeader, b
  <2>4. Taking(a, ws, k + 1)'
    BY <1>3, <1>5, <1>7, <1>8, <2>1, <2>3 DEF Taking
  <2> QED
    BY <1>1, <2>1, <2>3, <2>4
<1>10. CASE ReadData(v)
  <2>1. k >= 2 /\ base = a + 4 * (k - 2) /\ b[2] = Len(ws)
    BY <1>3, <1>6, <1>8, <1>10 DEF ReadData, Taking
  <2>2. mem' = Store(a + 4 * (k - 2), ws[k - 1])
    BY <1>3, <1>10, <1>11, <2>1 DEF ReadData, Number
  <2>3. CASE k = 1 + Len(ws)
    <3>1. Finish
      BY SMTT(20), <1>1, <1>5, <1>6, <1>10, <2>1, <2>3 DEF ReadData, b
    <3>2. Prompt' /\ reply' = <<TRUE>>
      BY <1>3, <1>10, <3>1 DEF Finish, Prompt, ReadData
    <3> QED
      BY <1>1, <2>1, <2>2, <2>3, <3>2
  <2>4. CASE k < 1 + Len(ws)
    <3>1. /\ args' = b /\ base' = base + 4 /\ reply' = <<>> /\ digits' = 0
          /\ UNCHANGED <<mode, cmd>>
      BY <1>1, <1>5, <1>6, <1>10, <2>1, <2>4 DEF ReadData, b
    <3>2. base' = a + 4 * ((k + 1) - 2)
      BY <2>1, <3>1
    <3>3. Taking(a, ws, k + 1)'
      BY <1>3, <1>5, <1>7, <2>1, <3>1, <3>2 DEF Taking
    <3> QED
      BY <1>1, <2>1, <2>2, <2>4, <3>1, <3>3
  <2>5. k = 1 + Len(ws) \/ k < 1 + Len(ws)
    BY <1>1
  <2> QED
    BY <2>3, <2>4, <2>5
<1> QED
  BY <1>4, <1>9, <1>10

\* The next of the tokens.
LEMMA BoardStep ==
    ASSUME NEW a \in Nat, NEW ws \in Seq(Nat), ws # <<>>, NEW m \in {0, 2},
           NEW j \in Nat, j < Total(m, ws),
           BoardAt(m, a, ws, j),
           NEW v \in Values(TokenAt(m, a, ws, j + 1)), Consume(TokenAt(m, a, ws, j + 1), v)
    PROVE  /\ mem' = IF j < m + 3 THEN mem ELSE Store(a + 4 * (j - m - 3), ws[j - m - 2])
           /\ j + 1 < Total(m, ws) => BoardAt(m, a, ws, j + 1)' /\ reply' \in {<<>>, <<FALSE>>}
           /\ j + 1 = Total(m, ws) => Prompt' /\ reply' = <<TRUE>>
<1> DEFINE tok == TokenAt(m, a, ws, j + 1)
<1>1. Len(ws) \in Nat /\ Len(ws) >= 1
  BY LenProperties, EmptySeq
<1>2. CASE j < m
  <2>1. mode \in {"menu", "console"} /\ cmd = "none" /\ digits = 0 /\ m = 2 /\ j \in {0, 1}
    BY <1>2 DEF BoardAt
  <2>2. \/ tok = <<"key", "newline">> /\ j = 0
        \/ tok = <<"key", "a">> /\ j = 1
    BY <2>1 DEF TokenAt
  <2> HIDE DEF tok
  <2>3. MenuConsole(tok) \/ MenuAgain(tok) \/ Ignore(tok)
    BY <2>1, <2>2 DEF Consume, Select, EnterBridge, Absorb, Elsewhere, ReadHeader, ReadData,
                      Header, tok
  <2>4. /\ UNCHANGED <<mem, cmd, digits>> /\ reply' \in {<<>>, <<FALSE>>}
        /\ mode' \in {"menu", "console"} /\ (j = 1 => mode' = "console")
    <3>1. /\ UNCHANGED <<mem, cmd, digits>> /\ reply' \in {<<>>, <<FALSE>>}
          /\ mode' \in {"console", mode}
      BY <2>3 DEF MenuConsole, MenuAgain, Ignore
    <3>2. tok = <<"key", "a">> => ~MenuAgain(tok) /\ (Ignore(tok) => mode = "console")
      BY DEF MenuAgain, Ignore, AtPrompt
    <3>3. tok = <<"key", "a">> => mode' = "console"
      BY <2>3, <3>1, <3>2 DEF MenuConsole
    <3>4. j = 1 => tok = <<"key", "a">>
      BY <2>2
    <3> QED
      BY <2>1, <3>1, <3>3, <3>4
  <2>5. BoardAt(m, a, ws, j + 1)'
    BY <2>1, <2>4 DEF BoardAt, Prompt
  <2>6. j < m + 3 /\ j + 1 < Total(m, ws) /\ j + 1 # Total(m, ws)
    BY <1>1, <2>1 DEF Total
  <2> QED
    BY <2>4, <2>5, <2>6
<1>3. CASE j = m
  <2>1. tok = <<"key", "w">>
    BY <1>3 DEF TokenAt
  <2>2. mode = "console" /\ cmd = "none"
    BY <1>3 DEF BoardAt, Prompt
  <2>3. Select(tok)
    BY <2>1, <2>2 DEF Consume, MenuConsole, MenuAgain, EnterBridge, Ignore, Absorb,
                      Elsewhere, AtPrompt, ReadHeader, ReadData, Header
  <2>4. cmd' = "w" /\ args' = <<>> /\ digits' = 0 /\ UNCHANGED <<mem, mode>> /\ reply' = <<>>
    BY <2>1, <2>3 DEF Select
  <2>5. Taking(a, ws, 0)'
    BY <2>2, <2>4, EmptySeq DEF Taking
  <2>6. (j + 1) - m - 1 = 0
    BY <1>3
  <2>7. BoardAt(m, a, ws, j + 1)'
    BY <1>3, <2>5, <2>6 DEF BoardAt
  <2> QED
    BY <1>1, <1>3, <2>4, <2>7 DEF Total
<1>4. CASE j > m
  <2> DEFINE k == j - m - 1
  <2>1. k \in 0..(1 + Len(ws)) /\ Taking(a, ws, k)
    BY <1>1, <1>4 DEF BoardAt, Total
  <2>2. tok = <<"num", Number(a, ws, k + 1)>>
    BY <1>4 DEF TokenAt
  <2>3. /\ mem' = IF k < 2 THEN mem ELSE Store(a + 4 * (k - 2), ws[k - 1])
        /\ k < 1 + Len(ws) => Taking(a, ws, k + 1)' /\ reply' = <<>>
        /\ k = 1 + Len(ws) => Prompt' /\ reply' = <<TRUE>>
    BY <2>1, <2>2, TakeNumber
  <2>4. k - 2 = j - m - 3 /\ k - 1 = j - m - 2 /\ (k < 2 <=> j < m + 3)
    BY <1>4
  <2>5. j + 1 < Total(m, ws) => k < 1 + Len(ws)
    BY <1>1, <1>4 DEF Total
  <2>6. j + 1 = Total(m, ws) => k = 1 + Len(ws)
    BY <1>1, <1>4 DEF Total
  <2>7. Taking(a, ws, k + 1)' => BoardAt(m, a, ws, j + 1)'
    <3>1. k + 1 = (j + 1) - m - 1
      BY <1>4
    <3> QED
      BY <1>4, <3>1 DEF BoardAt
  <2> QED
    BY <2>3, <2>4, <2>5, <2>6, <2>7
<1>5. j < m \/ j = m \/ j > m
  OBVIOUS
<1> QED
  BY <1>2, <1>3, <1>4, <1>5

===============================================================================
