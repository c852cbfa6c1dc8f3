---------------------------- MODULE W2UploadProofs ----------------------------
(***************************************************************************)
(* W2Uploader::upload against the board, for every image, every size of     *)
(* chunks and every pace of the two: what keeps them in step, what the      *)
(* flash holds meanwhile, and what the ACKs say about it.                   *)
(***************************************************************************)
EXTENDS W2Upload, SerialPortClientProofs, BoardProofs

\* Address and words of the p-th command, for those that store.
Target(p) == CASE p = 3 -> SPECIAL_SEQUENCE [] p = 4 -> FLASH_UNLOCK [] p = 5 -> EraseAddr
               [] OTHER -> EXECUTION_ADDRESS
Words(p)  == CASE p = 3 -> <<64>> [] p = 4 -> <<165>> [] p = 5 -> <<0>> [] OTHER -> Chunk(p - 5)

Length(p) == IF p <= 2 THEN 1 ELSE 3 + Len(Words(p))

(***************************************************************************)
(* Positions.  sigma says which command of the script the p-th write has    *)
(* sent.  at says of the i-th token on the line which write sent it, where  *)
(* in that command it is, and whether it is all of that token or only its   *)
(* first digits; at[0] is the token executed last.                          *)
(***************************************************************************)
Position == [of : Nat, idx : Nat, exact : BOOLEAN]

Whole(sigma, q) == q.of > 0 => q.exact /\ q.idx = Length(sigma[q.of])

\* The tokens of a write follow one another, and nothing of it follows a piece;
\* those of the next write may start anywhere if writes are cut.
Follows(sigma, q, r) ==
    \/ q.exact /\ r.of = q.of /\ r.idx = q.idx + 1
    \/ /\ r.of = q.of + 1 /\ r.idx = 1
       /\ "short" \notin faults => Whole(sigma, q)

\* What stands at a position: a token of the command, or a piece of a number.
Piece(tok) == tok[1] = "part" /\ tok[2] \in 1..DIGITS

Stands(sigma, q, tok) ==
    IF q.exact THEN tok = Script(sigma[q.of])[q.idx] ELSE Piece(tok)

Sent(sigma) ==
    /\ sigma \in [Nat -> Nat]
    /\ \A p \in 1..written :
          /\ sigma[p] \in 1..ScriptLength
          /\ p <= 5 => sigma[p] = p
          /\ p > 5 => sigma[p] > 5
    /\ IF pos <= 5 THEN written = pos ELSE written \in 5..pos
    /\ pos <= ScriptLength
    /\ stage = "flush" => pos = 0

Reached(sigma, q) ==
    /\ q \in Position
    /\ q.of <= written
    /\ IF q.of = 0 THEN q.idx = 0 /\ q.exact ELSE q.idx \in 1..Length(sigma[q.of])
    /\ ~q.exact => "short" \in faults /\ q.idx > 1

OnTheLine(sigma, at) ==
    /\ at \in [Nat -> Position]
    /\ \A i \in 0..Len(line) : Reached(sigma, at[i])
    /\ \A i \in 1..Len(line) :
          /\ at[i].of > 0
          /\ Stands(sigma, at[i], line[i].tok) /\ line[i].of = at[i].of
          /\ Follows(sigma, at[i - 1], at[i])
    /\ ~Closed => /\ at[Len(line)].of = written
                  /\ "short" \notin faults => Whole(sigma, at[Len(line)])

(***************************************************************************)
(* The board is in step: it has executed the tokens of every command up to  *)
(* the position q, and no other.  A piece of a number waits for its end.    *)
(***************************************************************************)
InStepAt(sigma, q) ==
    IF q.of <= 1 THEN mode \in {"menu", "console"} /\ cmd = "none" /\ digits = 0
    ELSE IF Whole(sigma, q) THEN Prompt
    ELSE IF q.exact THEN Taking(Target(sigma[q.of]), Words(sigma[q.of]), q.idx - 1)
    ELSE cmd = "w"

\* Up to there nothing is stored before the flash is erased.
ErasedAt(q) ==
    /\ q.of > 5 \/ (q.of = 5 /\ q.idx = 4) => erased
    /\ ~erased => \A f \in Flash : mem[f] = 0

\* The flash if the image is one chunk.
ImageAt(q) ==
    erased /\ q.exact =>
        \A i \in 1..Len(Image) :
            mem[Cell(i)] = IF q.of > 5 /\ i + 3 <= q.idx THEN Image[i] ELSE Blank

Clean(sigma, q) == InStepAt(sigma, q) /\ (q.exact => ErasedAt(q))

(***************************************************************************)
(* Whatever the board makes of the tokens, they come in the order of the    *)
(* writes, and each w is the first of its write: n is the write whose token *)
(* was executed last.                                                       *)
(***************************************************************************)
Kind(tok) == tok \in {key("newline"), key("a"), key("w")} \/ tok[1] \in {"num", "part"}

InOrder(n) ==
    /\ n \in 0..written
    /\ \A i \in 1..Len(line) :
          /\ Kind(line[i].tok) /\ n <= line[i].of /\ line[i].of \in 1..written
          /\ line[i].tok = key("w") => n < line[i].of /\ line[i].of >= 3
    /\ \A i, j \in 1..Len(line) :
          i < j => /\ line[i].of <= line[j].of
                   /\ line[j].tok = key("w") => line[i].of < line[j].of

-------------------------------------------------------------------------------
(* The ACKs that are on their way, in the order in which they will be scanned. *)

wire == buf \o rx

(***************************************************************************)
(* An ACK carries the write whose token ended a command.  Between two ACKs  *)
(* the board has taken the w of another write, so no write has two.         *)
(***************************************************************************)
AcksAt(n) ==
    /\ cmd \in {"none", "w"}
    /\ loop \in {"kevent", "dispatch", "readable"} => buf = <<>>
    /\ lastAck <= n /\ (cmd = "w" => lastAck < n /\ n >= 3)
    /\ acksRead + 2 <= lastAck \/ (acksRead = 0 /\ lastAck = 0)
    /\ \A i \in 1..Len(wire) : wire[i].ack =>
          /\ 3 <= wire[i].of /\ wire[i].of <= n /\ lastAck < wire[i].of
          /\ cmd = "w" => wire[i].of < n
    /\ \A i, j \in 1..Len(wire) : wire[i].ack /\ wire[j].ack /\ i < j => wire[i].of < wire[j].of

\* A write before the n-th that was cut, or that found the board out of step,
\* never gets an ACK.
Unanswered(n) ==
    \E g \in 3..written :
        /\ g < n
        /\ \A i \in 1..Len(wire) : wire[i].ack => wire[i].of # g
        /\ lastAck >= g => acksRead + 2 < lastAck

OneChunk == Len(Image) <= ChunkWords

(***************************************************************************)
(* The inductive invariant.  Without short writes the board is in step; in  *)
(* any case it is in step or some write remains without an ACK.             *)
(***************************************************************************)
WithBoard(sigma, at, n) == at[0].of = n /\ OnTheLine(sigma, at) /\ Clean(sigma, at[0])

InvAt(sigma, at, n) ==
    /\ Sent(sigma)
    /\ InOrder(n)
    /\ "short" \notin faults => WithBoard(sigma, at, n)
    /\ "short" \notin faults /\ OneChunk => ImageAt(at[0])
    /\ "stale" \notin faults => AcksAt(n)
    /\ "stale" \notin faults /\ OneChunk =>
          (WithBoard(sigma, at, n) /\ ImageAt(at[0])) \/ Unanswered(n)

UploadInv == \E sigma, at, n : InvAt(sigma, at, n)

-------------------------------------------------------------------------------
(* The script. *)

LEMMA ChunkInImage ==
    ASSUME NEW c \in 1..Chunks
    PROVE  /\ (c - 1) * ChunkWords \in Nat /\ (c - 1) * ChunkWords < Len(Image)
           /\ OneChunk => c = 1
<1> DEFINE L == Len(Image)
           W == ChunkWords
           N == Chunks
<1>1. L \in Nat /\ W \in Nat \ {0} /\ L + W - 1 \in Nat
  BY UploadAssumption, LenProperties
<1>2. N = (L + W - 1) \div W
  BY DEF Chunks
<1> HIDE DEF L, W, N
<1>3. N \in Nat /\ N * W <= L + W - 1 /\ L + W - 1 < N * W + W
  BY <1>1, <1>2
<1>4. c \in Nat /\ 1 <= c /\ c <= N
  BY <1>3 DEF N
<1>5. c * W <= N * W
  BY <1>1, <1>3, <1>4
<1>6. (c - 1) * W = c * W - W /\ c * W \in Nat /\ N * W \in Nat
  BY <1>1, <1>3, <1>4
<1>7. (c - 1) * W < L
  BY <1>1, <1>3, <1>5, <1>6
<1>8. (c - 1) * W \in Nat
  BY <1>1, <1>4
<1>9. L <= W => c = 1
  <2> SUFFICES ASSUME L <= W, c # 1 PROVE FALSE
    OBVIOUS
  <2>1. c - 1 \in Nat /\ 1 <= c - 1
    BY <1>4
  <2>2. 1 * W <= (c - 1) * W
    BY <1>1, <2>1
  <2> QED
    BY <1>1, <1>7, <1>8, <2>2
<1> QED
  BY <1>7, <1>8, <1>9 DEF L, W, OneChunk

LEMMA ChunkShape ==
    ASSUME NEW c \in 1..Chunks
    PROVE  /\ Chunk(c) \in Seq(Nat) /\ Len(Chunk(c)) \in 1..ChunkWords
           /\ \A i \in 1..Len(Chunk(c)) : \E d \in 1..Len(Image) : Chunk(c)[i] = Image[d]
           /\ OneChunk => /\ Len(Chunk(c)) = Len(Image)
                          /\ \A i \in 1..Len(Image) : Chunk(c)[i] = Image[i]
<1> DEFINE o == (c - 1) * ChunkWords
           n == WriteSize(o)
<1>1. Len(Image) \in Nat /\ ChunkWords \in Nat \ {0} /\ Image \in Seq(Nat)
  BY UploadAssumption, LenProperties
<1>2. o \in Nat /\ o < Len(Image) /\ (OneChunk => c = 1)
  BY ChunkInImage
<1>3. Chunk(c) = SubSeq(Image, o + 1, o + n)
  BY DEF Chunk
<1>4. OneChunk => o = 0
  BY <1>1, <1>2
<1> HIDE DEF o
<1>5. n \in 1..ChunkWords /\ o + n <= Len(Image) /\ (OneChunk /\ o = 0 => n = Len(Image))
  BY <1>1, <1>2 DEF WriteSize, OneChunk
<1> HIDE DEF n
<1>6. o + 1 \in 1..Len(Image) + 1 /\ o + n \in Nat /\ (o + n) - (o + 1) + 1 = n
  BY <1>1, <1>2, <1>5
<1>7. /\ SubSeq(Image, o + 1, o + n) \in Seq(Nat) /\ Len(SubSeq(Image, o + 1, o + n)) = n
      /\ \A i \in 1..n : SubSeq(Image, o + 1, o + n)[i] = Image[(o + 1) + i - 1]
  <2> DEFINE l == o + 1
             h == o + n
  <2>1. l \in Int /\ h \in Int /\ h - l + 1 = n /\ l <= h
    BY <1>2, <1>5, <1>6
  <2>2. \A j \in l..h : Image[j] \in Nat
    BY <1>1, <1>2, <1>5, <1>6
  <2> HIDE DEF l, h
  <2>3. /\ SubSeq(Image, l, h) \in Seq(Nat) /\ Len(SubSeq(Image, l, h)) = n
        /\ \A i \in 1..n : SubSeq(Image, l, h)[i] = Image[l + i - 1]
    BY <2>1, <2>2, SubSeqProperties
  <2> QED
    BY <2>3 DEF l, h
<1>8. \A i \in 1..n : SubSeq(Image, o + 1, o + n)[i] = Image[o + i] /\ o + i \in 1..Len(Image)
  <2> TAKE i \in 1..n
  <2>1. o + i \in 1..Len(Image) /\ (o + 1) + i - 1 = o + i
    BY <1>1, <1>2, <1>5
  <2>2. SubSeq(Image, o + 1, o + n)[i] = Image[(o + 1) + i - 1]
    BY <1>7
  <2> QED
    BY <2>1, <2>2
<1> DEFINE s == SubSeq(Image, o + 1, o + n)
<1>9. ASSUME OneChunk PROVE Len(s) = Len(Image) /\ \A i \in 1..Len(Image) : s[i] = Image[i]
  <2>1. o = 0 /\ n = Len(Image)
    BY <1>4, <1>5, <1>9
  <2>2. \A i \in 1..n : o + i = i
    BY <1>5, <2>1
  <2> QED
    BY <1>7, <1>8, <2>1, <2>2
<1>10. s \in Seq(Nat) /\ Len(s) \in 1..ChunkWords
  BY <1>5, <1>7
<1>11. \A i \in 1..Len(s) : \E d \in 1..Len(Image) : s[i] = Image[d]
  BY <1>7, <1>8
<1> HIDE DEF s
<1> QED
  BY <1>3, <1>9, <1>10, <1>11 DEF s

LEMMA StoreCommand ==
    ASSUME NEW p \in 3..ScriptLength
    PROVE  /\ Target(p) \in Nat /\ Words(p) \in Seq(Nat) /\ Words(p) # <<>>
           /\ Script(p) = <<key("w"), num(Target(p)), num(Len(Words(p)))>>
                             \o [i \in 1..Len(Words(p)) |-> num(Words(p)[i])]
<1>1. Len(Setup) = 5
  BY DEF Setup
<1>2. Target(p) \in Nat
  BY UploadAssumption DEF Target, SPECIAL_SEQUENCE, FLASH_UNLOCK, EXECUTION_ADDRESS
<1>3. CASE p = 3
  <2>1. Script(p) = <<key("w"), num(SPECIAL_SEQUENCE), num(1), num(64)>>
    BY <1>1, <1>3 DEF Script, Setup
  <2> QED
    BY <1>2, <1>3, <2>1 DEF Target, Words
<1>4. CASE p = 4
  <2>1. Script(p) = <<key("w"), num(FLASH_UNLOCK), num(1), num(165)>>
    BY <1>1, <1>4 DEF Script, Setup
  <2> QED
    BY <1>2, <1>4, <2>1 DEF Target, Words
<1>5. CASE p = 5
  <2>1. Script(p) = <<key("w"), num(EraseAddr), num(1), num(0)>>
    BY <1>1, <1>5 DEF Script, Setup
  <2> QED
    BY <1>2, <1>5, <2>1 DEF Target, Words
<1>6. CASE p > 5
  <2>1. Chunks \in Int
    BY UploadAssumption, LenProperties DEF Chunks
  <2>2. p - 5 \in 1..Chunks
    BY <1>1, <1>6, <2>1 DEF ScriptLength
  <2>3. Chunk(p - 5) \in Seq(Nat) /\ Len(Chunk(p - 5)) >= 1
    BY <2>2, ChunkShape
  <2>4. Chunk(p - 5) # <<>>
    BY <2>3, EmptySeq
  <2>5. Script(p) = WriteCommand(Chunk(p - 5))
    BY <1>1, <1>6 DEF Script
  <2>6. Target(p) = EXECUTION_ADDRESS /\ Words(p) = Chunk(p - 5)
    BY <1>6 DEF Target, Words
  <2> QED
    BY <1>2, <2>3, <2>4, <2>5, <2>6 DEF WriteCommand
<1>7. p = 3 \/ p = 4 \/ p = 5 \/ p > 5
  OBVIOUS
<1> QED
  BY <1>3, <1>4, <1>5, <1>6, <1>7

LEMMA NumbersSent ==
    ASSUME NEW p \in 3..ScriptLength
    PROVE  /\ Target(p) \in Numbers /\ Len(Words(p)) \in Numbers
           /\ \A i \in 1..Len(Words(p)) : Words(p)[i] \in Numbers
<1>1. Target(p) \in Numbers
  BY DEF Target, Numbers
<1>2. CASE p \in 3..5
  <2>1. Words(p) \in {<<64>>, <<165>>, <<0>>}
    BY <1>2 DEF Words
  <2>2. Len(Words(p)) = 1 /\ Words(p)[1] \in {64, 165, 0}
    BY <2>1
  <2> HIDE DEF Words
  <2> QED
    BY <1>1, <2>2 DEF Numbers
<1>3. CASE p > 5
  <2>1. Chunks \in Int
    BY UploadAssumption, LenProperties DEF Chunks
  <2>2. Len(Setup) = 5
    BY DEF Setup
  <2>3. p - 5 \in 1..Chunks
    BY <1>3, <2>1, <2>2 DEF ScriptLength
  <2>4. /\ Len(Chunk(p - 5)) \in 1..ChunkWords
        /\ \A i \in 1..Len(Chunk(p - 5)) :
              \E d \in 1..Len(Image) : Chunk(p - 5)[i] = Image[d]
    BY <2>3, ChunkShape
  <2>5. Words(p) = Chunk(p - 5)
    BY <1>3 DEF Words
  <2> QED
    BY <1>1, <2>4, <2>5 DEF Numbers
<1>4. p \in 3..5 \/ p > 5
  OBVIOUS
<1> QED
  BY <1>2, <1>3, <1>4

LEMMA HeaderThenData ==
    ASSUME NEW h \in Seq(Tokens), NEW d \in Seq(Tokens)
    PROVE  /\ h \o d \in Seq(Tokens) /\ Len(h \o d) = Len(h) + Len(d)
           /\ \A i \in 1..(Len(h) + Len(d)) :
                 (h \o d)[i] = IF i <= Len(h) THEN h[i] ELSE d[i - Len(h)]
  BY ConcatProperties

\* The tokens of a command that stores are those of BoardProofs.
LEMMA StoreShape ==
    ASSUME NEW p \in 3..ScriptLength
    PROVE  /\ Script(p) \in Seq(Tokens) /\ Len(Script(p)) = Length(p)
           /\ Length(p) = Total(0, Words(p)) /\ Length(p) \in Nat /\ Length(p) >= 4
           /\ \A i \in 1..Length(p) : Script(p)[i] = TokenAt(0, Target(p), Words(p), i)
<1> DEFINE ws     == Words(p)
           a      == Target(p)
           header == <<key("w"), num(a), num(Len(ws))>>
           data   == [i \in 1..Len(ws) |-> num(ws[i])]
<1>1. a \in Nat /\ ws \in Seq(Nat) /\ ws # <<>> /\ Script(p) = header \o data
  BY StoreCommand
<1>2. Len(ws) \in Nat /\ Len(ws) >= 1
  BY <1>1, LenProperties, EmptySeq
<1>3. a \in Numbers /\ Len(ws) \in Numbers /\ \A i \in 1..Len(ws) : ws[i] \in Numbers
  BY NumbersSent
<1>4. key("w") \in Tokens /\ \A v \in Numbers : num(v) \in Tokens
  BY UploadAssumption
<1> HIDE DEF ws, a
<1>5. header \in Seq(Tokens) /\ Len(header) = 3
  BY <1>3, <1>4
<1>6. data \in Seq(Tokens) /\ Len(data) = Len(ws)
  <2>1. \A i \in 1..Len(ws) : num(ws[i]) \in Tokens
    BY <1>3, <1>4
  <2> QED
    BY <1>2, <2>1, IsASeq
<1>7. /\ header[1] = key("w") /\ header[2] = num(a) /\ header[3] = num(Len(ws))
      /\ \A i \in 1..Len(ws) : data[i] = num(ws[i])
  OBVIOUS
<1> HIDE DEF header, data
<1>8. /\ header \o data \in Seq(Tokens) /\ Len(header \o data) = 3 + Len(ws)
      /\ \A i \in 1..(3 + Len(ws)) :
            (header \o data)[i] = IF i <= 3 THEN header[i] ELSE data[i - 3]
  <2>1. /\ header \o data \in Seq(Tokens) /\ Len(header \o data) = Len(header) + Len(data)
        /\ \A i \in 1..(Len(header) + Len(data)) :
              (header \o data)[i] = IF i <= Len(header) THEN header[i] ELSE data[i - Len(header)]
    BY <1>5, <1>6, HeaderThenData
  <2> QED
    BY <1>5, <1>6, <2>1
<1>9. Length(p) = 3 + Len(ws)
  BY DEF Length, ws
<1>10. ASSUME NEW i \in 1..(3 + Len(ws))
       PROVE  Script(p)[i] = TokenAt(0, a, ws, i)
  <2>1. Script(p)[i] = IF i <= 3 THEN header[i] ELSE data[i - 3]
    BY <1>1, <1>8
  <2>2. CASE i = 1
    BY <1>7, <2>1, <2>2 DEF TokenAt, key
  <2>3. CASE i = 2
    BY <1>7, <2>1, <2>3 DEF TokenAt, Number, num
  <2>4. CASE i = 3
    BY <1>7, <2>1, <2>4 DEF TokenAt, Number, num
  <2>5. CASE i > 3
    <3>1. i - 3 \in 1..Len(ws)
      BY <1>2, <2>5
    <3>2. Script(p)[i] = num(ws[i - 3])
      BY <1>7, <2>1, <2>5, <3>1
    <3>3. Number(a, ws, i - 0 - 1) = ws[i - 3]
      BY <2>5 DEF Number
    <3> QED
      BY <2>5, <3>2, <3>3 DEF TokenAt, num
  <2> QED
    BY <1>2, <2>2, <2>3, <2>4, <2>5
<1> QED
  BY <1>1, <1>2, <1>8, <1>9, <1>10 DEF Total, ws, a

LEMMA ScriptShape ==
    ASSUME NEW p \in 1..ScriptLength
    PROVE  /\ Script(p) \in Seq(Tokens) /\ Len(Script(p)) = Length(p)
           /\ Length(p) \in Nat /\ Length(p) >= 1
           /\ p = 1 => Script(p)[1] = key("newline")
           /\ p = 2 => Script(p)[1] = key("a")
           /\ \A i \in 1..Length(p) : BoardToken(Script(p)[i])
<1>1. CASE p \in 1..2
  <2>1. Len(Setup) = 5
    BY DEF Setup
  <2>2. Script(p) = IF p = 1 THEN <<key("newline")>> ELSE <<key("a")>>
    BY <1>1, <2>1 DEF Script, Setup
  <2>3. key("newline") \in Tokens /\ key("a") \in Tokens
    BY UploadAssumption
  <2>4. Length(p) = 1
    BY <1>1 DEF Length
  <2>5. Script(p) \in Seq(Tokens) /\ Len(Script(p)) = 1
    BY <2>2, <2>3
  <2>6. Script(p)[1] = IF p = 1 THEN key("newline") ELSE key("a")
    BY <2>2
  <2>7. BoardToken(Script(p)[1])
    BY <2>6 DEF BoardToken, key
  <2> HIDE DEF Script
  <2> QED
    BY <1>1, <2>4, <2>5, <2>6, <2>7
<1>2. CASE p \in 3..ScriptLength
  <2>1. Target(p) \in Nat /\ Words(p) \in Seq(Nat) /\ Words(p) # <<>>
    BY <1>2, StoreCommand
  <2>2. ASSUME NEW i \in 1..Length(p)
        PROVE  BoardToken(Script(p)[i])
    <3>1. Script(p)[i] = TokenAt(0, Target(p), Words(p), i) /\ i <= 3 + Len(Words(p))
      BY <1>2, <2>2, StoreShape DEF Total
    <3>2. CASE i = 1
      BY <3>1, <3>2 DEF TokenAt, BoardToken
    <3>3. CASE i > 1
      <4>1. i - 0 - 1 \in 1..(2 + Len(Words(p)))
        BY <2>1, <3>1, <3>3, LenProperties
      <4>2. Number(Target(p), Words(p), i - 0 - 1) \in Nat
        BY <2>1, <4>1, NumberTypes
      <4>3. Script(p)[i] = <<"num", Number(Target(p), Words(p), i - 0 - 1)>>
        BY <3>1, <3>3 DEF TokenAt
      <4> QED
        BY <4>2, <4>3 DEF BoardToken
    <3>4. i = 1 \/ i > 1
      BY <1>2, StoreShape
    <3> QED
      BY <3>2, <3>3, <3>4
  <2> QED
    BY <1>2, <2>2, StoreShape
<1>3. p \in 1..2 \/ p \in 3..ScriptLength
  <2>1. Chunks \in Int /\ Len(Setup) = 5
    BY UploadAssumption, LenProperties DEF Chunks, Setup
  <2> QED
    BY <2>1 DEF ScriptLength
<1> QED
  BY <1>1, <1>2, <1>3

LEMMA ScriptLengthType == Chunks \in Nat /\ ScriptLength = 5 + Chunks /\ ScriptLength \in Nat
<1>1. Len(Image) + ChunkWords - 1 \in Nat /\ ChunkWords \in Nat \ {0}
  BY UploadAssumption, LenProperties
<1>2. (Len(Image) + ChunkWords - 1) \div ChunkWords \in Nat
  BY <1>1
<1> QED
  BY <1>2 DEF Chunks, ScriptLength, Setup

\* What each token of the script is.
LEMMA TokenKinds ==
    ASSUME NEW p \in 1..ScriptLength, NEW i \in 1..Length(p)
    PROVE  /\ p = 1 => Script(p)[i] = key("newline")
           /\ p = 2 => Script(p)[i] = key("a")
           /\ p >= 3 /\ i = 1 => Script(p)[i] = key("w")
           /\ p >= 3 /\ i > 1 => Script(p)[i][1] = "num"
           /\ p = 1 \/ p = 2 \/ p >= 3
           /\ i = 1 \/ i > 1
<1>1. p <= 2 => Length(p) = 1
  BY DEF Length
<1>2. p = 1 \/ p = 2 \/ p \in 3..ScriptLength
  BY ScriptLengthType
<1>3. Length(p) \in Nat
  BY ScriptShape
<1>4. CASE p <= 2
  <2>1. i = 1
    BY <1>1, <1>4
  <2> QED
    BY <1>2, <1>4, <2>1, ScriptShape
<1>5. CASE p \in 3..ScriptLength
  <2>1. Script(p)[i] = TokenAt(0, Target(p), Words(p), i)
    BY <1>5, StoreShape
  <2>2. i = 1 => Script(p)[i] = key("w")
    BY <2>1 DEF TokenAt, key
  <2>3. i > 1 => Script(p)[i] = <<"num", Number(Target(p), Words(p), i - 0 - 1)>>
    BY <2>1 DEF TokenAt
  <2>4. i > 1 => Script(p)[i][1] = "num"
    BY <2>3
  <2> QED
    BY <1>3, <1>5, <2>2, <2>4
<1> QED
  BY <1>2, <1>4, <1>5

-------------------------------------------------------------------------------
(* Types. *)

ForTheBoard(tok) == BoardToken(tok) /\ (tok[1] = "part" => Piece(tok))

TokensAreForTheBoard == \A i \in 1..Len(line) : ForTheBoard(line[i].tok)

TypeInv == W2TypeOK /\ TokensAreForTheBoard

LEMMA W2InitTypes == W2Init => TypeInv
<1> SUFFICES ASSUME W2Init PROVE TypeInv
  OBVIOUS
<1>1. TypeOK
  BY InitTypes DEF W2Init
<1>2. BootTypeOK
  <2>1. BootInit /\ 0 \in 0..(MAX_DIGITS - 1)
    BY BootAssumption DEF W2Init
  <2>2. args \in Seq(Nat)
    BY <2>1, EmptySeq DEF BootInit
  <2> QED
    BY <2>1, <2>2 DEF BootInit, BootTypeOK
<1>3. Len(line) = 0
  BY EmptySeq DEF W2Init, Init
<1>4. TokensAreForTheBoard
  BY <1>3 DEF TokensAreForTheBoard
<1>5. faults \in FaultModels /\ stage = "flush" /\ pos = 0 /\ erased \in BOOLEAN
  BY DEF W2Init
<1>6. pos \in 0..ScriptLength
  BY <1>5, ScriptLengthType
<1> QED
  BY <1>1, <1>2, <1>4, <1>5, <1>6 DEF TypeInv, W2TypeOK

LEMMA PieceShape ==
    ASSUME NEW d \in 1..DIGITS
    PROVE  Piece(part(d)) /\ ForTheBoard(part(d)) /\ part(d) \in Tokens
<1>1. part(d) \in Tokens
  BY UploadAssumption
<1>2. part(d)[1] = "part" /\ part(d)[2] = d
  BY DEF part
<1>3. d \in Nat
  BY BootAssumption
<1> QED
  BY <1>1, <1>2, <1>3 DEF Piece, ForTheBoard, BoardToken

LEMMA ScriptForTheBoard ==
    ASSUME NEW p \in 1..ScriptLength, NEW i \in 1..Length(p)
    PROVE  ForTheBoard(Script(p)[i]) /\ Script(p)[i][1] # "part"
<1>1. BoardToken(Script(p)[i])
  BY ScriptShape
<1>2. \/ Script(p)[i] \in {key("newline"), key("a"), key("w")}
      \/ Script(p)[i][1] = "num"
  BY TokenKinds
<1>3. Script(p)[i][1] # "part"
  BY <1>2 DEF key
<1> QED
  BY <1>1, <1>3 DEF ForTheBoard

\* The tokens that ::write may take: the first of a command, the last of them
\* perhaps only in part.
LEMMA CutShape ==
    ASSUME NEW p \in 1..ScriptLength,
           NEW toks \in IF "short" \in faults /\ p \in MayCut THEN Cuts(p) ELSE {Script(p)}
    PROVE  /\ toks \in Seq(Tokens) /\ Len(toks) \in 1..Length(p)
           /\ \A i \in 1..Len(toks) :
                 \/ toks[i] = Script(p)[i]
                 \/ i = Len(toks) /\ i > 1 /\ "short" \in faults /\ Piece(toks[i])
           /\ "short" \notin faults => toks = Script(p)
<1> DEFINE whole == Script(p)
<1>1. whole \in Seq(Tokens) /\ Len(whole) = Length(p) /\ Length(p) \in Nat /\ Length(p) >= 1
  BY ScriptShape
<1> HIDE DEF whole
<1>2. ASSUME NEW n \in 1..Len(whole)
      PROVE  /\ SubSeq(whole, 1, n) \in Seq(Tokens) /\ Len(SubSeq(whole, 1, n)) = n
             /\ \A i \in 1..n : SubSeq(whole, 1, n)[i] = whole[i]
  BY <1>1, SubSeqProperties
<1>3. CASE toks = whole
  BY <1>1, <1>3 DEF whole
<1>4. ASSUME NEW n \in 1..Len(whole), toks = SubSeq(whole, 1, n), "short" \in faults
      PROVE  /\ toks \in Seq(Tokens) /\ Len(toks) \in 1..Length(p)
             /\ \A i \in 1..Len(toks) : toks[i] = whole[i]
  BY <1>1, <1>2, <1>4
<1>5. ASSUME NEW n \in 1..(Len(whole) - 1), NEW d \in 1..DIGITS,
             toks = Append(SubSeq(whole, 1, n), part(d)), "short" \in faults
      PROVE  /\ toks \in Seq(Tokens) /\ Len(toks) \in 1..Length(p)
             /\ \A i \in 1..Len(toks) :
                   toks[i] = whole[i] \/ (i = Len(toks) /\ i > 1 /\ Piece(toks[i]))
  <2> DEFINE t == SubSeq(whole, 1, n)
  <2>1. n \in 1..Len(whole)
    BY <1>1
  <2>2. t \in Seq(Tokens) /\ Len(t) = n /\ \A i \in 1..n : t[i] = whole[i]
    BY <1>2, <2>1
  <2>3. Piece(part(d)) /\ part(d) \in Tokens
    BY PieceShape
  <2> HIDE DEF t
  <2>4. /\ Append(t, part(d)) \in Seq(Tokens) /\ Len(Append(t, part(d))) = n + 1
        /\ \A i \in 1..n : Append(t, part(d))[i] = t[i]
        /\ Append(t, part(d))[n + 1] = part(d)
    BY <2>2, <2>3, AppendProperties
  <2>5. toks = Append(t, part(d))
    BY <1>5 DEF t
  <2>6. \A i \in 1..(n + 1) : i \in 1..n \/ i = n + 1
    BY <1>1
  <2>7. Len(toks) \in 1..Length(p)
    BY <1>1, <2>4, <2>5
  <2>8. toks \in Seq(Tokens) /\ Len(toks) = n + 1 /\ n + 1 > 1
    BY <1>1, <2>4, <2>5
  <2>9. ASSUME NEW i \in 1..(n + 1)
        PROVE  toks[i] = whole[i] \/ (i = n + 1 /\ Piece(toks[i]))
    BY <2>2, <2>3, <2>4, <2>5, <2>6
  <2> QED
    BY <2>7, <2>8, <2>9
<1>6. \/ toks = whole
      \/ "short" \in faults /\ \E n \in 1..Len(whole) : toks = SubSeq(whole, 1, n)
      \/ "short" \in faults /\ \E n \in 1..(Len(whole) - 1), d \in 1..DIGITS :
                                  toks = Append(SubSeq(whole, 1, n), part(d))
  <2>1. CASE "short" \in faults /\ p \in MayCut
    <3>1. toks \in Cuts(p)
      BY <2>1
    <3>2. CASE toks \in {SubSeq(whole, 1, n) : n \in 1..Len(whole)}
      BY <2>1, <3>2
    <3>3. CASE toks \in UNION {{Append(SubSeq(whole, 1, n), part(d)) :
                                 d \in {k \in 1..DIGITS : k <= Printed(p, n + 1)}} :
                               n \in 1..(Len(whole) - 1)}
      <4>1. PICK n \in 1..(Len(whole) - 1) :
               toks \in {Append(SubSeq(whole, 1, n), part(d)) :
                           d \in {k \in 1..DIGITS : k <= Printed(p, n + 1)}}
        BY <3>3
      <4>2. PICK d \in 1..DIGITS : toks = Append(SubSeq(whole, 1, n), part(d))
        BY <4>1
      <4> QED
        BY <2>1, <4>2
    <3> QED
      BY <3>1, <3>2, <3>3 DEF Cuts, whole
  <2>2. CASE ~("short" \in faults /\ p \in MayCut)
    BY <2>2 DEF whole
  <2> QED
    BY <2>1, <2>2
<1>7. "short" \notin faults => toks = whole
  BY <1>6
<1> QED
  BY <1>3, <1>4, <1>5, <1>6, <1>7 DEF whole

\* What ::write puts on the line, all of a command or a part of it.
LEMMA Sends ==
    ASSUME TypeInv, Send
    PROVE  \E toks \in Seq(Tokens), n \in 1..Length(pos + 1) :
              /\ Len(toks) = n
              /\ \A i \in 1..n :
                    \/ toks[i] = Script(pos + 1)[i]
                    \/ i = n /\ i > 1 /\ "short" \in faults /\ Piece(toks[i])
              /\ "short" \notin faults =>
                    n = Length(pos + 1) /\ \A i \in 1..n : toks[i] = Script(pos + 1)[i]
              /\ Write(toks)
              /\ line' \in Seq(Token) /\ Len(line') = Len(line) + n
              /\ \A i \in 1..Len(line) : line'[i] = line[i]
              /\ \A i \in Len(line) + 1..Len(line) + n :
                    line'[i] = [tok |-> toks[i - Len(line)], of |-> written + 1]
<1>1. pos + 1 \in 1..ScriptLength
  BY ScriptLengthType DEF Send, TypeInv, W2TypeOK
<1>2. Len(Script(pos + 1)) = Length(pos + 1) /\ Length(pos + 1) \in Nat
  BY <1>1, ScriptShape
<1>3. PICK toks \in IF "short" \in faults /\ pos + 1 \in MayCut THEN Cuts(pos + 1)
                    ELSE {Script(pos + 1)} : Write(toks)
  BY DEF Send
<1>4. /\ toks \in Seq(Tokens) /\ Len(toks) \in 1..Length(pos + 1)
      /\ \A i \in 1..Len(toks) :
            \/ toks[i] = Script(pos + 1)[i]
            \/ i = Len(toks) /\ i > 1 /\ "short" \in faults /\ Piece(toks[i])
      /\ "short" \notin faults => toks = Script(pos + 1)
  BY <1>1, CutShape
<1>5. PICK n \in 1..Length(pos + 1) : n = Len(toks)
  BY <1>4
<1> DEFINE new == Carrying(toks, written + 1)
<1>6. line' = line \o new /\ line \in Seq(Token) /\ written + 1 \in Nat
  BY <1>3 DEF Write, TypeInv, W2TypeOK, TypeOK
<1>7. new \in Seq(Token)
  BY <1>4, <1>6, CarryingType
<1>8. Len(new) = n /\ \A i \in 1..n : new[i] = [tok |-> toks[i], of |-> written + 1]
  BY <1>2, <1>5 DEF Carrying
<1> HIDE DEF new
<1>9. /\ line \o new \in Seq(Token) /\ Len(line \o new) = Len(line) + Len(new)
      /\ \A i \in 1..(Len(line) + Len(new)) :
            (line \o new)[i] = IF i <= Len(line) THEN line[i] ELSE new[i - Len(line)]
  BY <1>6, <1>7, ConcatProperties
<1>10. Len(line) \in Nat /\ n \in Nat
  BY <1>2, <1>6, LenProperties
<1>11. \A i \in 1..Len(line) : line'[i] = line[i]
  BY <1>6, <1>8, <1>9, <1>10
<1>12. ASSUME NEW i \in Len(line) + 1..Len(line) + n
       PROVE  line'[i] = [tok |-> toks[i - Len(line)], of |-> written + 1]
  <2>1. i - Len(line) \in 1..n /\ i \in 1..(Len(line) + n) /\ ~(i <= Len(line))
    BY <1>10
  <2> QED
    BY <1>6, <1>8, <1>9, <2>1
<1>13. line' \in Seq(Token) /\ Len(line') = Len(line) + n
  BY <1>6, <1>8, <1>9
<1>14. "short" \notin faults =>
          n = Length(pos + 1) /\ \A i \in 1..n : toks[i] = Script(pos + 1)[i]
  BY <1>2, <1>4, <1>5
<1> QED
  BY <1>3, <1>4, <1>5, <1>11, <1>12, <1>13, <1>14

LEMMA W2SendTypes == TypeInv /\ Send => TypeInv'
<1> SUFFICES ASSUME TypeInv, Send PROVE TypeInv'
  OBVIOUS
<1>1. PICK toks \in Seq(Tokens), n \in 1..Length(pos + 1) :
         /\ \A i \in 1..n : toks[i] = Script(pos + 1)[i] \/ Piece(toks[i])
         /\ Write(toks)
         /\ Len(line') = Len(line) + n
         /\ \A i \in 1..Len(line) : line'[i] = line[i]
         /\ \A i \in Len(line) + 1..Len(line) + n :
               line'[i] = [tok |-> toks[i - Len(line)], of |-> written + 1]
  BY Sends
<1>2. TypeOK'
  BY <1>1, WriteTypes DEF TypeInv, W2TypeOK
<1>3. pos + 1 \in 1..ScriptLength
  BY ScriptLengthType DEF Send, TypeInv, W2TypeOK
<1>4. Length(pos + 1) \in Nat /\ \A i \in 1..Length(pos + 1) : ForTheBoard(Script(pos + 1)[i])
  BY <1>3, ScriptShape, ScriptForTheBoard
<1>5. Len(line) \in Nat
  BY LenProperties DEF TypeInv, W2TypeOK, TypeOK
<1>6. ASSUME NEW i \in 1..Len(line)'
      PROVE  ForTheBoard(line'[i].tok)
  <2>1. CASE i <= Len(line)
    BY <1>1, <1>5, <2>1 DEF TypeInv, TokensAreForTheBoard
  <2>2. CASE i > Len(line)
    <3>1. i \in Len(line) + 1..Len(line) + n /\ i - Len(line) \in 1..n
      BY <1>1, <1>4, <1>5, <1>6, <2>2
    <3>2. line'[i].tok = toks[i - Len(line)]
      <4>1. line'[i] = [tok |-> toks[i - Len(line)], of |-> written + 1]
        BY <1>1, <3>1, Zenon
      <4> QED
        BY <4>1
    <3>3. i - Len(line) \in 1..Length(pos + 1)
      BY <1>4, <3>1
    <3>4. CASE toks[i - Len(line)] = Script(pos + 1)[i - Len(line)]
      BY <1>4, <3>2, <3>3, <3>4
    <3>5. CASE Piece(toks[i - Len(line)])
      <4>1. PICK t : t = toks[i - Len(line)]
        OBVIOUS
      <4>2. t[1] = "part" /\ t[2] \in Nat
        BY <3>5, <4>1, BootAssumption DEF Piece
      <4> QED
        BY <3>2, <3>5, <4>1, <4>2 DEF ForTheBoard, BoardToken
    <3> QED
      BY <1>1, <3>1, <3>4, <3>5
  <2> QED
    BY <1>5, <1>6, <2>1, <2>2
<1>7. BootTypeOK'
  BY DEF Send, TypeInv, W2TypeOK, BootTypeOK, bootVars
<1>8. TokensAreForTheBoard'
  BY <1>6 DEF TokensAreForTheBoard, ForTheBoard, BoardToken, Piece
<1> QED
  BY <1>2, <1>3, <1>7, <1>8 DEF Send, TypeInv, W2TypeOK

\* What getHex leaves of a token is for the board, and no letter.
LEMMA RestShape ==
    ASSUME BootTypeOK, NEW tok, ForTheBoard(tok), NEW rest \in Rests(tok)
    PROVE  \/ rest = <<>>
           \/ \E t \in Tokens : /\ rest = <<t>> /\ ForTheBoard(t)
                               /\ (t = key("newline") \/ t[1] \in {"num", "part"})
<1>1. PICK surplus : surplus = digits + Width(tok) - MAX_DIGITS
  OBVIOUS
<1>2. CASE rest = << <<"key", "newline">> >>
  <2>1. key("newline") \in Tokens /\ ForTheBoard(key("newline"))
    BY UploadAssumption DEF ForTheBoard, BoardToken, key
  <2> QED
    BY <1>2, <2>1 DEF key
<1>3. ASSUME NEW r \in Mixed, rest = << <<"num", r>> >>
      PROVE  \E t \in Tokens : rest = <<t>> /\ ForTheBoard(t) /\ t[1] \in {"num", "part"}
  <2>1. num(r) \in Tokens
    BY UploadAssumption
  <2>2. ForTheBoard(num(r)) /\ num(r)[1] = "num"
    BY BootAssumption DEF ForTheBoard, BoardToken, num
  <2> QED
    BY <1>3, <2>1, <2>2 DEF num
<1>4. ASSUME tok[1] = "part", surplus > 0, rest = << <<"part", surplus>> >>
      PROVE  \E t \in Tokens : rest = <<t>> /\ ForTheBoard(t) /\ t[1] \in {"num", "part"}
  <2>1. tok[2] \in 1..DIGITS /\ Width(tok) = tok[2]
    BY <1>4 DEF ForTheBoard, Piece, Width
  <2>2. surplus \in 1..DIGITS
    BY <1>1, <1>4, <2>1, BootAssumption DEF BootTypeOK
  <2>3. part(surplus) \in Tokens /\ ForTheBoard(part(surplus)) /\ part(surplus)[1] = "part"
    BY <2>2, PieceShape DEF Piece
  <2> QED
    BY <1>4, <2>3 DEF part
<1>5. \/ rest = <<>> \/ rest = << <<"key", "newline">> >>
      \/ \E r \in Mixed : rest = << <<"num", r>> >>
      \/ tok[1] = "part" /\ surplus > 0 /\ rest = << <<"part", surplus>> >>
  <2>1. CASE tok[1] = "num" /\ surplus = 0
    BY <1>1, <2>1 DEF Rests
  <2>2. CASE tok[1] = "num" /\ surplus > 0
    BY <1>1, <2>2, BootAssumption DEF Rests, BootTypeOK, Width
  <2>3. CASE tok[1] = "part" /\ surplus > 0
    BY <1>1, <2>3 DEF Rests
  <2>4. CASE ~(tok[1] = "num" /\ surplus = 0) /\ ~(tok[1] = "num" /\ surplus > 0)
             /\ ~(tok[1] = "part" /\ surplus > 0)
    BY <1>1, <2>4 DEF Rests
  <2> QED
    BY <2>1, <2>2, <2>3, <2>4
<1> QED
  BY <1>2, <1>3, <1>4, <1>5

\* The token that the board takes from the line, and the line after it.
LEMMA BoardTakes ==
    ASSUME TypeInv, BoardExecutes
    PROVE  /\ line \in Seq(Token) /\ Len(line) \in Nat /\ Len(line) >= 1
           /\ Head(line) = line[1] /\ line[1] \in Token /\ ForTheBoard(line[1].tok)
           /\ line' \in Seq(Token)
           /\ \E v \in Values(line[1].tok), rest \in Rests(line[1].tok) :
                 /\ Consume(line[1].tok, v)
                 /\ \/ /\ rest = <<>> /\ Len(line') = Len(line) - 1
                       /\ \A i \in 1..(Len(line) - 1) : line'[i] = line[i + 1]
                    \/ \E t \in Tokens :
                          /\ rest = <<t>> /\ ForTheBoard(t)
                          /\ t = key("newline") \/ t[1] \in {"num", "part"}
                          /\ Len(line') = Len(line)
                          /\ line'[1] = [tok |-> t, of |-> line[1].of]
                          /\ \A i \in 2..Len(line) : line'[i] = line[i]
<1>1. line \in Seq(Token) /\ line # <<>> /\ BootTypeOK
  BY DEF BoardExecutes, TypeInv, W2TypeOK, TypeOK
<1>2. /\ Len(line) \in Nat /\ Len(line) >= 1 /\ Head(line) = line[1] /\ line[1] \in Token
      /\ Tail(line) \in Seq(Token) /\ Len(Tail(line)) = Len(line) - 1
      /\ \A i \in 1..(Len(line) - 1) : Tail(line)[i] = line[i + 1]
  BY <1>1, HeadTailProperties, LenProperties, EmptySeq
<1>3. ForTheBoard(line[1].tok) /\ line[1].of \in Nat
  BY <1>2 DEF TypeInv, TokensAreForTheBoard, Token
<1>4. PICK v \in Values(line[1].tok), rest \in Rests(line[1].tok) :
         Consume(line[1].tok, v) /\ line' = Carrying(rest, line[1].of) \o Tail(line)
  BY <1>2 DEF BoardExecutes
<1>40. PICK left, tail : left = Carrying(rest, line[1].of) /\ tail = Tail(line)
  OBVIOUS
<1> DEFINE Drops == /\ rest = <<>> /\ Len(line') = Len(line) - 1
                    /\ \A i \in 1..(Len(line) - 1) : line'[i] = line[i + 1]
           Leaves(t) == /\ rest = <<t>> /\ ForTheBoard(t)
                        /\ (t = key("newline") \/ t[1] \in {"num", "part"})
                        /\ Len(line') = Len(line)
                        /\ line'[1] = [tok |-> t, of |-> line[1].of]
                        /\ \A i \in 2..Len(line) : line'[i] = line[i]
<1>5. ASSUME rest = <<>> PROVE line' \in Seq(Token) /\ Drops
  <2>1. <<>> \in Seq(Token) /\ Len(<<>>) = 0
    BY EmptySeq
  <2>2. left = <<>>
    BY <1>5, <1>40 DEF Carrying
  <2>3. /\ <<>> \o tail \in Seq(Token) /\ Len(<<>> \o tail) = 0 + Len(tail)
        /\ \A i \in 1..(0 + Len(tail)) :
              (<<>> \o tail)[i] = IF i <= 0 THEN <<>>[i] ELSE tail[i - 0]
    BY <1>2, <1>40, <2>1, ConcatProperties
  <2>4. line' = <<>> \o tail
    BY <1>4, <1>40, <2>2
  <2>5. line' \in Seq(Token) /\ Len(line') = Len(line) - 1
    BY <1>2, <1>40, <2>3, <2>4
  <2>6. ASSUME NEW i \in 1..(Len(line) - 1) PROVE line'[i] = line[i + 1]
    <3>1. i \in 1..(0 + Len(tail)) /\ ~(i <= 0) /\ i - 0 = i
      BY <1>2, <1>40
    <3> QED
      BY <1>2, <1>40, <2>3, <2>4, <3>1
  <2> QED
    BY <1>5, <2>5, <2>6
<1>6. ASSUME NEW t \in Tokens, rest = <<t>>, ForTheBoard(t),
             t = key("newline") \/ t[1] \in {"num", "part"}
      PROVE  line' \in Seq(Token) /\ Leaves(t)
  <2>1. left = << [tok |-> t, of |-> line[1].of] >>
    BY <1>6, <1>40 DEF Carrying
  <2>2. [tok |-> t, of |-> line[1].of] \in Token
    BY <1>3 DEF Token
  <2>3. left \in Seq(Token) /\ Len(left) = 1 /\ left[1] = [tok |-> t, of |-> line[1].of]
    BY <2>1, <2>2
  <2>4. /\ left \o tail \in Seq(Token) /\ Len(left \o tail) = 1 + Len(tail)
        /\ \A i \in 1..(1 + Len(tail)) :
              (left \o tail)[i] = IF i <= 1 THEN left[i] ELSE tail[i - 1]
    <3>1. left \in Seq(Token) /\ tail \in Seq(Token)
      BY <1>2, <1>40, <2>3
    <3>2. /\ left \o tail \in Seq(Token) /\ Len(left \o tail) = Len(left) + Len(tail)
          /\ \A i \in 1..(Len(left) + Len(tail)) :
                (left \o tail)[i] = IF i <= Len(left) THEN left[i] ELSE tail[i - Len(left)]
      BY <3>1, ConcatProperties, Zenon
    <3> QED
      BY <2>3, <3>2
  <2>5. line' = left \o tail
    BY <1>4, <1>40
  <2>6. line' \in Seq(Token) /\ Len(line') = Len(line)
    BY <1>2, <1>40, <2>4, <2>5
  <2>7. line'[1] = left[1]
    <3>1. 1 \in 1..(1 + Len(tail))
      BY <1>2, <1>40
    <3> QED
      BY <2>4, <2>5, <3>1
  <2>8. ASSUME NEW i \in 2..Len(line) PROVE line'[i] = line[i]
    <3>1. i \in 1..(1 + Len(tail)) /\ ~(i <= 1) /\ i - 1 \in 1..(Len(line) - 1) /\ (i - 1) + 1 = i
      BY <1>2, <1>40
    <3>2. line'[i] = tail[i - 1]
      BY <2>4, <2>5, <3>1
    <3> QED
      BY <1>2, <1>40, <3>1, <3>2
  <2> QED
    BY <1>6, <2>3, <2>6, <2>7, <2>8
<1>7. \/ rest = <<>>
      \/ \E t \in Tokens : /\ rest = <<t>> /\ ForTheBoard(t)
                          /\ (t = key("newline") \/ t[1] \in {"num", "part"})
  BY <1>1, <1>3, <1>4, RestShape
<1>8. line' \in Seq(Token) /\ (Drops \/ \E t \in Tokens : Leaves(t))
  <2> HIDE DEF Drops, Leaves
  <2> QED
    BY <1>5, <1>6, <1>7, Zenon
<1>9. \E v_1 \in Values(line[1].tok), r \in Rests(line[1].tok) :
         /\ Consume(line[1].tok, v_1)
         /\ \/ r = <<>> /\ Len(line') = Len(line) - 1
               /\ \A i \in 1..(Len(line) - 1) : line'[i] = line[i + 1]
            \/ \E t \in Tokens :
                  /\ r = <<t>> /\ ForTheBoard(t)
                  /\ (t = key("newline") \/ t[1] \in {"num", "part"})
                  /\ Len(line') = Len(line)
                  /\ line'[1] = [tok |-> t, of |-> line[1].of]
                  /\ \A i \in 2..Len(line) : line'[i] = line[i]
  BY <1>4, <1>8, Zenon
<1> QED
  BY <1>1, <1>2, <1>3, <1>8, <1>9

LEMMA W2BoardTypes == TypeInv /\ BoardExecutes => TypeInv'
<1> SUFFICES ASSUME TypeInv, BoardExecutes PROVE TypeInv'
  OBVIOUS
<1>1. /\ line \in Seq(Token) /\ Len(line) \in Nat /\ Len(line) >= 1
      /\ Head(line) = line[1] /\ line[1] \in Token /\ ForTheBoard(line[1].tok)
      /\ line' \in Seq(Token)
  BY BoardTakes
<1>2. PICK v \in Values(line[1].tok), rest \in Rests(line[1].tok) :
         /\ Consume(line[1].tok, v)
         /\ \/ /\ rest = <<>> /\ Len(line') = Len(line) - 1
               /\ \A i \in 1..(Len(line) - 1) : line'[i] = line[i + 1]
            \/ \E t \in Tokens :
                  /\ ForTheBoard(t)
                  /\ Len(line') = Len(line)
                  /\ line'[1] = [tok |-> t, of |-> line[1].of]
                  /\ \A i \in 2..Len(line) : line'[i] = line[i]
  BY BoardTakes
<1>3. \A i \in 1..Len(line) : ForTheBoard(line[i].tok)
  BY DEF TypeInv, TokensAreForTheBoard
<1>4. BootTypeOK'
  <2>1. BoardToken(line[1].tok)
    BY <1>1 DEF ForTheBoard
  <2> QED
    BY <1>2, <2>1, ConsumeTypes, UploadAssumption DEF TypeInv, W2TypeOK
<1>5. rx' \in Seq(Byte)
  <2>1. reply' \in Seq(BOOLEAN)
    BY <1>4 DEF BootTypeOK
  <2>2. Head(line).of \in Nat
    BY <1>1 DEF Token
  <2>3. Answering(reply', Head(line).of) \in Seq(Byte)
    BY <2>1, <2>2, AnsweringType
  <2>4. rx \in Seq(Byte)
    BY DEF TypeInv, W2TypeOK, TypeOK
  <2>5. rx' = rx \/ rx' = rx \o Answering(reply', Head(line).of)
    BY DEF BoardExecutes
  <2> QED
    BY <2>3, <2>4, <2>5, ConcatProperties
<1>6. TypeOK'
  BY <1>1, <1>5 DEF BoardExecutes, TypeInv, W2TypeOK, TypeOK, callerVars, loopVars, sharedVars
<1>7. ASSUME NEW i \in 1..Len(line)' PROVE ForTheBoard(line'[i].tok)
  <2>1. CASE Len(line') = Len(line) - 1 /\ \A k \in 1..(Len(line) - 1) : line'[k] = line[k + 1]
    <3>1. i \in 1..(Len(line) - 1) /\ i + 1 \in 1..Len(line)
      BY <1>1, <2>1
    <3> QED
      BY <1>3, <2>1, <3>1
  <2>2. ASSUME NEW t \in Tokens, ForTheBoard(t), Len(line') = Len(line),
               line'[1] = [tok |-> t, of |-> line[1].of],
               \A k \in 2..Len(line) : line'[k] = line[k]
        PROVE  ForTheBoard(line'[i].tok)
    <3>1. i = 1 \/ i \in 2..Len(line)
      BY <1>1, <2>2
    <3>2. i = 1 => line'[i].tok = t
      BY <2>2
    <3> QED
      BY <1>3, <2>2, <3>1, <3>2
  <2> QED
    BY <1>2, <2>1, <2>2
<1>8. TokensAreForTheBoard'
  BY <1>7 DEF TokensAreForTheBoard, ForTheBoard, BoardToken, Piece
<1> QED
  BY <1>4, <1>6, <1>8 DEF BoardExecutes, TypeInv, W2TypeOK

\* Steps that leave the line alone.
LEMMA QuietTypes ==
    ASSUME TypeInv, TypeOK', UNCHANGED <<line, bootVars, faults, erased>>,
           stage' \in {"flush", "send", "finished", "aborted", "closed", "lost"},
           pos' \in 0..ScriptLength
    PROVE  TypeInv'
<1>1. BootTypeOK'
  BY DEF TypeInv, W2TypeOK, BootTypeOK, bootVars
<1>2. TokensAreForTheBoard'
  BY DEF TypeInv, TokensAreForTheBoard
<1> QED
  BY <1>1, <1>2 DEF TypeInv, W2TypeOK

\* Steps that cut the line short.
LEMMA PrefixTypes ==
    ASSUME TypeInv, TypeOK', UNCHANGED <<bootVars, faults, erased, pos>>,
           NEW k \in 0..Len(line), line' = SubSeq(line, 1, k),
           stage' \in {"flush", "send", "finished", "aborted", "closed", "lost"}
    PROVE  TypeInv'
<1>1. BootTypeOK'
  BY DEF TypeInv, W2TypeOK, BootTypeOK, bootVars
<1>2. line \in Seq(Token) /\ Len(line) \in Nat
  BY LenProperties DEF TypeInv, W2TypeOK, TypeOK
<1>3. Len(SubSeq(line, 1, k)) = k /\ \A i \in 1..k : SubSeq(line, 1, k)[i] = line[i]
  BY <1>2, SubSeqProperties
<1>4. ASSUME NEW i \in 1..Len(line)' PROVE ForTheBoard(line'[i].tok)
  <2>1. line'[i] = line[i] /\ i \in 1..Len(line)
    BY <1>2, <1>3
  <2> QED
    BY <2>1 DEF TypeInv, TokensAreForTheBoard
<1>5. TokensAreForTheBoard'
  BY <1>4 DEF TokensAreForTheBoard, ForTheBoard, BoardToken, Piece
<1> QED
  BY <1>1, <1>5 DEF TypeInv, W2TypeOK

LEMMA W2FlushTypes == TypeInv /\ FlushFirst => TypeInv'
<1> SUFFICES ASSUME TypeInv, FlushFirst PROVE TypeInv'
  OBVIOUS
<1>1. TypeOK'
  BY FlushTypes DEF FlushFirst, TypeInv, W2TypeOK
<1>2. PICK k \in 0..Len(line) : line' = SubSeq(line, 1, k)
  BY DEF FlushFirst, Flush
<1> QED
  BY <1>1, <1>2, PrefixTypes DEF FlushFirst

LEMMA W2CloseTypes == TypeInv /\ CloseClient => TypeInv'
<1> SUFFICES ASSUME TypeInv, CloseClient PROVE TypeInv'
  OBVIOUS
<1>1. PICK k \in 0..Len(line) :
         line' = SubSeq(line, 1, k) /\ stage' = IF k = Len(line) THEN "closed" ELSE "lost"
  BY DEF CloseClient
<1>2. TypeOK'
  <2>1. line \in Seq(Token) /\ Len(line) \in Nat
    BY LenProperties DEF TypeInv, W2TypeOK, TypeOK
  <2>2. line' \in Seq(Token)
    BY <1>1, <2>1, SubSeqProperties
  <2>3. rx' \in Seq(Byte)
    BY EmptySeq DEF CloseClient
  <2> QED
    BY <2>2, <2>3 DEF CloseClient, TypeInv, W2TypeOK, TypeOK, callerVars, loopVars, sharedVars
<1> QED
  BY <1>1, <1>2, PrefixTypes DEF CloseClient

LEMMA W2NextTypes == TypeInv /\ [W2Next]_w2Vars => TypeInv'
<1> SUFFICES ASSUME TypeInv, [W2Next]_w2Vars PROVE TypeInv'
  OBVIOUS
<1>1. /\ TypeOK /\ pos \in 0..ScriptLength
      /\ stage \in {"flush", "send", "finished", "aborted", "closed", "lost"}
  BY DEF TypeInv, W2TypeOK
<1>2. CASE FlushFails
  <2>1. TypeOK'
    BY <1>1, <1>2, NextTypes DEF FlushFails
  <2> QED
    BY <1>1, <1>2, <2>1, QuietTypes DEF FlushFails, vars, ttyVars
<1>3. CASE FlushFirst
  BY <1>3, W2FlushTypes
<1>4. CASE Send
  BY <1>4, W2SendTypes
<1>5. CASE SendFails
  <2>1. TypeOK'
    BY <1>1, <1>5, NextTypes DEF SendFails, Next
  <2>2. stage' \in {"send", "aborted"} /\ pos' \in 0..ScriptLength
    BY <1>1, <1>5, ScriptLengthType DEF SendFails
  <2> QED
    BY <1>5, <2>1, <2>2, QuietTypes DEF SendFails, WriteFails, ttyVars
<1>6. CASE FinishUpload
  <2>1. TypeOK'
    BY <1>1, <1>6, NextTypes DEF FinishUpload
  <2> QED
    BY <1>1, <1>6, <2>1, QuietTypes DEF FinishUpload, vars, ttyVars
<1>7. CASE Waiting \/ DeadlineReached \/ WokenForNothing
  <2>1. CallerStep /\ UNCHANGED <<bootVars, scriptVars>>
    BY <1>7 DEF Waiting, DeadlineReached, WokenForNothing, CallerStep
  <2>2. TypeOK' /\ UNCHANGED line
    BY <1>1, <2>1, CallerTypes DEF CallerStep, WaitStep, Arm, Lock, ReturnAcked, ReturnTimeout,
                                   Commit, Block, DeadlinePasses, SpuriousWake, ttyVars
  <2> QED
    BY <1>1, <2>1, <2>2, QuietTypes DEF scriptVars
<1>8. CASE Looping
  <2>1. TypeOK' /\ UNCHANGED line
    BY <1>1, <1>8, LoopTypes DEF Looping, LoopStep, Kevent, Dispatch, Read, LoopLock, ScanAck,
                                 Notify, ScanOther, LoopUnlock, ttyVars
  <2> QED
    BY <1>1, <1>8, <2>1, QuietTypes DEF Looping, scriptVars
<1>9. CASE BoardExecutes
  BY <1>9, W2BoardTypes
<1>10. CASE UNCHANGED w2Vars
  <2>1. TypeOK'
    BY <1>1, <1>10, NextTypes DEF w2Vars
  <2> QED
    BY <1>1, <1>10, <2>1, QuietTypes DEF w2Vars, vars, ttyVars, scriptVars
<1>11. CASE CloseClient
  BY <1>11, W2CloseTypes
<1> QED
  BY <1>2, <1>3, <1>4, <1>5, <1>6, <1>7, <1>8, <1>9, <1>10, <1>11 DEF W2Next

LEMMA W2TypesInductive == W2Spec => []TypeInv
  BY W2InitTypes, W2NextTypes, PTL DEF W2Spec

\* Every variable of the uploader, its client and the board keeps its type.
THEOREM W2TypeCorrect == W2Spec => []W2TypeOK
<1>1. TypeInv => W2TypeOK
  BY DEF TypeInv
<1> QED
  BY <1>1, W2TypesInductive, PTL

-------------------------------------------------------------------------------
(* The ACKs while the IOLoop thread reads and scans. *)

WireKept == Len(wire)' = Len(wire) /\ \A i \in 1..Len(wire) : wire'[i] = wire[i]

LEMMA Joined ==
    ASSUME NEW b \in Seq(Byte), NEW r \in Seq(Byte)
    PROVE  /\ b \o r \in Seq(Byte) /\ Len(b \o r) \in Nat /\ Len(b \o r) = Len(b) + Len(r)
           /\ Len(b) \in Nat /\ Len(r) \in Nat
           /\ \A i \in 1..Len(b \o r) :
                 (b \o r)[i] \in Byte /\ (b \o r)[i] = IF i <= Len(b) THEN b[i] ELSE r[i - Len(b)]
<1>1. /\ b \o r \in Seq(Byte) /\ Len(b \o r) = Len(b) + Len(r)
      /\ \A i \in 1..(Len(b) + Len(r)) :
            (b \o r)[i] = IF i <= Len(b) THEN b[i] ELSE r[i - Len(b)]
  BY ConcatProperties
<1>2. Len(b \o r) \in Nat /\ \A i \in 1..Len(b \o r) : (b \o r)[i] \in Byte
  BY <1>1, LenProperties, ElementOfSeq
<1> QED
  BY <1>1, <1>2, LenProperties

LEMMA WireType ==
    ASSUME TypeOK
    PROVE  /\ wire \in Seq(Byte) /\ Len(wire) \in Nat /\ Len(wire) = Len(buf) + Len(rx)
           /\ Len(buf) \in Nat /\ Len(rx) \in Nat
           /\ \A i \in 1..Len(wire) :
                 wire[i] \in Byte /\ wire[i] = IF i <= Len(buf) THEN buf[i] ELSE rx[i - Len(buf)]
<1>1. buf \in Seq(Byte) /\ rx \in Seq(Byte)
  BY DEF TypeOK
<1> QED
  BY <1>1, Joined DEF wire

LEMMA WireTypeNext ==
    ASSUME TypeOK'
    PROVE  /\ Len(wire)' = Len(buf)' + Len(rx)'
           /\ \A i \in 1..Len(wire)' :
                 wire'[i] = IF i <= Len(buf)' THEN buf'[i] ELSE rx'[i - Len(buf)']
<1>1. buf' \in Seq(Byte) /\ rx' \in Seq(Byte)
  BY DEF TypeOK
<1>2. /\ Len(buf' \o rx') = Len(buf') + Len(rx')
      /\ \A i \in 1..Len(buf' \o rx') :
            (buf' \o rx')[i] = IF i <= Len(buf') THEN buf'[i] ELSE rx'[i - Len(buf')]
  BY <1>1, Joined
<1> QED
  BY <1>2 DEF wire

LEMMA WireGrows ==
    ASSUME TypeOK, TypeOK', UNCHANGED buf, NEW b \in Seq(Byte), rx' = rx \o b
    PROVE  /\ Len(wire)' = Len(wire) + Len(b)
           /\ \A i \in 1..Len(wire) : wire'[i] = wire[i]
           /\ \A i \in 1..Len(b) : wire'[Len(wire) + i] = b[i]
<1>1. Len(b) \in Nat
  BY LenProperties
<1>2. /\ Len(wire) = Len(buf) + Len(rx) /\ Len(buf) \in Nat /\ Len(rx) \in Nat
      /\ \A i \in 1..Len(wire) : wire[i] = IF i <= Len(buf) THEN buf[i] ELSE rx[i - Len(buf)]
  BY WireType
<1>3. /\ Len(wire)' = Len(buf) + Len(rx)'
      /\ \A i \in 1..Len(wire)' :
            wire'[i] = IF i <= Len(buf) THEN buf[i] ELSE rx'[i - Len(buf)]
  <2>1. /\ Len(wire)' = Len(buf)' + Len(rx)'
        /\ \A i \in 1..Len(wire)' :
              wire'[i] = IF i <= Len(buf)' THEN buf'[i] ELSE rx'[i - Len(buf)']
    BY WireTypeNext
  <2> QED
    BY <2>1
<1>4. /\ Len(rx)' = Len(rx) + Len(b)
      /\ \A i \in 1..(Len(rx) + Len(b)) : rx'[i] = IF i <= Len(rx) THEN rx[i] ELSE b[i - Len(rx)]
  <2>1. rx \in Seq(Byte)
    BY DEF TypeOK
  <2>2. /\ Len(rx \o b) = Len(rx) + Len(b)
        /\ \A i \in 1..(Len(rx) + Len(b)) :
              (rx \o b)[i] = IF i <= Len(rx) THEN rx[i] ELSE b[i - Len(rx)]
    BY <2>1, ConcatProperties
  <2> QED
    BY <2>2
<1>5. Len(wire)' = Len(wire) + Len(b)
  BY <1>1, <1>2, <1>3, <1>4
<1>6. ASSUME NEW i \in 1..Len(wire) PROVE wire'[i] = wire[i]
  <2>1. wire'[i] = IF i <= Len(buf) THEN buf[i] ELSE rx'[i - Len(buf)]
    BY <1>1, <1>2, <1>3, <1>5
  <2>2. ~(i <= Len(buf)) =>
           i - Len(buf) \in 1..(Len(rx) + Len(b)) /\ i - Len(buf) <= Len(rx)
    BY <1>1, <1>2
  <2>3. ~(i <= Len(buf)) => rx'[i - Len(buf)] = rx[i - Len(buf)]
    BY <1>4, <2>2
  <2> QED
    BY <1>2, <2>1, <2>3
<1>7. ASSUME NEW i \in 1..Len(b) PROVE wire'[Len(wire) + i] = b[i]
  <2>1. Len(wire) + i \in 1..Len(wire)' /\ ~(Len(wire) + i <= Len(buf))
           /\ (Len(wire) + i) - Len(buf) = Len(rx) + i
    BY <1>1, <1>2, <1>5
  <2>2. wire'[Len(wire) + i] = rx'[Len(rx) + i]
    BY <1>3, <2>1
  <2>3. Len(rx) + i \in 1..(Len(rx) + Len(b)) /\ ~(Len(rx) + i <= Len(rx))
           /\ (Len(rx) + i) - Len(rx) = i
    BY <1>1, <1>2
  <2> QED
    BY <1>4, <2>2, <2>3
<1> QED
  BY <1>5, <1>6, <1>7

LEMMA WireShrinks ==
    ASSUME TypeOK, TypeOK', buf # <<>>, buf' = Tail(buf), UNCHANGED rx
    PROVE  /\ Len(wire) >= 1 /\ wire[1] = Head(buf) /\ Len(wire)' = Len(wire) - 1
           /\ \A i \in 1..Len(wire)' : wire'[i] = wire[i + 1]
<1>1. /\ Len(wire) = Len(buf) + Len(rx) /\ Len(buf) \in Nat /\ Len(rx) \in Nat
      /\ \A i \in 1..Len(wire) : wire[i] = IF i <= Len(buf) THEN buf[i] ELSE rx[i - Len(buf)]
  BY WireType
<1>2. buf \in Seq(Byte)
  BY DEF TypeOK
<1>3. /\ Len(buf)' = Len(buf) - 1 /\ Len(buf) >= 1 /\ buf[1] = Head(buf)
      /\ \A i \in 1..Len(buf)' : buf'[i] = buf[i + 1]
  BY <1>2, HeadTailProperties, EmptySeq
<1>4. /\ Len(wire)' = Len(buf)' + Len(rx)
      /\ \A i \in 1..Len(wire)' :
            wire'[i] = IF i <= Len(buf)' THEN buf'[i] ELSE rx[i - Len(buf)']
  <2>1. /\ Len(wire)' = Len(buf)' + Len(rx)'
        /\ \A i \in 1..Len(wire)' :
              wire'[i] = IF i <= Len(buf)' THEN buf'[i] ELSE rx'[i - Len(buf)']
    BY WireTypeNext
  <2> QED
    BY <2>1
<1>5. ASSUME NEW i \in 1..Len(wire)' PROVE wire'[i] = wire[i + 1]
  <2>1. i + 1 \in 1..Len(wire)
    BY <1>1, <1>3, <1>4
  <2>2. CASE i <= Len(buf)'
    BY <1>1, <1>3, <1>4, <2>1, <2>2
  <2>3. CASE ~(i <= Len(buf)')
    <3>1. ~(i + 1 <= Len(buf)) /\ (i + 1) - Len(buf) = i - Len(buf)'
      BY <1>1, <1>3, <2>3
    <3> QED
      BY <1>1, <1>4, <2>1, <2>3, <3>1
  <2> QED
    BY <2>2, <2>3
<1> QED
  BY <1>1, <1>3, <1>4, <1>5

LEMMA WireRead == TypeOK /\ TypeOK' /\ buf = <<>> /\ Read => WireKept
<1> SUFFICES ASSUME TypeOK, TypeOK', buf = <<>>, Read PROVE WireKept
  OBVIOUS
<1>1. PICK n : n = IF Len(rx) < ReadMax THEN Len(rx) ELSE ReadMax
  OBVIOUS
<1>2. buf' = SubSeq(rx, 1, n) /\ rx' = SubSeq(rx, n + 1, Len(rx))
  BY <1>1 DEF Read
<1>3. /\ Len(wire) = Len(buf) + Len(rx) /\ Len(rx) \in Nat /\ Len(buf) = 0
      /\ \A i \in 1..Len(wire) : wire[i] = IF i <= Len(buf) THEN buf[i] ELSE rx[i - Len(buf)]
  BY WireType
<1>4. n \in 0..Len(rx) /\ \A i \in 1..Len(rx) : rx[i] \in Byte
  BY <1>1, <1>3, ClientAssumption, ElementOfSeq DEF TypeOK
<1>5. Len(buf)' = n /\ \A i \in 1..n : buf'[i] = rx[i]
  <2>1. /\ Len(SubSeq(rx, 1, n)) = n
        /\ \A i \in 1..n : SubSeq(rx, 1, n)[i] = rx[i]
    BY <1>3, <1>4, SubSeqProperties
  <2> QED
    BY <1>2, <2>1
<1>6. Len(rx)' = Len(rx) - n /\ \A i \in 1..(Len(rx) - n) : rx'[i] = rx[n + i]
  <2>1. n + 1 \in Int /\ Len(rx) \in Int /\ Len(rx) - (n + 1) + 1 = Len(rx) - n
           /\ \A i \in n + 1..Len(rx) : rx[i] \in Byte
    BY <1>3, <1>4
  <2> DEFINE rest == SubSeq(rx, n + 1, Len(rx))
  <2>2. /\ Len(rest) = IF n + 1 <= Len(rx) THEN Len(rx) - (n + 1) + 1 ELSE 0
        /\ \A i \in 1..(Len(rx) - (n + 1) + 1) : rest[i] = rx[(n + 1) + i - 1]
    BY <2>1, SubSeqProperties
  <2> HIDE DEF rest
  <2>3. Len(rest) = Len(rx) - n
    BY <1>3, <1>4, <2>2
  <2>4. \A i \in 1..(Len(rx) - n) : rest[i] = rx[(n + 1) + i - 1]
    BY <2>1, <2>2
  <2>5. \A i \in 1..(Len(rx) - n) : (n + 1) + i - 1 = n + i
    BY <1>3, <1>4
  <2> QED
    BY <1>2, <2>3, <2>4, <2>5 DEF rest
<1>7. /\ Len(wire)' = Len(buf)' + Len(rx)'
      /\ \A i \in 1..Len(wire)' :
            wire'[i] = IF i <= Len(buf)' THEN buf'[i] ELSE rx'[i - Len(buf)']
  BY WireTypeNext
<1>8. Len(wire)' = Len(wire)
  BY <1>3, <1>4, <1>5, <1>6, <1>7
<1>9. ASSUME NEW i \in 1..Len(wire) PROVE wire'[i] = wire[i]
  <2>1. wire[i] = rx[i] /\ i \in 1..Len(rx)
    BY <1>3
  <2>2. CASE i <= n
    BY <1>3, <1>4, <1>5, <1>7, <1>8, <2>1, <2>2
  <2>3. CASE i > n
    <3>1. i - n \in 1..(Len(rx) - n) /\ n + (i - n) = i /\ ~(i <= n)
      BY <1>3, <1>4, <2>1, <2>3
    <3>2. wire'[i] = rx'[i - n]
      BY <1>5, <1>7, <1>8, <3>1
    <3> QED
      BY <1>6, <2>1, <3>1, <3>2
  <2> QED
    BY <1>4, <2>2, <2>3
<1> QED
  BY <1>8, <1>9 DEF WireKept

\* What an unchanged wire leaves unchanged.
LEMMA AcksUnchanged ==
    ASSUME TypeOK, NEW n \in Nat, UNCHANGED <<acksRead, lastAck, cmd, written>>, WireKept,
           loop' \in {"kevent", "dispatch", "readable"} => buf' = <<>>
    PROVE  (AcksAt(n) => AcksAt(n)') /\ (Unanswered(n) => Unanswered(n)')
<1>1. /\ Len(wire)' = Len(wire) /\ \A i \in 1..Len(wire) : wire'[i] = wire[i]
  BY DEF WireKept
<1>2. AcksAt(n) => AcksAt(n)'
  BY <1>1 DEF AcksAt
<1>3. ASSUME Unanswered(n) PROVE Unanswered(n)'
  BY <1>1, <1>3 DEF Unanswered
<1> QED
  BY <1>2, <1>3

\* A byte is scanned.
LEMMA ScanKeepsAcks ==
    ASSUME TypeOK, TypeOK', NEW n \in Nat, AcksAt(n), ScanAck \/ ScanOther,
           UNCHANGED <<cmd, written>>
    PROVE  AcksAt(n)' /\ (Unanswered(n) => Unanswered(n)')
<1>1. /\ Len(wire) >= 1 /\ wire[1] = Head(buf) /\ Len(wire)' = Len(wire) - 1
      /\ \A i \in 1..Len(wire)' : wire'[i] = wire[i + 1]
      /\ Len(wire) \in Nat /\ \A i \in 1..Len(wire) : wire[i] \in Byte
  BY WireShrinks, WireType DEF ScanAck, ScanOther, ttyVars
<1>2. loop' \in {"scan", "notify"}
  BY DEF ScanAck, ScanOther
<1>3. n \in Nat /\ lastAck \in Nat /\ acksRead \in Nat /\ written \in Nat
  BY DEF TypeOK
<1>4. \A i \in 1..Len(wire)' : i + 1 \in 1..Len(wire)
  BY <1>1
<1>5. \A i \in 1..Len(wire) : wire[i].ack =>
          /\ 3 <= wire[i].of /\ wire[i].of <= n /\ lastAck < wire[i].of /\ wire[i].of \in Nat
          /\ cmd = "w" => wire[i].of < n
  BY <1>1 DEF AcksAt, Byte
<1>6. \A i, j \in 1..Len(wire)' : wire'[i].ack /\ wire'[j].ack /\ i < j
                                     => wire'[i].of < wire'[j].of
  <2> SUFFICES ASSUME NEW i \in 1..Len(wire)', NEW j \in 1..Len(wire)',
                      wire'[i].ack, wire'[j].ack, i < j
               PROVE  wire'[i].of < wire'[j].of
    OBVIOUS
  <2>1. i + 1 \in 1..Len(wire) /\ j + 1 \in 1..Len(wire) /\ i + 1 < j + 1
    BY <1>1, <1>4
  <2>2. wire'[i] = wire[i + 1] /\ wire'[j] = wire[j + 1]
    BY <1>1
  <2>3. wire[i + 1].of < wire[j + 1].of
    BY <2>1, <2>2 DEF AcksAt
  <2> QED
    BY <2>2, <2>3
<1>7. CASE ScanOther
  <2>1. UNCHANGED <<lastAck, acksRead>>
    BY <1>7 DEF ScanOther
  <2>2. AcksAt(n)'
    BY <1>1, <1>2, <1>4, <1>6, <2>1 DEF AcksAt
  <2>3. ASSUME Unanswered(n) PROVE Unanswered(n)'
    BY <1>1, <1>4, <2>1, <2>3 DEF Unanswered
  <2> QED
    BY <2>2, <2>3
<1>8. CASE ScanAck
  <2>1. lastAck' = wire[1].of /\ acksRead' = acksRead + 1 /\ wire[1].ack
    BY <1>1, <1>8 DEF ScanAck
  <2>2. 1 \in 1..Len(wire)
    BY <1>1
  <2>3. /\ 3 <= lastAck' /\ lastAck' <= n /\ lastAck < lastAck' /\ lastAck' \in Nat
        /\ cmd = "w" => lastAck' < n
    BY <1>5, <2>1, <2>2
  <2>4. acksRead + 2 <= lastAck \/ (acksRead = 0 /\ lastAck = 0)
    BY DEF AcksAt
  <2>5. acksRead' + 2 <= lastAck'
    BY <1>3, <2>1, <2>3, <2>4
  <2>6. ASSUME NEW i \in 1..Len(wire)', wire'[i].ack
        PROVE  /\ 3 <= wire'[i].of /\ wire'[i].of <= n /\ lastAck' < wire'[i].of
               /\ cmd = "w" => wire'[i].of < n
    <3>1. i + 1 \in 1..Len(wire) /\ 1 < i + 1 /\ wire'[i] = wire[i + 1]
      BY <1>1, <1>4
    <3>2. wire[1].of < wire[i + 1].of
      BY <2>1, <2>2, <2>6, <3>1 DEF AcksAt
    <3> QED
      BY <1>5, <2>1, <2>6, <3>1, <3>2
  <2>7. AcksAt(n)'
    <3>1. cmd \in {"none", "w"} /\ (cmd = "w" => n >= 3)
      BY DEF AcksAt
    <3> QED
      BY <1>2, <1>6, <2>3, <2>5, <2>6, <3>1 DEF AcksAt
  <2>8. ASSUME Unanswered(n) PROVE Unanswered(n)'
    <3>1. PICK g \in 3..written :
             /\ g < n
             /\ \A i \in 1..Len(wire) : wire[i].ack => wire[i].of # g
             /\ lastAck >= g => acksRead + 2 < lastAck
      BY <2>8 DEF Unanswered
    <3>2. lastAck' # g
      BY <2>1, <2>2, <3>1
    <3>3. lastAck' >= g => acksRead' + 2 < lastAck'
      <4>1. CASE lastAck >= g
        BY <1>3, <2>1, <2>3, <3>1, <4>1
      <4>2. CASE lastAck < g /\ lastAck' > g
        BY <1>3, <2>1, <2>3, <2>4, <3>1, <4>2
      <4> QED
        BY <1>3, <2>3, <3>1, <3>2, <4>1, <4>2
    <3>4. \A i \in 1..Len(wire)' : wire'[i].ack => wire'[i].of # g
      BY <1>1, <1>4, <3>1
    <3> QED
      BY <3>1, <3>3, <3>4 DEF Unanswered
  <2> QED
    BY <2>7, <2>8
<1> QED
  BY <1>7, <1>8

LEMMA LoopKeepsAcks ==
    ASSUME TypeOK, TypeOK', NEW n \in Nat, AcksAt(n), LoopStep, UNCHANGED <<cmd, written>>
    PROVE  AcksAt(n)' /\ (Unanswered(n) => Unanswered(n)')
<1>1. loop \in {"kevent", "dispatch", "readable"} => buf = <<>>
  BY DEF AcksAt
<1>2. UNCHANGED <<buf, rx>> => WireKept
  BY DEF WireKept, wire
<1>3. CASE Kevent \/ Dispatch
  <2>1. loop \in {"kevent", "dispatch"} /\ UNCHANGED <<buf, rx, acksRead, lastAck>>
    BY <1>3 DEF Kevent, Dispatch, ttyVars
  <2> QED
    BY <1>1, <1>2, <2>1, AcksUnchanged
<1>4. CASE Read
  <2>1. buf = <<>> /\ UNCHANGED <<acksRead, lastAck>>
    BY <1>1, <1>4 DEF Read
  <2>2. WireKept
    BY <1>4, <2>1, WireRead
  <2>3. loop' \in {"kevent", "dispatch", "readable"} => buf' = <<>>
    <3>1. loop' = "kevent" => rx = <<>>
      BY <1>4 DEF Read
    <3>2. loop' \in {"kevent", "read"}
      BY <1>4 DEF Read
    <3>3. rx = <<>> => wire = <<>>
      <4>1. rx = <<>> => Len(wire) = 0
        BY <2>1, WireType, EmptySeq
      <4> QED
        BY <4>1, WireType, EmptySeq
    <3>4. rx = <<>> => Len(buf)' = 0
      <4>1. Len(wire)' = Len(buf)' + Len(rx)'
        BY WireTypeNext
      <4>2. Len(buf)' \in Nat /\ Len(rx)' \in Nat
        BY LenProperties DEF TypeOK
      <4>3. rx = <<>> => Len(wire)' = 0
        BY <2>2, <3>3, EmptySeq DEF WireKept
      <4> QED
        BY <4>1, <4>2, <4>3
    <3>5. rx = <<>> => buf' = <<>>
      BY <3>4, EmptySeq DEF TypeOK
    <3> QED
      BY <3>1, <3>2, <3>5
  <2> QED
    BY <2>1, <2>2, <2>3, AcksUnchanged
<1>5. CASE LoopLock \/ Notify
  <2>1. loop' = "scan" /\ UNCHANGED <<buf, rx, acksRead, lastAck>>
    BY <1>5 DEF LoopLock, Notify, ttyVars
  <2> QED
    BY <1>2, <2>1, AcksUnchanged
<1>6. CASE ScanAck \/ ScanOther
  BY <1>6, ScanKeepsAcks
<1>7. CASE LoopUnlock
  <2>1. buf' = <<>> /\ UNCHANGED <<buf, rx, acksRead, lastAck>>
    BY <1>7 DEF LoopUnlock, ttyVars
  <2> QED
    BY <1>2, <2>1, AcksUnchanged
<1> QED
  BY <1>3, <1>4, <1>5, <1>6, <1>7 DEF LoopStep

-------------------------------------------------------------------------------
(* Positions. *)

LEMMA CommandAt ==
    ASSUME NEW sigma, Sent(sigma), NEW q, Reached(sigma, q), q.of > 0, TypeOK
    PROVE  /\ q.of \in 1..written /\ sigma[q.of] \in 1..ScriptLength
           /\ q.idx \in 1..Length(sigma[q.of]) /\ q.idx \in Nat
           /\ q.of <= 5 => sigma[q.of] = q.of
           /\ q.of > 5 => sigma[q.of] > 5
           /\ q.of <= 2 => q.idx = 1 /\ Whole(sigma, q)
           /\ q.of >= 3 => sigma[q.of] \in 3..ScriptLength
           /\ ~q.exact => q.of >= 3 /\ q.idx > 1
<1>1. q.of \in Nat /\ q.idx \in Nat /\ q.of <= written /\ written \in Nat
  BY DEF Reached, Position, TypeOK
<1>2. /\ q.of \in 1..written /\ sigma[q.of] \in 1..ScriptLength
      /\ q.of <= 5 => sigma[q.of] = q.of
      /\ q.of > 5 => sigma[q.of] > 5
  BY <1>1 DEF Sent
<1>3. q.idx \in 1..Length(sigma[q.of])
  BY <1>1 DEF Reached
<1>4. q.of <= 2 => Length(sigma[q.of]) = 1
  BY <1>1, <1>2 DEF Length
<1>5. q.of >= 3 => sigma[q.of] \in 3..ScriptLength
  <2>1. sigma[q.of] \in Nat /\ sigma[q.of] <= ScriptLength /\ ScriptLength \in Nat
    BY <1>2, ScriptLengthType
  <2>2. q.of >= 3 => sigma[q.of] >= 3
    BY <1>1, <1>2, <2>1
  <2> QED
    BY <2>1, <2>2
<1>6. q.of <= 2 => q.idx = 1
  BY <1>3, <1>4
<1>7. ~q.exact => q.idx > 1 /\ q.of >= 3
  BY <1>1, <1>6 DEF Reached
<1>8. q.of <= 2 => Whole(sigma, q)
  BY <1>1, <1>4, <1>6, <1>7 DEF Whole, Reached, Position
<1> QED
  BY <1>1, <1>2, <1>3, <1>5, <1>6, <1>7, <1>8

\* What comes before the first and before any other token of a command.
LEMMA Before ==
    ASSUME NEW sigma, NEW q, NEW r, Reached(sigma, q), Reached(sigma, r), r.of > 0,
           Follows(sigma, q, r)
    PROVE  /\ r.idx = 1 => r.of = q.of + 1
           /\ r.idx > 1 => r.of = q.of /\ q.idx = r.idx - 1 /\ q.of > 0 /\ q.exact
           /\ r.idx = 1 \/ r.idx > 1
           /\ q.of <= r.of /\ q.of \in Nat /\ r.of \in Nat
           /\ (r.idx = 1 => Whole(sigma, q)) => q.exact
<1>1. q.of \in Nat /\ q.idx \in Nat /\ r.of \in Nat /\ r.idx \in Nat
  BY DEF Reached, Position
<1>2. r.idx >= 1
  BY <1>1 DEF Reached
<1>3. CASE q.exact /\ r.of = q.of /\ r.idx = q.idx + 1
  <2>1. q.idx >= 1
    BY <1>1, <1>3 DEF Reached
  <2> QED
    BY <1>1, <1>2, <1>3, <2>1
<1>4. CASE r.of = q.of + 1 /\ r.idx = 1
  BY <1>1, <1>4 DEF Whole, Reached
<1> QED
  BY <1>3, <1>4 DEF Follows

-------------------------------------------------------------------------------
(* The board executes the token at r, having executed those up to q. *)

\* Whatever became of the command before: the board ignores a token, or takes
\* the w of a command, or answers one with an ACK.
LEMMA BoardReplies ==
    ASSUME NEW tok, Kind(tok), cmd \in {"none", "w"}, NEW v, Consume(tok, v)
    PROVE  \/ cmd' = cmd /\ reply' \in {<<>>, <<FALSE>>}
           \/ cmd = "none" /\ cmd' = "w" /\ reply' = <<>> /\ tok = key("w")
           \/ cmd = "w" /\ cmd' = "none" /\ reply' = <<TRUE>>
<1>1. CASE MenuConsole(tok) \/ MenuAgain(tok)
  BY <1>1 DEF MenuConsole, MenuAgain
<1>2. CASE EnterBridge(tok) \/ Ignore(tok) \/ Absorb(tok) \/ Elsewhere(tok)
  BY <1>2 DEF EnterBridge, Ignore, Absorb, Elsewhere
<1>3. CASE Select(tok)
  <2>1. tok[1] = "key" /\ tok[2] \in DOMAIN Header /\ cmd = "none" /\ cmd' = tok[2] /\ reply' = <<>>
    BY <1>3 DEF Select, AtPrompt
  <2>2. tok \in {key("newline"), key("a"), key("w")} /\ tok[2] \in {"newline", "a", "w"}
    BY <2>1 DEF key, Kind
  <2>3. tok[2] = "w"
    BY <2>1, <2>2 DEF Header
  <2> QED
    BY <2>1, <2>2, <2>3 DEF key
<1>4. CASE EndsNumber(tok) /\ (ReadHeader(v) \/ ReadData(v))
  <2>1. cmd = "w"
    BY <1>4 DEF ReadHeader, ReadData
  <2>2. CASE Finish
    <3>1. cmd' = "none" /\ reply' = <<cmd \in {"w", "s", "j"}>>
      BY <2>2 DEF Finish
    <3>2. reply' = <<TRUE>>
      <4>1. (cmd \in {"w", "s", "j"}) = TRUE
        BY <2>1
      <4> QED
        BY <3>1, <4>1
    <3> QED
      BY <2>1, <3>1, <3>2
  <2>3. CASE ~Finish
    <3>1. reply' = <<>> /\ cmd' = cmd
      BY <1>4, <2>3 DEF ReadHeader, ReadData
    <3> QED
      BY <3>1
  <2> QED
    BY <2>2, <2>3
<1> QED
  BY <1>1, <1>2, <1>3, <1>4 DEF Consume

\* A command that stores, in step: what its (j+1)-th token does.
LEMMA CommandStep ==
    ASSUME NEW p \in 3..ScriptLength, NEW j \in Nat, j < Length(p),
           BoardAt(0, Target(p), Words(p), j),
           NEW v \in Values(Script(p)[j + 1]), Consume(Script(p)[j + 1], v),
           erased' = (erased \/ (Erasing /\ EndsNumber(Script(p)[j + 1])))
    PROVE  /\ j < 3 => UNCHANGED mem /\ (erased' <=> erased)
           /\ j >= 3 => /\ mem' = Store(Target(p) + 4 * (j - 3), Words(p)[j - 2])
                        /\ erased' <=> (erased \/ Target(p) + 4 * (j - 3) = EraseAddr)
           /\ j + 1 < Length(p) => Taking(Target(p), Words(p), j)'
           /\ j + 1 = Length(p) => Prompt'
<1> DEFINE a   == Target(p)
           ws  == Words(p)
           tok == Script(p)[j + 1]
<1>1. a \in Nat /\ ws \in Seq(Nat) /\ ws # <<>>
  BY StoreCommand
<1>2. Length(p) = Total(0, ws) /\ Length(p) \in Nat
  BY StoreShape
<1>3. tok = TokenAt(0, a, ws, j + 1)
  BY <1>2, StoreShape
<1> HIDE DEF a, ws, tok
<1>4. /\ mem' = IF j < 0 + 3 THEN mem ELSE Store(a + 4 * (j - 0 - 3), ws[j - 0 - 2])
      /\ j + 1 < Total(0, ws) => BoardAt(0, a, ws, j + 1)' /\ reply' \in {<<>>, <<FALSE>>}
      /\ j + 1 = Total(0, ws) => Prompt' /\ reply' = <<TRUE>>
  BY <1>1, <1>2, <1>3, BoardStep DEF a, ws, tok
<1>5. 0 + 3 = 3 /\ j - 0 - 3 = j - 3 /\ j - 0 - 2 = j - 2 /\ j + 1 - 0 - 1 = j
  OBVIOUS
<1>6. mem' = IF j < 3 THEN mem ELSE Store(a + 4 * (j - 3), ws[j - 2])
  BY <1>4, <1>5
<1>7. j + 1 < Length(p) => Taking(a, ws, j)'
  <2>1. j + 1 > 0
    OBVIOUS
  <2>2. BoardAt(0, a, ws, j + 1)' => Taking(a, ws, j)'
    BY <1>5, <2>1 DEF BoardAt
  <2> QED
    BY <1>2, <1>4, <2>2
<1>8. j < 3 => ~(Erasing /\ EndsNumber(tok))
  <2>1. CASE j = 0
    BY <2>1 DEF BoardAt, Prompt, Erasing
  <2>2. CASE j \in 1..2
    <3>1. Taking(a, ws, j - 0 - 1)
      BY <2>2 DEF BoardAt, a, ws
    <3>2. cmd = "w" /\ Len(args) < 2
      BY <2>2, <3>1 DEF Taking
    <3> QED
      BY <3>2 DEF Erasing, Header
  <2> QED
    BY <2>1, <2>2
<1>9. j >= 3 => (Erasing /\ EndsNumber(tok) <=> a + 4 * (j - 3) = EraseAddr)
  <2> SUFFICES ASSUME j >= 3
               PROVE  Erasing /\ EndsNumber(tok) <=> a + 4 * (j - 3) = EraseAddr
    OBVIOUS
  <2>1. Taking(a, ws, j - 0 - 1)
    BY DEF BoardAt, a, ws
  <2>2. cmd = "w" /\ Len(args) = j - 1 /\ base = a + 4 * (j - 3)
    <3>1. j - 0 - 1 = j - 1 /\ j - 1 >= 2 /\ (j - 1) - 2 = j - 3
      OBVIOUS
    <3>2. Taking(a, ws, j - 1)
      BY <2>1, <3>1
    <3>3. base = a + 4 * ((j - 1) - 2)
      BY <3>1, <3>2 DEF Taking
    <3> QED
      BY <3>1, <3>2, <3>3 DEF Taking
  <2>3. EndsNumber(tok)
    <3>1. tok = <<"num", Number(a, ws, j + 1 - 0 - 1)>>
      BY <1>3 DEF TokenAt
    <3> QED
      BY <3>1 DEF EndsNumber
  <2> QED
    BY <2>2, <2>3 DEF Erasing, Header
<1>10. erased' <=> (erased \/ (Erasing /\ EndsNumber(tok)))
  BY Zenon DEF tok
<1>11. j < 3 => UNCHANGED mem /\ (erased' <=> erased)
  <2>1. j < 3 => UNCHANGED mem
    BY <1>6
  <2> QED
    BY <1>8, <1>10, <2>1, Zenon
<1>12. j >= 3 => /\ mem' = Store(a + 4 * (j - 3), ws[j - 2])
                 /\ erased' <=> (erased \/ a + 4 * (j - 3) = EraseAddr)
  <2>1. j >= 3 => mem' = Store(a + 4 * (j - 3), ws[j - 2])
    BY <1>6
  <2> QED
    BY <1>9, <1>10, <2>1, Zenon
<1>13. j + 1 = Length(p) => Prompt'
  BY <1>2, <1>4
<1> QED
  BY <1>7, <1>11, <1>12, <1>13, Zenon DEF a, ws

\* The newline and the a.
LEMMA GreetingStep ==
    ASSUME NEW sigma, NEW q, NEW r, TypeOK, Sent(sigma), Reached(sigma, q), Reached(sigma, r),
           r.of > 0, r.of <= 2, Follows(sigma, q, r), InStepAt(sigma, q),
           NEW v, Consume(Script(sigma[r.of])[r.idx], v),
           erased' = (erased \/ (Erasing /\ EndsNumber(Script(sigma[r.of])[r.idx])))
    PROVE  InStepAt(sigma, r)' /\ UNCHANGED mem /\ (erased' <=> erased)
<1> DEFINE tok == Script(sigma[r.of])[r.idx]
<1>1. sigma[r.of] = r.of /\ sigma[r.of] \in 1..ScriptLength /\ r.idx \in 1..Length(sigma[r.of])
         /\ r.idx = 1 /\ Whole(sigma, r)
  BY CommandAt, Before
<1>2. r.of \in {1, 2} /\ q.of = r.of - 1
  BY <1>1, Before
<1>3. mode \in {"menu", "console"} /\ cmd = "none" /\ digits = 0
  BY <1>2 DEF InStepAt
<1>4. tok = IF r.of = 1 THEN key("newline") ELSE key("a")
  BY <1>1, <1>2, TokenKinds
<1> HIDE DEF tok
<1>5. MenuConsole(tok) \/ MenuAgain(tok) \/ Ignore(tok)
  <2>1. Consume(tok, v)
    BY DEF tok
  <2>2. tok \in {<<"key", "newline">>, <<"key", "a">>}
    BY <1>4 DEF key
  <2> QED
    BY <1>3, <2>1, <2>2 DEF Consume, Select, EnterBridge, Absorb, Elsewhere, ReadHeader, ReadData,
                            Header
<1>6. UNCHANGED <<mem, cmd, digits>> /\ mode' \in {"console", mode}
  BY <1>5 DEF MenuConsole, MenuAgain, Ignore
<1>7. tok = key("a") => mode' = "console"
  <2>1. tok = <<"key", "a">> => ~MenuAgain(tok) /\ (Ignore(tok) => mode = "console")
    BY DEF MenuAgain, Ignore, AtPrompt
  <2> QED
    BY <1>5, <1>6, <2>1 DEF MenuConsole, key
<1>8. InStepAt(sigma, r)'
  <2>1. mode' \in {"menu", "console"} /\ cmd' = "none" /\ digits' = 0 /\ (r.of = 2 => mode' = "console")
    BY <1>2, <1>3, <1>4, <1>6, <1>7
  <2> QED
    BY <1>1, <1>2, <2>1 DEF InStepAt, Prompt
<1>9. ~Erasing
  BY <1>3 DEF Erasing
<1>10. erased' <=> erased
  BY <1>9, Zenon
<1> QED
  BY <1>6, <1>8, <1>10

\* Any token, if the command before it is whole.
LEMMA InStepNext ==
    ASSUME NEW sigma, NEW q, NEW r, TypeOK, Sent(sigma), Reached(sigma, q), Reached(sigma, r),
           r.of >= 3, Follows(sigma, q, r), r.idx = 1 => Whole(sigma, q), InStepAt(sigma, q),
           r.exact, NEW v \in Values(Script(sigma[r.of])[r.idx]),
           Consume(Script(sigma[r.of])[r.idx], v),
           erased' = (erased \/ (Erasing /\ EndsNumber(Script(sigma[r.of])[r.idx])))
    PROVE  LET p == sigma[r.of]
           IN  /\ InStepAt(sigma, r)'
               /\ r.idx <= 3 => UNCHANGED mem /\ (erased' <=> erased)
               /\ r.idx > 3 => /\ mem' = Store(Target(p) + 4 * (r.idx - 4), Words(p)[r.idx - 3])
                               /\ erased' <=> (erased \/ Target(p) + 4 * (r.idx - 4) = EraseAddr)
<1>1. PICK p : p = sigma[r.of]
  OBVIOUS
<1>2. PICK j : j = r.idx - 1
  OBVIOUS
<1>3. /\ p \in 3..ScriptLength /\ r.idx \in 1..Length(p)
      /\ r.of \in Nat /\ r.of > 0 /\ r.idx \in Nat
  <2>1. r.of \in Nat /\ r.of > 0 /\ r.idx \in Nat
    BY DEF Reached, Position
  <2> QED
    BY <1>1, <2>1, CommandAt
<1>4. Length(p) = Total(0, Words(p)) /\ Length(p) \in Nat
  BY <1>3, StoreShape
<1>5. j \in Nat /\ j < Length(p) /\ r.idx = j + 1
  BY <1>2, <1>3, <1>4
<1>6. BoardAt(0, Target(p), Words(p), j)
  <2>1. CASE j = 0
    <3>1. r.of = q.of + 1 /\ q.of \in Nat /\ Whole(sigma, q)
      BY <1>3, <1>5, <2>1, Before
    <3>2. q.of > 1
      BY <3>1
    <3>3. Prompt
      BY <3>1, <3>2 DEF InStepAt
    <3> QED
      BY <2>1, <3>3 DEF BoardAt
  <2>2. CASE j > 0
    <3>1. r.idx > 1
      BY <1>5, <2>2
    <3>2. q.of = r.of /\ q.idx = j /\ q.exact
      BY <1>2, <1>3, <3>1, Before
    <3>3. ~Whole(sigma, q) /\ ~(q.of <= 1)
      BY <1>1, <1>3, <1>4, <1>5, <3>2 DEF Whole
    <3>4. Taking(Target(p), Words(p), j - 1)
      BY <1>1, <3>2, <3>3 DEF InStepAt
    <3>5. j - 0 - 1 = j - 1
      BY <1>5
    <3> QED
      BY <1>5, <2>2, <3>4, <3>5 DEF BoardAt
  <2> QED
    BY <1>5, <2>1, <2>2
<1>7. /\ v \in Values(Script(p)[j + 1]) /\ Consume(Script(p)[j + 1], v)
      /\ erased' = (erased \/ (Erasing /\ EndsNumber(Script(p)[j + 1])))
  BY <1>1, <1>5
<1>8. /\ j < 3 => UNCHANGED mem /\ (erased' <=> erased)
      /\ j >= 3 => /\ mem' = Store(Target(p) + 4 * (j - 3), Words(p)[j - 2])
                   /\ erased' <=> (erased \/ Target(p) + 4 * (j - 3) = EraseAddr)
      /\ j + 1 < Length(p) => Taking(Target(p), Words(p), j)'
      /\ j + 1 = Length(p) => Prompt'
  BY <1>3, <1>5, <1>6, <1>7, CommandStep
<1>9. InStepAt(sigma, r)'
  <2>1. ~(r.of <= 1) /\ (Whole(sigma, r) <=> j + 1 = Length(p))
    BY <1>1, <1>3, <1>5 DEF Whole
  <2>2. r.idx - 1 = j
    BY <1>2
  <2>3. ~Whole(sigma, r) => Taking(Target(p), Words(p), j)'
    BY <1>4, <1>5, <1>8, <2>1
  <2>4. Whole(sigma, r) => Prompt'
    BY <1>8, <2>1
  <2> QED
    BY <1>1, <2>1, <2>2, <2>3, <2>4 DEF InStepAt
<1>10. j - 3 = r.idx - 4 /\ j - 2 = r.idx - 3 /\ (r.idx <= 3 <=> j < 3) /\ (r.idx > 3 <=> j >= 3)
  BY <1>5
<1> QED
  BY <1>1, <1>8, <1>9, <1>10, Zenon

LEMMA CellsApart ==
    ASSUME NEW i \in Nat, NEW j \in Nat
    PROVE  (Cell(i) = Cell(j) <=> i = j) /\ EXECUTION_ADDRESS + 4 * (i - 1) = Cell(i)
  BY DEF Cell, EXECUTION_ADDRESS

LEMMA LastPosition ==
    ASSUME NEW sigma, NEW q, TypeOK, Sent(sigma), Reached(sigma, q), q.of = 5
    PROVE  Length(sigma[5]) = 4 /\ (Whole(sigma, q) => q.idx = 4)
<1>1. sigma[5] = 5
  BY CommandAt
<1>2. Length(5) = 4
  BY DEF Length, Words
<1> QED
  BY <1>1, <1>2 DEF Whole

LEMMA ErasedStep ==
    ASSUME NEW sigma, NEW q, NEW r, TypeInv, Sent(sigma), Reached(sigma, q), Reached(sigma, r),
           r.of > 0, Follows(sigma, q, r), r.idx = 1 => Whole(sigma, q), Clean(sigma, q),
           r.exact, NEW v \in Values(Script(sigma[r.of])[r.idx]),
           Consume(Script(sigma[r.of])[r.idx], v),
           erased' = (erased \/ (Erasing /\ EndsNumber(Script(sigma[r.of])[r.idx])))
    PROVE  Clean(sigma, r)'
<1>1. TypeOK /\ mem \in [Flash -> Nat]
  BY DEF TypeInv, W2TypeOK, BootTypeOK
<1>2. InStepAt(sigma, q) /\ q.exact /\ ErasedAt(q)
  BY Before DEF Clean
<1>3. r.of \in Nat /\ q.of \in Nat /\ (r.idx = 1 \/ r.idx > 1)
  BY Before
<1>4. CASE r.of <= 2
  <2>1. InStepAt(sigma, r)' /\ UNCHANGED mem /\ (erased' <=> erased)
    BY <1>1, <1>2, <1>4, GreetingStep
  <2>2. ErasedAt(r)'
    <3>1. ~(r.of > 5) /\ r.of # 5
      BY <1>3, <1>4
    <3>2. ~erased' => \A f \in Flash : mem'[f] = 0
      BY <1>2, <2>1 DEF ErasedAt
    <3> QED
      BY <3>1, <3>2 DEF ErasedAt
  <2> QED
    BY <2>1, <2>2 DEF Clean
<1>5. CASE r.of >= 3
  <2>1. PICK p : p = sigma[r.of]
    OBVIOUS
  <2>2. PICK a : a = Target(p) + 4 * (r.idx - 4)
    OBVIOUS
  <2>3. /\ InStepAt(sigma, r)'
        /\ r.idx <= 3 => UNCHANGED mem /\ (erased' <=> erased)
        /\ r.idx > 3 => /\ mem' = Store(a, Words(p)[r.idx - 3])
                        /\ erased' <=> (erased \/ a = EraseAddr)
    BY <1>1, <1>2, <1>5, <2>1, <2>2, InStepNext, Zenon
  <2>4. r.of > 5 => erased
    <3>1. r.of > 5 => q.of > 5 \/ (q.of = 5 /\ Whole(sigma, q))
      BY <1>3, Before
    <3>2. r.of > 5 => q.of > 5 \/ (q.of = 5 /\ q.idx = 4)
      BY <1>1, <3>1, LastPosition
    <3> QED
      BY <1>2, <3>2 DEF ErasedAt
  <2>5. r.of <= 5 => p = r.of /\ r.idx \in 1..Length(p) /\ Length(p) = 4
    <3>1. r.of <= 5 => p = r.of /\ r.idx \in 1..Length(p)
      BY <1>1, <1>5, <2>1, CommandAt
    <3>2. r.of <= 5 => p \in {3, 4, 5}
      BY <1>3, <1>5, <3>1
    <3>3. p \in {3, 4, 5} => Length(p) = 4
      BY DEF Length, Words
    <3> QED
      BY <3>1, <3>2, <3>3
  <2>6. r.idx > 3 /\ r.of <= 5 => r.idx = 4 /\ a = Target(p)
    <3>1. r.idx > 3 /\ r.of <= 5 => r.idx = 4
      BY <2>5
    <3>2. r.of <= 5 => Target(p) \in Nat
      BY <1>1, <1>5, <2>1, CommandAt, StoreCommand
    <3> QED
      BY <2>2, <3>1, <3>2
  <2>7. r.of = 5 /\ r.idx = 4 => erased'
    <3>1. r.of = 5 /\ r.idx = 4 => a = EraseAddr
      BY <2>5, <2>6 DEF Target
    <3>2. r.idx = 4 => (erased' <=> (erased \/ a = EraseAddr))
      BY <2>3
    <3> QED
      BY <3>1, <3>2, Zenon
  <2>8. erased => erased'
    BY Zenon
  <2>9. ASSUME ~erased', NEW f \in Flash PROVE mem'[f] = 0
    <3>1. ~erased /\ mem[f] = 0
      BY <1>2, <2>8, <2>9 DEF ErasedAt
    <3>2. r.of <= 5
      BY <1>3, <2>4, <3>1
    <3>3. CASE r.idx <= 3
      BY <2>3, <3>1, <3>3
    <3>4. CASE r.idx > 3
      <4>1. a # EraseAddr
        BY <2>3, <2>9, <3>4, Zenon
      <4>2. p # 5
        BY <2>6, <3>2, <3>4, <4>1 DEF Target
      <4>3. p = 3 \/ p = 4
        BY <1>3, <1>5, <2>5, <3>2, <4>2
      <4>4. a \notin Flash
        BY <2>6, <3>2, <3>4, <4>3, UploadAssumption DEF Target
      <4>5. mem' = Store(a, Words(p)[r.idx - 3])
        BY <2>3, <3>4
      <4>6. mem'[f] = mem[f]
        BY <4>1, <4>4, <4>5 DEF Store
      <4> QED
        BY <3>1, <4>6
    <3>5. r.idx <= 3 \/ r.idx > 3
      BY DEF Reached, Position
    <3> QED
      BY <3>3, <3>4, <3>5
  <2>10. r.of > 5 \/ (r.of = 5 /\ r.idx = 4) => erased'
    BY <2>4, <2>7, <2>8, Zenon
  <2>11. ErasedAt(r)'
    BY <2>9, <2>10 DEF ErasedAt
  <2> QED
    BY <2>3, <2>11 DEF Clean
<1> QED
  BY <1>3, <1>4, <1>5

LEMMA OneChunkScript ==
    ASSUME TypeInv, OneChunk, NEW sigma, Sent(sigma), NEW q, Reached(sigma, q)
    PROVE  /\ ScriptLength <= 6 /\ written <= ScriptLength /\ q.of <= 6
           /\ q.of > 5 => q.of = 6 /\ sigma[q.of] = 6 /\ Chunks = 1 /\ 6 \in 3..ScriptLength
<1>1. Chunks \in Nat /\ ScriptLength = 5 + Chunks
  BY ScriptLengthType
<1>2. Chunks <= 1
  <2> SUFFICES ASSUME Chunks > 1 PROVE FALSE
    BY <1>1
  <2>1. Chunks \in 1..Chunks
    BY <1>1
  <2> QED
    BY <2>1, ChunkInImage
<1>3. written <= ScriptLength /\ written \in Nat
  <2>1. pos \in 0..ScriptLength /\ written \in Nat
    BY DEF TypeInv, W2TypeOK, TypeOK
  <2>2. IF pos <= 5 THEN written = pos ELSE written \in 5..pos
    BY DEF Sent
  <2> QED
    BY <1>1, <2>1, <2>2
<1>4. q.of \in Nat /\ q.of <= written
  BY DEF Reached, Position
<1>5. q.of <= 6
  BY <1>1, <1>2, <1>3, <1>4
<1>6. ASSUME q.of > 5
      PROVE  q.of = 6 /\ sigma[q.of] = 6 /\ Chunks = 1 /\ 6 \in 3..ScriptLength
  <2>1. q.of = 6 /\ Chunks = 1 /\ ScriptLength = 6
    BY <1>1, <1>2, <1>3, <1>4, <1>5, <1>6
  <2>2. TypeOK /\ q.of > 0
    BY <2>1 DEF TypeInv, W2TypeOK
  <2>3. sigma[q.of] \in 1..ScriptLength /\ sigma[q.of] > 5
    BY <1>6, <2>2, CommandAt
  <2> QED
    BY <2>1, <2>3
<1> QED
  BY <1>1, <1>2, <1>3, <1>5, <1>6

\* The flash cells of the image after a word is stored at a.
LEMMA CellStored ==
    ASSUME NEW a, NEW v, NEW i \in 1..Len(Image), mem \in [Flash -> Nat], mem' = Store(a, v)
    PROVE  mem'[Cell(i)] = IF a = EraseAddr THEN Blank ELSE IF Cell(i) = a THEN v ELSE mem[Cell(i)]
<1>1. Cell(i) \in Flash
  BY UploadAssumption
<1> QED
  BY <1>1 DEF Store

LEMMA ImageStep ==
    ASSUME NEW sigma, NEW q, NEW r, TypeInv, Sent(sigma), Reached(sigma, q), Reached(sigma, r),
           r.of > 0, Follows(sigma, q, r), r.idx = 1 => Whole(sigma, q), Clean(sigma, q),
           r.exact, NEW v \in Values(Script(sigma[r.of])[r.idx]),
           Consume(Script(sigma[r.of])[r.idx], v),
           erased' = (erased \/ (Erasing /\ EndsNumber(Script(sigma[r.of])[r.idx]))),
           OneChunk, ImageAt(q)
    PROVE  ImageAt(r)'
<1> SUFFICES ASSUME erased', NEW i \in 1..Len(Image)
             PROVE  mem'[Cell(i)] = IF r.of > 5 /\ i + 3 <= r.idx THEN Image[i] ELSE Blank
  BY DEF ImageAt
<1>1. TypeOK /\ mem \in [Flash -> Nat]
  BY DEF TypeInv, W2TypeOK, BootTypeOK
<1>2. InStepAt(sigma, q) /\ q.exact /\ ErasedAt(q)
  BY Before DEF Clean
<1>3. /\ r.of \in Nat /\ q.of \in Nat /\ (r.idx = 1 \/ r.idx > 1) /\ i \in Nat
      /\ r.idx \in Nat /\ q.idx \in Nat /\ q.of <= r.of
  BY Before DEF Reached, Position
<1>4. erased => mem[Cell(i)] = IF q.of > 5 /\ i + 3 <= q.idx THEN Image[i] ELSE Blank
  BY <1>2 DEF ImageAt
<1>5. CASE r.of <= 2
  <2>1. UNCHANGED mem /\ (erased' <=> erased)
    BY <1>1, <1>2, <1>5, GreetingStep
  <2>2. mem[Cell(i)] = Blank
    BY <1>3, <1>4, <1>5, <2>1
  <2> QED
    BY <1>3, <1>5, <2>1, <2>2
<1>6. CASE r.of >= 3
  <2>1. PICK p : p = sigma[r.of]
    OBVIOUS
  <2>2. PICK a : a = Target(p) + 4 * (r.idx - 4)
    OBVIOUS
  <2>3. PICK u : u = Words(p)[r.idx - 3]
    OBVIOUS
  <2>4. /\ r.idx <= 3 => UNCHANGED mem /\ (erased' <=> erased)
        /\ r.idx > 3 => /\ mem' = Store(a, u)
                        /\ erased' <=> (erased \/ a = EraseAddr)
    BY <1>1, <1>2, <1>6, <2>1, <2>2, <2>3, InStepNext, Zenon
  <2>5. CASE r.of <= 5
    <3>1. erased => mem[Cell(i)] = Blank
      BY <1>3, <1>4, <2>5
    <3>2. mem'[Cell(i)] = Blank
      <4>1. CASE r.idx <= 3
        BY <2>4, <3>1, <4>1
      <4>2. CASE r.idx > 3
        <5>1. mem' = Store(a, u) /\ (erased \/ a = EraseAddr)
          BY <2>4, <4>2, Zenon
        <5>2. p = r.of /\ r.idx \in 1..Length(p)
          BY <1>1, <1>6, <2>1, <2>5, CommandAt
        <5>3. p \in {3, 4, 5} /\ Length(p) = 4
          BY <1>3, <1>6, <2>5, <5>2 DEF Length, Words
        <5>4. r.idx = 4
          BY <4>2, <5>2, <5>3
        <5>5. a = Target(p)
          BY <2>2, <5>3, <5>4, UploadAssumption
             DEF Target, SPECIAL_SEQUENCE, FLASH_UNLOCK
        <5>6. a # EraseAddr => a \notin Flash
          BY <5>3, <5>5, UploadAssumption DEF Target
        <5>7. Cell(i) \in Flash
          BY UploadAssumption
        <5>8. mem'[Cell(i)] = IF a = EraseAddr THEN Blank
                              ELSE IF Cell(i) = a THEN u ELSE mem[Cell(i)]
          BY <1>1, <5>1, CellStored
        <5> QED
          BY <3>1, <5>1, <5>6, <5>7, <5>8
      <4> QED
        BY <1>3, <4>1, <4>2
    <3> QED
      BY <1>3, <2>5, <3>2
  <2>6. CASE r.of > 5
    <3>1. r.of = 6 /\ p = 6 /\ Chunks = 1 /\ 6 \in 3..ScriptLength
      BY <1>1, <2>1, <2>6, OneChunkScript
    <3>2. erased
      <4>1. q.of > 5 \/ (q.of = 5 /\ Whole(sigma, q))
        BY <1>3, <2>6, Before
      <4>2. q.of > 5 \/ (q.of = 5 /\ q.idx = 4)
        BY <1>1, <4>1, LastPosition
      <4> QED
        BY <1>2, <4>2 DEF ErasedAt
    <3>3. /\ Len(Words(p)) = Len(Image) /\ Len(Image) \in 1..ChunkWords
          /\ \A k \in 1..Len(Image) : Words(p)[k] = Image[k]
          /\ Target(p) = EXECUTION_ADDRESS
      <4>1. 1 \in 1..Chunks
        BY <3>1
      <4>2. Words(p) = Chunk(1) /\ Target(p) = EXECUTION_ADDRESS
        BY <3>1 DEF Words, Target
      <4>3. /\ Len(Chunk(1)) \in 1..ChunkWords /\ Len(Chunk(1)) = Len(Image)
            /\ \A k \in 1..Len(Image) : Chunk(1)[k] = Image[k]
        BY <4>1, ChunkShape
      <4> QED
        BY <4>2, <4>3
    <3>4. Length(p) = 3 + Len(Image) /\ r.idx \in 1..Length(p)
      BY <1>1, <1>6, <2>1, <3>1, <3>3, CommandAt DEF Length
    <3>5. CASE r.idx <= 3
      <4>1. mem'[Cell(i)] = mem[Cell(i)]
        BY <2>4, <3>5
      <4>2. q.of > 5 => q.idx <= 3
        <5>1. CASE r.idx = 1
          BY <1>3, <3>1, <5>1, Before
        <5>2. CASE r.idx > 1
          BY <1>3, <3>5, <5>2, Before
        <5> QED
          BY <1>3, <5>1, <5>2
      <4> QED
        BY <1>3, <1>4, <3>2, <3>5, <4>1, <4>2
    <3>6. CASE r.idx > 3
      <4>1. q.of = 6 /\ q.idx = r.idx - 1
        BY <1>3, <3>1, <3>6, Before
      <4>2. PICK k : k = r.idx - 3
        OBVIOUS
      <4>3. k \in 1..Len(Image) /\ k \in Nat /\ k \in 1..ChunkWords
        <5>1. Len(Image) \in Nat /\ Len(Image) <= ChunkWords /\ ChunkWords \in Nat
          BY <3>3, UploadAssumption
        <5>2. r.idx <= 3 + Len(Image)
          BY <3>4
        <5> QED
          BY <1>3, <3>6, <4>2, <5>1, <5>2
      <4>4. a = Cell(k) /\ u = Image[k]
        <5>1. r.idx - 4 = k - 1
          BY <1>3, <4>2
        <5> QED
          BY <2>2, <2>3, <3>3, <4>2, <4>3, <5>1, CellsApart
      <4>5. a # EraseAddr
        BY <4>3, <4>4, UploadAssumption
      <4>6. mem'[Cell(i)] = IF Cell(i) = a THEN u ELSE mem[Cell(i)]
        BY <1>1, <2>4, <3>6, <4>5, CellStored
      <4>7. Cell(i) = a <=> i = k
        BY <1>3, <4>3, <4>4, CellsApart
      <4>8. mem[Cell(i)] = IF i + 3 <= r.idx - 1 THEN Image[i] ELSE Blank
        BY <1>4, <3>2, <4>1
      <4> QED
        BY <1>3, <3>1, <4>2, <4>4, <4>6, <4>7, <4>8
    <3> QED
      BY <1>3, <3>5, <3>6
  <2> QED
    BY <1>3, <2>5, <2>6
<1> QED
  BY <1>3, <1>5, <1>6

\* What the answer to one token adds to the wire.
LEMMA NewAcks ==
    ASSUME TypeOK, TypeOK', NEW w \in Nat, UNCHANGED buf,
           rx' = rx \/ rx' = rx \o Answering(reply', w),
           reply' \in {<<>>, <<FALSE>>, <<TRUE>>}
    PROVE  /\ \A i \in 1..Len(wire) : i \in 1..Len(wire)' /\ wire'[i] = wire[i]
           /\ \A i \in 1..Len(wire)' : wire'[i].ack /\ ~(i <= Len(wire)) =>
                 i = Len(wire) + 1 /\ wire'[i].of = w /\ reply' = <<TRUE>>
<1>0. CASE rx' = rx
  <2>1. wire' = wire /\ Len(wire) \in Nat
    BY <1>0, WireType DEF wire
  <2>2. Len(wire)' = Len(wire)
    BY <2>1
  <2>3. \A i \in 1..Len(wire)' : i <= Len(wire)
    BY <2>1, <2>2
  <2> QED
    BY <2>1, <2>2, <2>3
<1>1. PICK b : b = Answering(reply', w)
  OBVIOUS
<1>2. /\ reply' \in Seq(BOOLEAN) /\ Len(reply') \in Nat
      /\ reply' = <<>> \/ Len(reply') = 1
      /\ Len(reply') = 1 /\ reply'[1] => reply' = <<TRUE>>
  <2>1. <<>> \in Seq(BOOLEAN) /\ <<FALSE>> \in Seq(BOOLEAN) /\ <<TRUE>> \in Seq(BOOLEAN)
    BY EmptySeq
  <2>2. reply' \in Seq(BOOLEAN)
    BY <2>1
  <2>3. Len(<<FALSE>>) = 1 /\ Len(<<TRUE>>) = 1 /\ Len(<<>>) # 1 /\ ~<<FALSE>>[1]
    OBVIOUS
  <2>4. reply' = <<>> \/ Len(reply') = 1
    <3>1. reply' = <<>> \/ reply' = <<FALSE>> \/ reply' = <<TRUE>>
      OBVIOUS
    <3> QED
      BY <2>3, <3>1, Zenon
  <2>5. Len(reply') = 1 /\ reply'[1] => reply' = <<TRUE>>
    <3>1. Len(reply') = 1 => reply' # <<>>
      BY <2>3, Zenon
    <3>2. reply'[1] => reply' # <<FALSE>>
      BY <2>3, Zenon
    <3>3. reply' = <<>> \/ reply' = <<FALSE>> \/ reply' = <<TRUE>>
      OBVIOUS
    <3> QED
      BY <3>1, <3>2, <3>3, Zenon
  <2> QED
    BY <2>2, <2>4, <2>5, LenProperties
<1>3. b \in Seq(Byte)
  BY <1>1, <1>2, AnsweringType
<1>4. Len(b) = Len(reply') /\ \A i \in 1..Len(b) : b[i] = [ack |-> reply'[i], of |-> w]
  BY <1>1, <1>2 DEF Answering
<1>5. rx' # rx =>
      /\ Len(wire)' = Len(wire) + Len(b) /\ Len(wire) \in Nat
      /\ \A i \in 1..Len(wire) : wire'[i] = wire[i]
      /\ \A i \in 1..Len(b) : wire'[Len(wire) + i] = b[i]
  BY <1>1, <1>3, WireGrows, WireType
<1>6. CASE rx' # rx /\ reply' = <<>>
  <2>1. Len(wire)' = Len(wire)
    <3>1. Len(b) = 0
      BY <1>4, <1>6, EmptySeq
    <3> QED
      BY <1>5, <1>6, <3>1
  <2>2. \A i \in 1..Len(wire) : i \in 1..Len(wire)'
    BY <2>1
  <2>3. \A i \in 1..Len(wire)' : i <= Len(wire)
    BY <1>5, <2>1
  <2> QED
    BY <1>5, <1>6, <2>2, <2>3
<1>7. CASE rx' # rx /\ Len(reply') = 1
  <2>1. Len(wire)' = Len(wire) + 1
    BY <1>4, <1>5, <1>7
  <2>2. wire'[Len(wire) + 1] = [ack |-> reply'[1], of |-> w]
    <3>1. 1 \in 1..Len(b)
      BY <1>4, <1>7
    <3>2. wire'[Len(wire) + 1] = b[1]
      BY <1>5, <1>7, <3>1
    <3>3. b[1] = [ack |-> reply'[1], of |-> w]
      BY <1>4, <3>1
    <3> QED
      BY <3>2, <3>3
  <2>3. reply'[1] => reply' = <<TRUE>>
    BY <1>2, <1>7
  <2>4. ASSUME NEW i \in 1..Len(wire)', wire'[i].ack, ~(i <= Len(wire))
        PROVE  i = Len(wire) + 1 /\ wire'[i].of = w /\ reply' = <<TRUE>>
    <3>1. i = Len(wire) + 1
      BY <1>5, <2>1, <2>4
    <3>2. wire'[i].ack = reply'[1] /\ wire'[i].of = w
      <4>1. wire'[i] = [ack |-> reply'[1], of |-> w]
        BY <2>2, <3>1, Zenon
      <4> QED
        BY <4>1
    <3> QED
      BY <2>3, <2>4, <3>1, <3>2
  <2>5. \A i \in 1..Len(wire) : i \in 1..Len(wire)'
    BY <1>5, <2>1
  <2> QED
    BY <1>5, <1>7, <2>4, <2>5
<1> QED
  BY <1>0, <1>2, <1>6, <1>7

\* The tokens that remain come in order.
LEMMA OrderAdvances ==
    ASSUME TypeInv, NEW n, InOrder(n), BoardExecutes, NEW m, m = line[1].of
    PROVE  InOrder(m)'
<1>1. Len(line) \in Nat /\ Len(line) >= 1 /\ written \in Nat
  BY BoardTakes DEF TypeInv, W2TypeOK, TypeOK
<1>2. UNCHANGED written
  BY DEF BoardExecutes, callerVars
<1>4. /\ n \in Nat /\ m \in 1..written /\ 1 \in 1..Len(line)
      /\ \A i \in 1..Len(line) : line[i].of \in 1..written /\ Kind(line[i].tok) /\ m <= line[i].of
      /\ \A i \in 2..Len(line) : line[i].tok = key("w") => m < line[i].of /\ line[i].of >= 3
      /\ \A i, j \in 1..Len(line) :
            i < j => /\ line[i].of <= line[j].of
                     /\ line[j].tok = key("w") => line[i].of < line[j].of
  <2>1. 1 \in 1..Len(line) /\ n \in Nat /\ m \in 1..written
    BY <1>1 DEF InOrder
  <2>2. \A i \in 1..Len(line) : i = 1 \/ 1 < i
    BY <1>1
  <2>3. \A i \in 1..Len(line) : m <= line[i].of
    BY <2>1, <2>2 DEF InOrder
  <2>4. \A i \in 2..Len(line) : i \in 1..Len(line) /\ 1 < i
    BY <1>1
  <2> QED
    BY <2>1, <2>3, <2>4 DEF InOrder
<1>5. CASE Len(line') = Len(line) - 1 /\ \A i \in 1..(Len(line) - 1) : line'[i] = line[i + 1]
  <2>1. \A i \in 1..(Len(line) - 1) : i + 1 \in 1..Len(line) /\ i + 1 \in 2..Len(line)
    BY <1>1
  <2>2. ASSUME NEW i \in 1..Len(line)'
        PROVE  /\ Kind(line'[i].tok) /\ m <= line'[i].of /\ line'[i].of \in 1..written
               /\ line'[i].tok = key("w") => m < line'[i].of /\ line'[i].of >= 3
    BY <1>4, <1>5, <2>1
  <2>3. ASSUME NEW i \in 1..Len(line)', NEW j \in 1..Len(line)', i < j
        PROVE  /\ line'[i].of <= line'[j].of
               /\ line'[j].tok = key("w") => line'[i].of < line'[j].of
    <3>1. i + 1 \in 1..Len(line) /\ j + 1 \in 1..Len(line) /\ i + 1 < j + 1
             /\ line'[i] = line[i + 1] /\ line'[j] = line[j + 1]
      BY <1>1, <1>5, <2>1, <2>3
    <3> QED
      BY <1>4, <3>1
  <2> QED
    BY <1>2, <1>4, <2>2, <2>3 DEF InOrder, Kind
<1>6. ASSUME NEW t \in Tokens, t = key("newline") \/ t[1] \in {"num", "part"},
             Len(line') = Len(line), line'[1] = [tok |-> t, of |-> line[1].of],
             \A i \in 2..Len(line) : line'[i] = line[i]
      PROVE  InOrder(m)'
  <2>1. line'[1].tok = t /\ line'[1].of = m /\ Kind(t) /\ t # key("w")
    <3>1. key("newline") # key("w") /\ key("w")[1] = "key"
      BY DEF key
    <3> QED
      BY <1>6, <3>1 DEF Kind
  <2>2. \A i \in 1..Len(line) : i = 1 \/ i \in 2..Len(line)
    BY <1>1
  <2>3. ASSUME NEW i \in 1..Len(line)'
        PROVE  /\ Kind(line'[i].tok) /\ m <= line'[i].of /\ line'[i].of \in 1..written
               /\ line'[i].tok = key("w") => m < line'[i].of /\ line'[i].of >= 3
    BY <1>4, <1>6, <2>1, <2>2
  <2>4. ASSUME NEW i \in 1..Len(line)', NEW j \in 1..Len(line)', i < j
        PROVE  /\ line'[i].of <= line'[j].of
               /\ line'[j].tok = key("w") => line'[i].of < line'[j].of
    <3>1. i \in 1..Len(line) /\ j \in 2..Len(line) /\ j \in 1..Len(line) /\ line'[j] = line[j]
             /\ line'[i].of = line[i].of
      BY <1>1, <1>6, <2>1, <2>2, <2>4
    <3> QED
      BY <1>4, <2>4, <3>1
  <2> QED
    BY <1>2, <1>4, <2>3, <2>4 DEF InOrder, Kind
<1> QED
  BY <1>5, <1>6, BoardTakes

\* The board takes the next token, whatever it means to it.
LEMMA AcksStep ==
    ASSUME TypeInv, TypeInv', NEW n, InOrder(n), AcksAt(n), BoardExecutes, NEW m, m = line[1].of
    PROVE  /\ AcksAt(m)'
           /\ Unanswered(n) => Unanswered(m)'
           /\ cmd = "w" /\ n < m => Unanswered(m)'
<1>1. PICK tok : tok = line[1].tok
  OBVIOUS
<1>2. TypeOK /\ TypeOK'
  BY DEF TypeInv, W2TypeOK
<1>3. /\ n \in Nat /\ m \in Nat /\ n <= m /\ m \in 1..written /\ Kind(tok)
      /\ tok = key("w") => n < m /\ m >= 3
  <2>1. 1 \in 1..Len(line)
    BY BoardTakes
  <2> QED
    BY <1>1, <1>2, <2>1 DEF InOrder, TypeOK
<1>4. UNCHANGED <<written, loopVars>> /\ (rx' = rx \/ rx' = rx \o Answering(reply', m))
  BY <1>1, BoardTakes DEF BoardExecutes, callerVars
<1>6. lastAck \in Nat /\ acksRead \in Nat /\ written \in Nat
  BY <1>2 DEF TypeOK
<1>7. \/ cmd' = cmd /\ reply' \in {<<>>, <<FALSE>>}
      \/ cmd = "none" /\ cmd' = "w" /\ reply' = <<>> /\ tok = key("w")
      \/ cmd = "w" /\ cmd' = "none" /\ reply' = <<TRUE>>
  <2>1. PICK v : Consume(tok, v)
    BY <1>1, BoardTakes
  <2>2. cmd \in {"none", "w"}
    BY DEF AcksAt
  <2> QED
    BY <1>3, <2>1, <2>2, BoardReplies
<1>8. /\ \A i \in 1..Len(wire) : i \in 1..Len(wire)' /\ wire'[i] = wire[i]
      /\ \A i \in 1..Len(wire)' : wire'[i].ack /\ ~(i <= Len(wire)) =>
            i = Len(wire) + 1 /\ wire'[i].of = m /\ reply' = <<TRUE>>
  BY <1>2, <1>3, <1>4, <1>7, NewAcks DEF loopVars
<1>9. /\ cmd \in {"none", "w"}
      /\ loop \in {"kevent", "dispatch", "readable"} => buf = <<>>
      /\ lastAck <= n /\ (cmd = "w" => lastAck < n /\ n >= 3)
      /\ acksRead + 2 <= lastAck \/ (acksRead = 0 /\ lastAck = 0)
      /\ \A i \in 1..Len(wire) : wire[i].ack =>
            /\ 3 <= wire[i].of /\ wire[i].of <= n /\ lastAck < wire[i].of
            /\ cmd = "w" => wire[i].of < n
      /\ \A i, j \in 1..Len(wire) : wire[i].ack /\ wire[j].ack /\ i < j => wire[i].of < wire[j].of
  BY DEF AcksAt
<1>10. Len(wire) \in Nat /\ \A i \in 1..Len(wire) : wire[i].of \in Nat
  BY <1>2, WireType DEF Byte
<1>11. UNCHANGED <<loop, buf, acksRead, lastAck, written>>
  BY <1>4 DEF loopVars
\* An ACK that was there, and the new one.
<1>12. ASSUME NEW i \in 1..Len(wire)', wire'[i].ack
       PROVE  \/ i \in 1..Len(wire) /\ wire'[i] = wire[i]
              \/ i = Len(wire) + 1 /\ wire'[i].of = m /\ cmd = "w" /\ cmd' = "none"
  <2>1. CASE i <= Len(wire)
    BY <1>8, <1>10, <2>1
  <2>2. CASE ~(i <= Len(wire))
    <3>1. i = Len(wire) + 1 /\ wire'[i].of = m /\ reply' = <<TRUE>>
      BY <1>8, <1>12, <2>2
    <3>2. <<TRUE>> # <<>> /\ <<TRUE>> # <<FALSE>>
      OBVIOUS
    <3>3. cmd = "w" /\ cmd' = "none"
      BY <1>7, <3>1, <3>2
    <3> QED
      BY <3>1, <3>3
  <2> QED
    BY <2>1, <2>2
<1>13. cmd' = "w" => lastAck < m /\ m >= 3
         /\ \A i \in 1..Len(wire) : wire[i].ack => wire[i].of < m
  <2>1. CASE cmd' = cmd
    BY <1>3, <1>6, <1>9, <1>10, <2>1
  <2>2. CASE cmd = "none" /\ cmd' = "w" /\ tok = key("w")
    <3>1. n < m /\ m >= 3
      BY <1>3, <2>2
    <3> QED
      BY <1>3, <1>6, <1>9, <1>10, <3>1
  <2> QED
    BY <1>7, <2>1, <2>2
<1>14. AcksAt(m)'
  <2>1. cmd' \in {"none", "w"}
    BY <1>7, <1>9
  <2>2. lastAck <= m
    BY <1>3, <1>6, <1>9
  <2>3. ASSUME NEW i \in 1..Len(wire)', wire'[i].ack
        PROVE  /\ 3 <= wire'[i].of /\ wire'[i].of <= m /\ lastAck < wire'[i].of
               /\ cmd' = "w" => wire'[i].of < m
    <3>1. CASE i \in 1..Len(wire) /\ wire'[i] = wire[i]
      BY <1>3, <1>6, <1>9, <1>10, <1>13, <2>3, <3>1
    <3>2. CASE wire'[i].of = m /\ cmd = "w" /\ cmd' = "none"
      BY <1>3, <1>6, <1>9, <3>2
    <3> QED
      BY <1>12, <2>3, <3>1, <3>2
  <2>4. ASSUME NEW i \in 1..Len(wire)', NEW j \in 1..Len(wire)', wire'[i].ack, wire'[j].ack, i < j
        PROVE  wire'[i].of < wire'[j].of
    <3>1. i \in 1..Len(wire) /\ wire'[i] = wire[i]
      <4>1. j <= Len(wire) + 1
        BY <1>10, <1>12, <2>4
      <4>2. i # Len(wire) + 1
        BY <1>10, <2>4, <4>1
      <4> QED
        BY <1>12, <2>4, <4>2
    <3>2. CASE j \in 1..Len(wire) /\ wire'[j] = wire[j]
      BY <1>9, <2>4, <3>1, <3>2
    <3>3. CASE wire'[j].of = m /\ cmd = "w"
      BY <1>3, <1>9, <1>10, <2>4, <3>1, <3>3
    <3> QED
      BY <1>12, <2>4, <3>2, <3>3
  <2> QED
    BY <1>9, <1>11, <1>13, <2>1, <2>2, <2>3, <2>4 DEF AcksAt
<1>15. ASSUME NEW g \in 3..written, g < m,
              \A i \in 1..Len(wire) : wire[i].ack => wire[i].of # g,
              lastAck >= g => acksRead + 2 < lastAck
       PROVE  Unanswered(m)'
  <2>1. ASSUME NEW i \in 1..Len(wire)', wire'[i].ack PROVE wire'[i].of # g
    BY SMTT(20), <1>3, <1>12, <1>15, <2>1
  <2> QED
    BY <1>11, <1>15, <2>1 DEF Unanswered
<1>16. ASSUME Unanswered(n) PROVE Unanswered(m)'
  <2>1. PICK g \in 3..written :
           /\ g < n
           /\ \A i \in 1..Len(wire) : wire[i].ack => wire[i].of # g
           /\ lastAck >= g => acksRead + 2 < lastAck
    BY <1>16 DEF Unanswered
  <2>2. g < m
    BY <1>3, <2>1
  <2> QED
    BY <1>15, <2>1, <2>2
<1>17. ASSUME cmd = "w", n < m PROVE Unanswered(m)'
  <2>1. n \in 3..written
    BY <1>3, <1>6, <1>9, <1>17
  <2>2. ASSUME NEW i \in 1..Len(wire), wire[i].ack PROVE wire[i].of # n
    <3>1. wire[i].of < n /\ wire[i].of \in Nat
      BY <1>9, <1>10, <1>17, <2>2
    <3> QED
      BY <1>3, <3>1
  <2>3. ~(lastAck >= n)
    BY <1>3, <1>6, <1>9, <1>17
  <2> QED
    BY <1>15, <1>17, <2>1, <2>2, <2>3
<1> QED
  BY <1>14, <1>16, <1>17

-------------------------------------------------------------------------------
(* The invariant. *)

LEMMA InitInv == W2Init => UploadInv
<1> SUFFICES ASSUME W2Init PROVE UploadInv
  OBVIOUS
<1> DEFINE sigma == [p \in Nat |-> 0]
           at    == [k \in Nat |-> [of |-> 0, idx |-> 0, exact |-> TRUE]]
<1>1. /\ sigma \in [Nat -> Nat] /\ at \in [Nat -> Position]
      /\ at[0] = [of |-> 0, idx |-> 0, exact |-> TRUE]
  BY DEF Position
<1> HIDE DEF sigma, at
<1>2. PICK q : q = at[0]
  OBVIOUS
<1>3. q \in Position /\ q.of = 0 /\ q.idx = 0 /\ q.exact
  BY <1>1, <1>2 DEF Position
<1>4. written = 0 /\ pos = 0 /\ Len(line) = 0 /\ stage = "flush"
  BY EmptySeq DEF W2Init, Init
<1>5. Sent(sigma)
  BY <1>1, <1>4, ScriptLengthType DEF Sent
<1>6. OnTheLine(sigma, at)
  <2>1. Reached(sigma, q) /\ Whole(sigma, q)
    BY <1>3, <1>4 DEF Reached, Whole
  <2>2. ASSUME NEW i \in 0..Len(line) PROVE Reached(sigma, at[i])
    <3>1. i = 0
      BY <1>4
    <3> QED
      BY <1>2, <2>1, <3>1, Zenon
  <2>3. at[Len(line)] = q
    BY <1>2, <1>4
  <2>4. ~\E i \in 1..Len(line) : TRUE
    BY <1>4
  <2> QED
    BY <1>1, <1>3, <1>4, <2>1, <2>2, <2>3, <2>4, Zenon DEF OnTheLine
<1>7. Clean(sigma, q)
  <2>1. InStepAt(sigma, q)
    BY <1>3 DEF InStepAt, W2Init, BootInit
  <2>2. ErasedAt(q)
    BY <1>3 DEF ErasedAt, W2Init, BootInit
  <2> QED
    BY <2>1, <2>2 DEF Clean
<1>8. ImageAt(q)
  BY DEF ImageAt, W2Init
<1>9. ASSUME "stale" \notin faults PROVE AcksAt(0)
  <2>1. rx = <<>> /\ buf = <<>> /\ lastAck = 0 /\ acksRead = 0 /\ cmd = "none"
    BY <1>9 DEF W2Init, Init, BootInit
  <2>2. Len(wire) = 0
    <3>1. <<>> \in Seq(Byte) /\ Len(<<>>) = 0
      BY EmptySeq
    <3> QED
      BY <2>1, <3>1, Joined DEF wire
  <2> QED
    BY <2>1, <2>2 DEF AcksAt
<1>10. InOrder(0)
  BY <1>4 DEF InOrder
<1>11. WithBoard(sigma, at, 0)
  BY <1>2, <1>3, <1>6, <1>7 DEF WithBoard
<1>12. InvAt(sigma, at, 0)
  BY <1>2, <1>5, <1>8, <1>9, <1>10, <1>11 DEF InvAt
<1> QED
  BY <1>12 DEF UploadInv

\* Steps that leave the line and the board alone.
LEMMA QuietKeepsInv ==
    ASSUME NEW sigma, NEW at, NEW n, InvAt(sigma, at, n), Sent(sigma)', Closed => Closed',
           UNCHANGED <<line, written, bootVars, faults, erased>>,
           AcksAt(n) => AcksAt(n)' /\ (Unanswered(n) => Unanswered(n)')
    PROVE  InvAt(sigma, at, n)'
<1> USE DEF bootVars
<1>1. ASSUME OnTheLine(sigma, at) PROVE OnTheLine(sigma, at)'
  <2>1. \A k \in Nat : Reached(sigma, at[k]) => Reached(sigma, at[k])'
    BY DEF Reached
  <2>2. \A q, r : Follows(sigma, q, r) => Follows(sigma, q, r)'
    BY DEF Follows
  <2> QED
    BY <1>1, <2>1, <2>2 DEF OnTheLine
<1>2. Clean(sigma, at[0]) => Clean(sigma, at[0])'
  BY DEF Clean, InStepAt, ErasedAt, Prompt, Taking
<1>3. ImageAt(at[0]) => ImageAt(at[0])'
  BY DEF ImageAt
<1>4. WithBoard(sigma, at, n) => WithBoard(sigma, at, n)'
  BY <1>1, <1>2 DEF WithBoard
<1>5. InOrder(n) => InOrder(n)'
  BY DEF InOrder
<1> QED
  BY <1>3, <1>4, <1>5 DEF InvAt

LEMMA WaitKeepsInv ==
    ASSUME TypeInv, NEW sigma, NEW at, NEW n, InvAt(sigma, at, n), Sent(sigma)', Closed => Closed',
           UNCHANGED <<line, written, bootVars, faults, erased, loopVars, rx>>
    PROVE  InvAt(sigma, at, n)'
<1>1. WireKept
  BY DEF WireKept, wire, loopVars
<1>2. AcksAt(n) => AcksAt(n)' /\ (Unanswered(n) => Unanswered(n)')
  <2> SUFFICES ASSUME AcksAt(n)
               PROVE  AcksAt(n)' /\ (Unanswered(n) => Unanswered(n)')
    OBVIOUS
  <2>1. n \in Nat
    BY DEF InvAt, InOrder, TypeInv, W2TypeOK, TypeOK
  <2>2. loop' \in {"kevent", "dispatch", "readable"} => buf' = <<>>
    BY DEF AcksAt, loopVars
  <2>3. TypeOK /\ UNCHANGED <<acksRead, lastAck, cmd, written>>
    BY DEF TypeInv, W2TypeOK, loopVars, bootVars
  <2> QED
    BY <1>1, <2>1, <2>2, <2>3, AcksUnchanged
<1> QED
  BY <1>2, QuietKeepsInv

LEMMA LoopingKeepsInv ==
    ASSUME TypeInv, TypeInv', NEW sigma, NEW at, NEW n, InvAt(sigma, at, n), Looping
    PROVE  InvAt(sigma, at, n)'
<1>1. LoopStep /\ UNCHANGED <<bootVars, scriptVars>>
  BY DEF Looping
<1>2. UNCHANGED <<line, written>>
  BY <1>1 DEF LoopStep, Kevent, Dispatch, Read, LoopLock, ScanAck, Notify, ScanOther, LoopUnlock,
              ttyVars, callerVars
<1>3. Sent(sigma)' /\ (Closed => Closed')
  BY <1>1, <1>2 DEF InvAt, Sent, scriptVars, Closed
<1>4. AcksAt(n) => AcksAt(n)' /\ (Unanswered(n) => Unanswered(n)')
  <2>1. n \in Nat
    BY DEF InvAt, InOrder, TypeInv, W2TypeOK, TypeOK
  <2>2. TypeOK /\ TypeOK' /\ UNCHANGED <<cmd, written>>
    BY <1>1, <1>2 DEF TypeInv, W2TypeOK, bootVars
  <2> QED
    BY <1>1, <2>1, <2>2, LoopKeepsAcks
<1> QED
  BY <1>1, <1>2, <1>3, <1>4, QuietKeepsInv DEF scriptVars

\* Flush and close drop what was not read, and the end of what was not transmitted.
LEMMA PrefixKeepsInv ==
    ASSUME TypeInv, TypeInv', NEW sigma, NEW at, NEW n, InvAt(sigma, at, n), Sent(sigma)',
           UNCHANGED <<written, bootVars, faults, erased, loopVars>>, rx' = <<>>,
           NEW k \in 0..Len(line), line' = SubSeq(line, 1, k),
           Closed' \/ (k = Len(line) /\ ~Closed)
    PROVE  InvAt(sigma, at, n)'
<1> USE DEF bootVars
<1>1. TypeOK /\ TypeOK' /\ line \in Seq(Token) /\ Len(line) \in Nat
  BY LenProperties DEF TypeInv, W2TypeOK, TypeOK
<1>2. Len(line') = k /\ \A i \in 1..k : line'[i] = line[i]
  <2>1. Len(SubSeq(line, 1, k)) = k /\ \A i \in 1..k : SubSeq(line, 1, k)[i] = line[i]
    BY <1>1, SubSeqProperties
  <2> QED
    BY <2>1
<1>3. \A i \in 1..k : i \in 1..Len(line) /\ i \in 0..Len(line)
  BY <1>1
<1>4. ASSUME OnTheLine(sigma, at) PROVE OnTheLine(sigma, at)'
  <2>1. \A q : Reached(sigma, q) => Reached(sigma, q)'
    BY DEF Reached
  <2>2. \A q, r : Follows(sigma, q, r) => Follows(sigma, q, r)'
    BY DEF Follows
  <2>3. \A i \in 0..k : i \in 0..Len(line)
    BY <1>1
  <2>4. \A i \in 1..k :
          /\ at[i].of > 0
          /\ Stands(sigma, at[i], line'[i].tok) /\ line'[i].of = at[i].of
          /\ Follows(sigma, at[i - 1], at[i])
    BY <1>2, <1>3, <1>4 DEF OnTheLine
  <2>5. ~Closed' => /\ at[k].of = written
                    /\ "short" \notin faults => Whole(sigma, at[k])
    BY <1>4 DEF OnTheLine
  <2> QED
    BY <1>2, <1>4, <2>1, <2>2, <2>3, <2>4, <2>5 DEF OnTheLine
<1>5. Clean(sigma, at[0]) => Clean(sigma, at[0])'
  BY DEF Clean, InStepAt, ErasedAt, Prompt, Taking
<1>6. ImageAt(at[0]) => ImageAt(at[0])'
  BY DEF ImageAt
<1>7. WithBoard(sigma, at, n) => WithBoard(sigma, at, n)'
  BY <1>4, <1>5 DEF WithBoard
<1>8. InOrder(n) => InOrder(n)'
  BY <1>2, <1>3 DEF InOrder
<1>9. /\ Len(wire)' <= Len(wire) /\ Len(wire)' \in Nat /\ Len(wire) \in Nat
      /\ \A i \in 1..Len(wire)' : wire'[i] = wire[i]
  <2>1. /\ Len(wire)' = Len(buf)' + Len(rx)'
        /\ \A i \in 1..Len(wire)' :
              wire'[i] = IF i <= Len(buf)' THEN buf'[i] ELSE rx'[i - Len(buf)']
    BY <1>1, WireTypeNext
  <2>2. Len(rx)' = 0 /\ buf' = buf
    BY EmptySeq DEF loopVars
  <2>3. /\ Len(wire) = Len(buf) + Len(rx) /\ Len(buf) \in Nat /\ Len(rx) \in Nat
        /\ \A i \in 1..Len(wire) : wire[i] = IF i <= Len(buf) THEN buf[i] ELSE rx[i - Len(buf)]
    BY <1>1, WireType
  <2> QED
    BY <2>1, <2>2, <2>3
<1>10. \A i \in 1..Len(wire)' : i \in 1..Len(wire)
  BY <1>9
<1>11. UNCHANGED <<cmd, loop, buf, lastAck, acksRead>>
  BY DEF loopVars
<1>12. AcksAt(n) => AcksAt(n)'
  BY <1>9, <1>10, <1>11 DEF AcksAt
<1>13. ASSUME Unanswered(n) PROVE Unanswered(n)'
  BY <1>9, <1>10, <1>11, <1>13 DEF Unanswered
<1> QED
  BY <1>6, <1>7, <1>8, <1>12, <1>13 DEF InvAt

\* The first flush finds an empty line.
LEMMA FlushKeepsInv ==
    ASSUME TypeInv, TypeInv', NEW sigma, NEW at, NEW n, InvAt(sigma, at, n), FlushFirst
    PROVE  InvAt(sigma, at, n)'
<1>1. Sent(sigma) /\ InOrder(n) /\ Len(line) \in Nat
  BY LenProperties DEF InvAt, TypeInv, W2TypeOK, TypeOK
<1>2. pos = 0 /\ written = 0
  BY <1>1 DEF FlushFirst, Sent
<1>3. Len(line) = 0
  <2> SUFFICES ASSUME Len(line) # 0 PROVE FALSE
    OBVIOUS
  <2>1. 1 \in 1..Len(line)
    BY <1>1
  <2>2. line[1].of \in 1..0
    BY <1>1, <1>2, <2>1 DEF InOrder
  <2> QED
    BY <2>2
<1>4. PICK k \in 0..Len(line) : line' = SubSeq(line, 1, k)
  BY DEF FlushFirst, Flush
<1>5. rx' = <<>> /\ UNCHANGED <<written, bootVars, faults, erased, loopVars, pos>> /\ stage' = "send"
  BY DEF FlushFirst, Flush, callerVars
<1>6. Sent(sigma)'
  BY <1>1, <1>5 DEF Sent
<1>7. k = Len(line) /\ ~Closed
  BY <1>3, <1>4 DEF FlushFirst, Closed
<1> QED
  BY <1>4, <1>5, <1>6, <1>7, PrefixKeepsInv

LEMMA CloseKeepsInv ==
    ASSUME TypeInv, TypeInv', NEW sigma, NEW at, NEW n, InvAt(sigma, at, n), CloseClient
    PROVE  InvAt(sigma, at, n)'
<1>1. PICK k \in 0..Len(line) :
         line' = SubSeq(line, 1, k) /\ stage' = IF k = Len(line) THEN "closed" ELSE "lost"
  BY DEF CloseClient
<1>2. rx' = <<>> /\ UNCHANGED <<written, bootVars, faults, erased, loopVars, pos>>
  BY DEF CloseClient, callerVars
<1>3. Closed' /\ stage' # "flush"
  BY <1>1 DEF Closed
<1>4. Sent(sigma)'
  BY <1>2, <1>3 DEF InvAt, Sent
<1> QED
  BY <1>1, <1>2, <1>3, <1>4, PrefixKeepsInv

\* The tokens on the line have positions, and q is where the board is.
Placed(sigma, q) == \E at : OnTheLine(sigma, at) /\ at[0] = q

\* What a write adds to the line.
LEMMA SendExtendsLine ==
    ASSUME TypeInv, TypeInv', NEW sigma, Sent(sigma), Send,
           NEW sigma2, sigma2 = [sigma EXCEPT ![written + 1] = pos + 1]
    PROVE  /\ Sent(sigma2)'
           /\ \A p \in 0..written : sigma2[p] = sigma[p]
           /\ \A n : InOrder(n) => InOrder(n)'
           /\ \A q : Placed(sigma, q) => Placed(sigma2, q)'
<1>1. PICK w, c, L : w = written /\ c = pos /\ L = Len(line)
  OBVIOUS
<1>2. TypeOK /\ TypeOK'
  BY DEF TypeInv, W2TypeOK
<1>3. w \in Nat /\ c + 1 \in 1..ScriptLength /\ c \in Nat /\ L \in Nat
  <2>1. pos \in 0..ScriptLength /\ line \in Seq(Token) /\ written \in Nat
    BY DEF TypeInv, W2TypeOK, TypeOK
  <2> QED
    BY <1>1, <2>1, ScriptLengthType, LenProperties DEF Send
<1>4. PICK toks \in Seq(Tokens), n \in 1..Length(c + 1) :
         /\ \A i \in 1..n :
               \/ toks[i] = Script(c + 1)[i]
               \/ i = n /\ i > 1 /\ "short" \in faults /\ Piece(toks[i])
         /\ "short" \notin faults =>
               n = Length(c + 1) /\ \A i \in 1..n : toks[i] = Script(c + 1)[i]
         /\ Len(line') = L + n
         /\ \A k \in 1..L : line'[k] = line[k]
         /\ \A k \in L + 1..L + n : line'[k] = [tok |-> toks[k - L], of |-> w + 1]
  BY <1>1, Sends
<1>5. Length(c + 1) \in Nat /\ n \in Nat /\ n >= 1
  <2>1. Length(c + 1) \in Nat
    BY <1>3, ScriptShape
  <2> QED
    BY <2>1
<1>6. /\ written' = w + 1 /\ pos' = c + 1 /\ stage = "send"
      /\ UNCHANGED <<stage, faults>>
  <2>1. \E t : Write(t)
    BY DEF Send
  <2>2. written' = w + 1
    BY <1>1, <2>1 DEF Write
  <2> QED
    BY <1>1, <2>2 DEF Send
<1>7. /\ sigma2 \in [Nat -> Nat] /\ sigma2[w + 1] = c + 1
      /\ \A p \in 0..w : sigma2[p] = sigma[p]
  <2>1. sigma \in [Nat -> Nat] /\ sigma2 = [sigma EXCEPT ![w + 1] = c + 1]
    BY <1>1 DEF Sent
  <2>2. w + 1 \in Nat /\ c + 1 \in Nat /\ \A p \in 0..w : p \in Nat /\ p # w + 1
    BY <1>3
  <2>3. sigma2 \in [Nat -> Nat]
    BY <2>1, <2>2
  <2>4. sigma2[w + 1] = c + 1
    BY <2>1, <2>2, Zenon
  <2>5. ASSUME NEW p \in 0..w PROVE sigma2[p] = sigma[p]
    BY <2>1, <2>2, Zenon
  <2> QED
    BY <2>3, <2>4, <2>5
<1>9. IF c <= 5 THEN w = c ELSE w \in 5..c
  BY <1>1 DEF Sent
<1>10. Sent(sigma2)'
  <2>1. ASSUME NEW p \in 1..w + 1
        PROVE  sigma2[p] \in 1..ScriptLength /\ (p <= 5 => sigma2[p] = p) /\ (p > 5 => sigma2[p] > 5)
    <3>1. CASE p <= w
      <4>1. p \in 1..w /\ p \in 0..w
        BY <1>3, <3>1
      <4> QED
        BY <1>1, <1>7, <4>1 DEF Sent
    <3>2. CASE p = w + 1
      BY <1>3, <1>7, <1>9, <3>2
    <3> QED
      BY <1>3, <3>1, <3>2
  <2>2. IF c + 1 <= 5 THEN w + 1 = c + 1 ELSE w + 1 \in 5..c + 1
    BY <1>3, <1>9
  <2>3. c + 1 <= ScriptLength /\ stage' # "flush"
    BY <1>3, <1>6, ScriptLengthType
  <2> QED
    BY <1>6, <1>7, <2>1, <2>2, <2>3 DEF Sent
\* The letters of the new command, and its other tokens.
<1>11. ASSUME NEW i \in 1..n
       PROVE  Kind(toks[i]) /\ (toks[i] = key("w") => w + 1 >= 3 /\ i = 1)
  <2>1. i \in 1..Length(c + 1)
    BY <1>5
  <2>2. CASE Piece(toks[i])
    <3>1. toks[i][1] = "part"
      BY <2>2 DEF Piece
    <3>2. toks[i] # key("w")
      BY <3>1 DEF key
    <3> QED
      BY <3>1, <3>2 DEF Kind
  <2>3. CASE toks[i] = Script(c + 1)[i]
    <3>1. /\ c + 1 = 1 => toks[i] = key("newline")
          /\ c + 1 = 2 => toks[i] = key("a")
          /\ c + 1 >= 3 /\ i = 1 => toks[i] = key("w")
          /\ c + 1 >= 3 /\ i > 1 => toks[i][1] = "num"
          /\ c + 1 = 1 \/ c + 1 = 2 \/ c + 1 >= 3
          /\ i = 1 \/ i > 1
      BY <1>3, <2>1, <2>3, TokenKinds
    <3>2. key("w") # key("newline") /\ key("w") # key("a") /\ key("w")[1] # "num"
      BY DEF key
    <3>3. toks[i] = key("w") => c + 1 >= 3 /\ i = 1
      BY <3>1, <3>2
    <3>4. c + 1 >= 3 => w + 1 >= 3
      BY <1>3, <1>9
    <3> QED
      BY <3>1, <3>3, <3>4 DEF Kind
  <2> QED
    BY <1>4, <2>2, <2>3
<1>12. ASSUME NEW m, InOrder(m) PROVE InOrder(m)'
  <2>1. m \in 0..w
    BY <1>1, <1>12 DEF InOrder
  <2>2. ASSUME NEW k \in 1..L
        PROVE  /\ line'[k] = line[k] /\ line[k].of \in 1..w
               /\ Kind(line[k].tok) /\ m <= line[k].of
               /\ line[k].tok = key("w") => m < line[k].of /\ line[k].of >= 3
    BY <1>1, <1>4, <1>12 DEF InOrder
  <2>3. ASSUME NEW k \in L + 1..L + n
        PROVE  /\ line'[k].of = w + 1 /\ Kind(line'[k].tok)
               /\ line'[k].tok = key("w") => w + 1 >= 3 /\ k = L + 1
    <3>1. k - L \in 1..n
      BY <1>3, <1>5
    <3>2. line'[k].tok = toks[k - L] /\ line'[k].of = w + 1
      <4>1. line'[k] = [tok |-> toks[k - L], of |-> w + 1]
        BY <1>4, Zenon
      <4> QED
        BY <4>1
    <3>3. k - L = 1 => k = L + 1
      BY <1>3
    <3> QED
      BY <1>11, <3>1, <3>2, <3>3
  <2>4. \A k \in 1..Len(line)' : k \in 1..L \/ k \in L + 1..L + n
    BY <1>3, <1>4, <1>5
  <2>5. ASSUME NEW k \in 1..Len(line)'
        PROVE  /\ Kind(line'[k].tok) /\ m <= line'[k].of /\ line'[k].of \in 1..w + 1
               /\ line'[k].tok = key("w") => m < line'[k].of /\ line'[k].of >= 3
    <3>1. CASE k \in 1..L
      BY <1>3, <2>2, <3>1
    <3>2. CASE k \in L + 1..L + n
      BY <1>3, <2>1, <2>3, <3>2
    <3> QED
      BY <2>4, <3>1, <3>2
  <2>6. ASSUME NEW i \in 1..Len(line)', NEW j \in 1..Len(line)', i < j
        PROVE  /\ line'[i].of <= line'[j].of
               /\ line'[j].tok = key("w") => line'[i].of < line'[j].of
    <3>1. CASE i \in 1..L /\ j \in 1..L
      BY <1>1, <1>12, <2>2, <2>6, <3>1 DEF InOrder
    <3>2. CASE i \in 1..L /\ j \in L + 1..L + n
      <4>1. line'[i].of \in 1..w /\ line'[j].of = w + 1
        BY <2>2, <2>3, <3>2
      <4> QED
        BY <1>3, <4>1
    <3>3. CASE i \in L + 1..L + n /\ j \in L + 1..L + n
      <4>1. line'[i].of = w + 1 /\ line'[j].of = w + 1 /\ j # L + 1
        BY <1>3, <2>3, <2>6, <3>3
      <4>2. line'[j].tok # key("w")
        BY <2>3, <3>3, <4>1
      <4> QED
        BY <1>3, <4>1, <4>2
    <3> QED
      BY <1>3, <2>4, <2>6, <3>1, <3>2, <3>3
  <2> QED
    BY <1>3, <1>6, <2>1, <2>5, <2>6 DEF InOrder, Kind
<1>13. ASSUME NEW at, OnTheLine(sigma, at)
       PROVE  \E at2 : OnTheLine(sigma2, at2)' /\ at2[0] = at[0]
  <2> DEFINE at2 == [k \in Nat |-> IF k <= L THEN at[k]
                                   ELSE [of |-> w + 1, idx |-> k - L,
                                         exact |-> toks[k - L] = Script(c + 1)[k - L]]]
  <2>1. /\ at \in [Nat -> Position] /\ at2 \in [Nat -> Position]
        /\ \A k \in 0..L : at2[k] = at[k]
        /\ \A k \in L + 1..L + n :
              /\ at2[k] \in Position /\ at2[k].of = w + 1 /\ at2[k].idx = k - L
              /\ at2[k].exact <=> toks[k - L] = Script(c + 1)[k - L]
    <3>1. at \in [Nat -> Position]
      BY <1>13 DEF OnTheLine
    <3>2. ASSUME NEW k \in Nat
          PROVE  (IF k <= L THEN at[k] ELSE [of |-> w + 1, idx |-> k - L,
                                            exact |-> toks[k - L] = Script(c + 1)[k - L]])
                    \in Position
      <4>1. (toks[k - L] = Script(c + 1)[k - L]) \in BOOLEAN
        OBVIOUS
      <4>2. ~(k <= L) => k - L \in Nat /\ w + 1 \in Nat
        BY <1>3
      <4> QED
        BY <3>1, <4>1, <4>2 DEF Position
    <3>3. at2 \in [Nat -> Position]
      BY <3>2
    <3>4. \A k \in 0..L : at2[k] = at[k]
      BY <1>3
    <3>5. ASSUME NEW k \in L + 1..L + n
          PROVE  /\ at2[k] \in Position /\ at2[k].of = w + 1 /\ at2[k].idx = k - L
                 /\ at2[k].exact <=> toks[k - L] = Script(c + 1)[k - L]
      <4>1. k \in Nat /\ ~(k <= L)
        BY <1>3, <1>5
      <4>2. at2[k] = [of |-> w + 1, idx |-> k - L,
                      exact |-> toks[k - L] = Script(c + 1)[k - L]]
        BY <4>1
      <4>3. at2[k] \in Position
        BY <3>3, <4>1
      <4> HIDE DEF at2
      <4>4. at2[k].of = w + 1 /\ at2[k].idx = k - L
        BY <4>2
      <4>5. at2[k].exact = (toks[k - L] = Script(c + 1)[k - L])
        BY <4>2
      <4>6. at2[k].exact <=> toks[k - L] = Script(c + 1)[k - L]
        BY <4>5, Zenon
      <4> QED
        BY <4>3, <4>4, <4>6
    <3> QED
      BY <3>1, <3>3, <3>4, <3>5
  <2> HIDE DEF at2
  <2>2. ASSUME NEW q, Reached(sigma, q)
        PROVE  /\ Reached(sigma2, q)' /\ q.of \in 0..w /\ sigma2[q.of] = sigma[q.of]
               /\ Whole(sigma, q) <=> Whole(sigma2, q)
    <3>1. q \in Position /\ q.of \in 0..w
      BY <1>1, <1>3, <2>2 DEF Reached, Position
    <3>2. sigma2[q.of] = sigma[q.of]
      BY <1>7, <3>1
    <3>3. q.of <= w + 1
      BY <1>3, <3>1
    <3> QED
      BY <1>6, <2>2, <3>1, <3>2, <3>3 DEF Reached, Whole
  <2>3. ASSUME NEW k \in L + 1..L + n
        PROVE  Reached(sigma2, at2[k])' /\ Stands(sigma2, at2[k], toks[k - L])
    <3>1. /\ at2[k].of = w + 1 /\ at2[k].idx = k - L /\ at2[k] \in Position
          /\ at2[k].exact <=> toks[k - L] = Script(c + 1)[k - L]
      BY <2>1
    <3>2. k - L \in 1..n /\ k - L \in 1..Length(c + 1)
      BY <1>3, <1>5
    <3>3. ~at2[k].exact => "short" \in faults /\ k - L > 1 /\ Piece(toks[k - L])
      BY <1>4, <3>1, <3>2
    <3>4. at2[k].of # 0 /\ sigma2[at2[k].of] = c + 1
      BY <1>3, <1>7, <3>1
    <3>5. Reached(sigma2, at2[k])'
      BY <1>3, <1>6, <3>1, <3>2, <3>3, <3>4 DEF Reached
    <3>6. Stands(sigma2, at2[k], toks[k - L])
      BY <3>1, <3>3, <3>4 DEF Stands
    <3> QED
      BY <3>5, <3>6
  <2>4. /\ \A k \in 0..L : Reached(sigma, at[k])
        /\ \A k \in 1..L :
              /\ at[k].of > 0
              /\ Stands(sigma, at[k], line[k].tok) /\ line[k].of = at[k].of
              /\ Follows(sigma, at[k - 1], at[k])
        /\ at[L].of = w
        /\ "short" \notin faults => Whole(sigma, at[L])
    BY <1>1, <1>6, <1>13 DEF OnTheLine, Closed
  <2>5. ASSUME NEW k \in 0..L + n PROVE Reached(sigma2, at2[k])'
    <3>1. CASE k <= L
      <4>1. k \in 0..L
        BY <1>3, <3>1
      <4> QED
        BY <2>1, <2>2, <2>4, <4>1
    <3>2. CASE k > L
      <4>1. k \in L + 1..L + n
        BY <1>3, <1>5, <3>2
      <4> QED
        BY <2>3, <4>1
    <3> QED
      BY <1>3, <1>5, <3>1, <3>2
  <2>6. ASSUME NEW k \in 1..L + n
        PROVE  /\ at2[k].of > 0
               /\ Stands(sigma2, at2[k], line'[k].tok) /\ line'[k].of = at2[k].of
               /\ Follows(sigma2, at2[k - 1], at2[k])'
    <3>1. CASE k <= L
      <4>1. k \in 1..L /\ k \in 0..L /\ k - 1 \in 0..L
        BY <1>3, <3>1
      <4>2. at2[k] = at[k] /\ at2[k - 1] = at[k - 1] /\ line'[k] = line[k]
        BY <1>4, <2>1, <4>1
      <4>3. Reached(sigma, at[k]) /\ Reached(sigma, at[k - 1])
        BY <2>4, <4>1
      <4>4. sigma2[at[k].of] = sigma[at[k].of] /\ (Whole(sigma, at[k - 1]) <=> Whole(sigma2, at[k - 1]))
        BY <2>2, <4>3
      <4>5. /\ at[k].of > 0 /\ Stands(sigma, at[k], line[k].tok) /\ line[k].of = at[k].of
            /\ Follows(sigma, at[k - 1], at[k])
        BY <2>4, <4>1
      <4>6. Follows(sigma2, at[k - 1], at[k])'
        BY <1>6, <4>4, <4>5 DEF Follows
      <4>7. Stands(sigma2, at[k], line[k].tok)
        BY <4>4, <4>5 DEF Stands
      <4> QED
        BY <4>2, <4>5, <4>6, <4>7
    <3>2. CASE k > L
      <4>1. k \in L + 1..L + n /\ k - L \in Nat
        BY <1>3, <1>5, <3>2
      <4>2. at2[k].of = w + 1 /\ at2[k].idx = k - L
        BY <2>1, <4>1
      <4>3. line'[k].tok = toks[k - L] /\ line'[k].of = w + 1
        <5>1. line'[k] = [tok |-> toks[k - L], of |-> w + 1]
          BY <1>4, <4>1, Zenon
        <5> QED
          BY <5>1
      <4>4. Follows(sigma2, at2[k - 1], at2[k])'
        <5>1. CASE k = L + 1
          <6>1. k - 1 = L /\ at2[L] = at[L] /\ L \in 0..L
            <7>1. k - 1 = L /\ L \in 0..L
              BY <1>3, <5>1
            <7> QED
              BY <2>1, <7>1, Zenon
          <6>2. at2[k - 1].of = w /\ at2[k].of = w + 1 /\ at2[k].idx = 1
            <7>1. k - L = 1
              BY <1>3, <5>1
            <7>2. at2[k - 1] = at[L] /\ at[L].of = w
              BY <2>4, <6>1, Zenon
            <7> QED
              BY <4>2, <7>1, <7>2, Zenon
          <6>3. "short" \notin faults => Whole(sigma2, at2[k - 1])
            BY <2>2, <2>4, <6>1
          <6> QED
            BY <1>6, <6>2, <6>3 DEF Follows
        <5>2. CASE k > L + 1
          <6>1. /\ k - 1 \in L + 1..L + n /\ (k - 1) - L \in Nat /\ k - L = ((k - 1) - L) + 1
                /\ (k - 1) - L \in 1..n /\ (k - 1) - L # n
            BY <1>3, <1>5, <4>1, <5>2
          <6>2. at2[k - 1].of = w + 1 /\ at2[k - 1].idx = (k - 1) - L
            BY <2>1, <6>1
          <6>3. toks[(k - 1) - L] = Script(c + 1)[(k - 1) - L]
            BY <1>4, <6>1
          <6>4. at2[k - 1].exact
            BY <2>1, <6>1, <6>3
          <6> QED
            BY <4>2, <6>1, <6>2, <6>4 DEF Follows
        <5> QED
          BY <1>3, <4>1, <5>1, <5>2
      <4>5. Stands(sigma2, at2[k], line'[k].tok)
        BY <2>3, <4>1, <4>3
      <4> QED
        BY <1>3, <4>2, <4>3, <4>4, <4>5
    <3> QED
      BY <1>3, <1>5, <3>1, <3>2
  <2>7. at2[L + n].of = w + 1 /\ ("short" \notin faults => Whole(sigma2, at2[L + n]))
    <3>1. L + n \in L + 1..L + n /\ (L + n) - L = n /\ n \in 1..n
      BY <1>3, <1>5
    <3>2. at2[L + n].of = w + 1 /\ at2[L + n].idx = n
      BY <2>1, <3>1
    <3>3. "short" \notin faults => at2[L + n].exact
      <4>1. "short" \notin faults => toks[n] = Script(c + 1)[n]
        BY <1>4, <3>1
      <4> QED
        BY <2>1, <3>1, <4>1
    <3> QED
      BY <1>4, <1>7, <3>2, <3>3 DEF Whole
  <2>8. OnTheLine(sigma2, at2)'
    BY <1>4, <1>6, <2>1, <2>5, <2>6, <2>7 DEF OnTheLine
  <2>9. at2[0] = at[0]
    <3>1. 0 \in 0..L
      BY <1>3
    <3> QED
      BY <2>1, <3>1
  <2> QED
    BY <2>8, <2>9
<1>14. ASSUME NEW q, Placed(sigma, q) PROVE Placed(sigma2, q)'
  <2>1. PICK at : OnTheLine(sigma, at) /\ at[0] = q
    BY <1>14 DEF Placed
  <2>2. PICK at2 : OnTheLine(sigma2, at2)' /\ at2[0] = at[0]
    BY <1>13, <2>1
  <2> QED
    BY <2>1, <2>2 DEF Placed
<1> QED
  BY <1>1, <1>7, <1>10, <1>12, <1>14

LEMMA SendKeepsInv ==
    ASSUME TypeInv, TypeInv', NEW sigma, NEW at, NEW n, InvAt(sigma, at, n), Send
    PROVE  UploadInv'
<1>1. PICK sigma2 : sigma2 = [sigma EXCEPT ![written + 1] = pos + 1]
  OBVIOUS
<1>2. Sent(sigma) /\ InOrder(n) /\ written \in Nat
  BY DEF InvAt, TypeInv, W2TypeOK, TypeOK
<1>3. /\ Sent(sigma2)' /\ InOrder(n)'
      /\ \A p \in 0..written : sigma2[p] = sigma[p]
      /\ OnTheLine(sigma, at) => \E at2 : OnTheLine(sigma2, at2)' /\ at2[0] = at[0]
  <2>1. Sent(sigma2)'
    BY <1>1, <1>2, SendExtendsLine
  <2>2. \A p \in 0..written : sigma2[p] = sigma[p]
    BY <1>1, <1>2, SendExtendsLine
  <2>3. InOrder(n)'
    BY <1>1, <1>2, SendExtendsLine
  <2>4. \A q : Placed(sigma, q) => Placed(sigma2, q)'
    BY <1>1, <1>2, SendExtendsLine
  <2>5. ASSUME OnTheLine(sigma, at)
        PROVE  \E at2 : OnTheLine(sigma2, at2)' /\ at2[0] = at[0]
    <3>1. Placed(sigma2, at[0])'
      BY <2>4, <2>5 DEF Placed
    <3> QED
      BY <3>1 DEF Placed
  <2> QED
    BY <2>1, <2>2, <2>3, <2>5
<1>4. PICK at2 : OnTheLine(sigma, at) => OnTheLine(sigma2, at2)' /\ at2[0] = at[0]
  BY <1>3
<1>5. written' = written + 1 /\ UNCHANGED <<faults, erased, bootVars, loopVars, rx>>
  <2>1. \E toks : Write(toks)
    BY DEF Send
  <2>2. written' = written + 1 /\ UNCHANGED <<loopVars, rx>>
    BY <2>1 DEF Write
  <2> QED
    BY <2>2 DEF Send
<1>6. ASSUME WithBoard(sigma, at, n)
      PROVE  /\ WithBoard(sigma2, at2, n)'
             /\ ImageAt(at[0]) => ImageAt(at2[0])'
  <2>1. PICK q : q = at[0]
    OBVIOUS
  <2>2. OnTheLine(sigma, at) /\ q.of = n /\ Clean(sigma, q)
    BY <1>6, <2>1 DEF WithBoard
  <2>3. at2[0] = q /\ OnTheLine(sigma2, at2)'
    BY <1>4, <2>1, <2>2
  <2>4. sigma2[q.of] = sigma[q.of]
    BY <1>2, <1>3, <2>2 DEF InOrder
  <2>5. UNCHANGED <<mode, cmd, args, digits, base, mem, erased>>
    BY <1>5 DEF bootVars
  <2>6. Whole(sigma, q) <=> Whole(sigma2, q)
    BY <2>4 DEF Whole
  <2>7. InStepAt(sigma, q) => InStepAt(sigma2, q)'
    BY <2>4, <2>5, <2>6 DEF InStepAt, Prompt, Taking
  <2>8. ErasedAt(q) => ErasedAt(q)'
    BY <2>5 DEF ErasedAt
  <2>9. ImageAt(q) => ImageAt(q)'
    BY <2>5 DEF ImageAt
  <2>10. Clean(sigma2, q)'
    BY <2>2, <2>7, <2>8 DEF Clean
  <2> QED
    BY <2>1, <2>2, <2>3, <2>9, <2>10 DEF WithBoard
<1>7. UNCHANGED <<wire, loop, buf, acksRead, lastAck, cmd>>
  BY <1>5 DEF wire, loopVars, bootVars
<1>8. AcksAt(n) => AcksAt(n)'
  BY <1>7 DEF AcksAt
<1>9. ASSUME Unanswered(n) PROVE Unanswered(n)'
  <2>1. PICK g \in 3..written :
           /\ g < n
           /\ \A k \in 1..Len(wire) : wire[k].ack => wire[k].of # g
           /\ lastAck >= g => acksRead + 2 < lastAck
    BY <1>9 DEF Unanswered
  <2>2. g \in 3..written + 1
    BY <1>2, <2>1
  <2> QED
    BY <1>5, <1>7, <2>1, <2>2 DEF Unanswered
<1>10. /\ "short" \notin faults => WithBoard(sigma, at, n)
       /\ "short" \notin faults /\ OneChunk => ImageAt(at[0])
       /\ "stale" \notin faults => AcksAt(n)
       /\ "stale" \notin faults /\ OneChunk =>
             (WithBoard(sigma, at, n) /\ ImageAt(at[0])) \/ Unanswered(n)
  BY DEF InvAt
<1>11. InvAt(sigma2, at2, n)'
  BY <1>3, <1>5, <1>6, <1>8, <1>9, <1>10 DEF InvAt
<1> QED
  BY <1>11 DEF UploadInv

\* The token at the head of the line, and the position it brings the board to.
LEMMA HeadOfLine ==
    ASSUME TypeInv, NEW sigma, NEW at, OnTheLine(sigma, at), line # <<>>
    PROVE  LET q == at[0]  r == at[1]
           IN  /\ Reached(sigma, q) /\ Reached(sigma, r) /\ r.of > 0 /\ Follows(sigma, q, r)
               /\ Stands(sigma, r, line[1].tok) /\ line[1].of = r.of
               /\ r.idx = 1 /\ "short" \notin faults => Whole(sigma, q)
               /\ q \in Position /\ r \in Position
<1>1. Len(line) \in Nat /\ Len(line) >= 1
  BY LenProperties, EmptySeq DEF TypeInv, W2TypeOK, TypeOK
<1>2. 0 \in 0..Len(line) /\ 1 \in 0..Len(line) /\ 1 \in 1..Len(line) /\ 1 - 1 = 0
  BY <1>1
<1>4. Reached(sigma, at[0]) /\ Reached(sigma, at[1]) /\ at[0] \in Position /\ at[1] \in Position
  BY <1>2 DEF OnTheLine
<1>5. /\ at[1].of > 0
      /\ Stands(sigma, at[1], line[1].tok) /\ line[1].of = at[1].of
      /\ Follows(sigma, at[0], at[1])
  <2>1. Follows(sigma, at[1 - 1], at[1])
    BY <1>2 DEF OnTheLine
  <2> QED
    BY <1>2, <2>1 DEF OnTheLine
<1>7. at[1].idx = 1 /\ "short" \notin faults => Whole(sigma, at[0])
  <2>1. at[1].idx = 1 => at[1].of = at[0].of + 1 /\ at[0].of \in Nat
    BY <1>4, <1>5, Before
  <2> QED
    BY <1>5, <2>1 DEF Follows
<1> QED
  BY <1>4, <1>5, <1>7

LEMMA LineAdvances ==
    ASSUME TypeInv, NEW sigma, NEW at, OnTheLine(sigma, at), BoardExecutes,
           Len(line') = Len(line) - 1, \A k \in 1..(Len(line) - 1) : line'[k] = line[k + 1]
    PROVE  OnTheLine(sigma, [k \in Nat |-> at[k + 1]])'
<1> DEFINE at2 == [k \in Nat |-> at[k + 1]]
<1>1. PICK L : L = Len(line)
  OBVIOUS
<1>2. /\ L \in Nat /\ L >= 1 /\ Len(line') = L - 1
      /\ \A k \in 1..(L - 1) : line'[k] = line[k + 1]
  BY <1>1, BoardTakes
<1>3. /\ at \in [Nat -> Position] /\ at2 \in [Nat -> Position]
      /\ \A k \in Nat : at2[k] = at[k + 1]
  BY DEF OnTheLine
<1> HIDE DEF at2
<1>4. UNCHANGED <<written, faults, stage>>
  BY DEF BoardExecutes, callerVars
<1>5. /\ \A k \in 0..L : Reached(sigma, at[k])
      /\ \A k \in 1..L :
            /\ at[k].of > 0
            /\ Stands(sigma, at[k], line[k].tok) /\ line[k].of = at[k].of
            /\ Follows(sigma, at[k - 1], at[k])
      /\ ~Closed => at[L].of = written /\ ("short" \notin faults => Whole(sigma, at[L]))
  BY <1>1 DEF OnTheLine
<1>6. ASSUME NEW k \in 0..(L - 1) PROVE Reached(sigma, at2[k])'
  <2>1. k + 1 \in 0..L /\ at2[k] = at[k + 1]
    <3>1. k \in Nat /\ k + 1 \in 0..L
      BY <1>2
    <3> QED
      BY <1>3, <3>1
  <2>2. Reached(sigma, at[k + 1])
    BY <1>5, <2>1
  <2> QED
    BY <1>4, <2>1, <2>2 DEF Reached
<1>7. ASSUME NEW k \in 1..(L - 1)
      PROVE  /\ at2[k].of > 0
             /\ Stands(sigma, at2[k], line'[k].tok) /\ line'[k].of = at2[k].of
             /\ Follows(sigma, at2[k - 1], at2[k])'
  <2>1. k + 1 \in 1..L /\ at2[k] = at[k + 1] /\ at2[k - 1] = at[k] /\ (k + 1) - 1 = k
    <3>1. k \in Nat /\ k - 1 \in Nat /\ (k - 1) + 1 = k /\ k + 1 \in 1..L /\ (k + 1) - 1 = k
      BY <1>2
    <3>2. at2[k - 1] = at[(k - 1) + 1] /\ at2[k] = at[k + 1]
      BY <1>3, <3>1
    <3> QED
      BY <3>1, <3>2
  <2>2. /\ at[k + 1].of > 0
        /\ Stands(sigma, at[k + 1], line[k + 1].tok) /\ line[k + 1].of = at[k + 1].of
        /\ Follows(sigma, at[(k + 1) - 1], at[k + 1])
    BY <1>5, <2>1
  <2>3. Follows(sigma, at2[k - 1], at2[k])'
    BY <1>4, <2>1, <2>2 DEF Follows
  <2> QED
    BY <1>2, <2>1, <2>2, <2>3
<1>8. at2[L - 1] = at[L]
  <2>1. L - 1 \in Nat /\ (L - 1) + 1 = L
    BY <1>2
  <2>2. at2[L - 1] = at[(L - 1) + 1]
    BY <1>3, <2>1
  <2> QED
    BY <2>1, <2>2
<1>9. OnTheLine(sigma, at2)'
  BY <1>2, <1>3, <1>4, <1>5, <1>6, <1>7, <1>8 DEF OnTheLine, Closed
<1> QED
  BY <1>9 DEF at2

\* In step, and with the write before it whole if the token is the first of its
\* own: the board takes the token for what it is, and nothing of it is left.
LEMMA TakesWhole ==
    ASSUME TypeInv, NEW sigma, NEW at, NEW n, WithBoard(sigma, at, n), Sent(sigma), BoardExecutes,
           at[1].idx = 1 => Whole(sigma, at[0])
    PROVE  LET r == at[1]
           IN  /\ WithBoard(sigma, [k \in Nat |-> at[k + 1]], r.of)'
               /\ OneChunk /\ ImageAt(at[0]) => ImageAt(r)'
<1>1. PICK q, r : q = at[0] /\ r = at[1]
  OBVIOUS
<1>2. line # <<>> /\ OnTheLine(sigma, at) /\ Clean(sigma, q) /\ TypeOK
  BY <1>1 DEF BoardExecutes, WithBoard, TypeInv, W2TypeOK
<1>3. /\ Reached(sigma, q) /\ Reached(sigma, r) /\ r.of > 0 /\ Follows(sigma, q, r)
      /\ Stands(sigma, r, line[1].tok)
      /\ q \in Position /\ r \in Position
  BY <1>1, <1>2, HeadOfLine
<1>4. q.exact /\ InStepAt(sigma, q) /\ (r.idx = 1 => Whole(sigma, q))
  BY <1>1, <1>2, <1>3, Before DEF Clean
<1>5. PICK tok : tok = line[1].tok
  OBVIOUS
<1>6. PICK v \in Values(tok), rest \in Rests(tok) :
         /\ Consume(tok, v)
         /\ rest = <<>> => /\ Len(line') = Len(line) - 1
                           /\ \A i \in 1..(Len(line) - 1) : line'[i] = line[i + 1]
  <2>1. \A t : <<t>> # <<>>
    OBVIOUS
  <2> QED
    BY <1>5, <2>1, BoardTakes
<1>7. erased' = (erased \/ (Erasing /\ EndsNumber(tok)))
  <2>1. erased' = (erased \/ (Erasing /\ EndsNumber(Head(line).tok)))
    BY DEF BoardExecutes
  <2>2. Head(line).tok = tok
    BY <1>5, BoardTakes
  <2> QED
    BY <2>1, <2>2, Zenon
<1>8. r.idx > 1 => /\ r.of = q.of /\ q.idx = r.idx - 1 /\ q.of > 0
                  /\ ~Whole(sigma, q)
  <2> SUFFICES ASSUME r.idx > 1
               PROVE  r.of = q.of /\ q.idx = r.idx - 1 /\ q.of > 0 /\ ~Whole(sigma, q)
    OBVIOUS
  <2>1. r.of = q.of /\ q.idx = r.idx - 1 /\ q.of > 0 /\ r.idx \in Nat
    BY <1>3, Before DEF Position
  <2>2. r.idx \in 1..Length(sigma[r.of]) /\ sigma[r.of] \in 1..ScriptLength
    BY <1>2, <1>3, CommandAt
  <2>3. Length(sigma[r.of]) \in Nat
    BY <2>2, ScriptShape
  <2> QED
    BY <2>1, <2>2, <2>3 DEF Whole
<1>9. digits = 0
  BY <1>4 DEF InStepAt, Prompt, Taking
<1> DEFINE at2 == [k \in Nat |-> at[k + 1]]
<1>12. rest = <<>> /\ Clean(sigma, r)' => WithBoard(sigma, at2, r.of)'
  <2>1. at2[0] = r
    BY <1>1
  <2>2. rest = <<>> => OnTheLine(sigma, at2)'
    BY <1>2, <1>6, LineAdvances
  <2> HIDE DEF at2
  <2> QED
    BY <2>1, <2>2 DEF WithBoard
<1>10. CASE r.exact
  <2>1. tok = Script(sigma[r.of])[r.idx]
    BY <1>3, <1>5, <1>10 DEF Stands
  <2>2. tok[1] \in {"num", "key"}
    <3>1. sigma[r.of] \in 1..ScriptLength /\ r.idx \in 1..Length(sigma[r.of])
      BY <1>2, <1>3, CommandAt
    <3> QED
      BY <2>1, <3>1, TokenKinds DEF key
  <2>3. rest = <<>>
    BY <1>9, <2>2, ExactTokens
  <2>4. Clean(sigma, r)'
    BY <1>2, <1>3, <1>4, <1>6, <1>7, <1>10, <2>1, ErasedStep
  <2>5. ASSUME OneChunk, ImageAt(q) PROVE ImageAt(r)'
    BY <1>2, <1>3, <1>4, <1>6, <1>7, <1>10, <2>1, <2>5, ImageStep
  <2> QED
    BY <1>1, <1>12, <2>3, <2>4, <2>5
<1>11. CASE ~r.exact
  <2>1. Piece(tok)
    BY <1>3, <1>5, <1>11 DEF Stands
  <2>2. r.of >= 3 /\ r.idx > 1
    BY <1>2, <1>3, <1>11, CommandAt
  <2>3. mode = "console" /\ cmd = "w"
    <3>1. ~(q.of <= 1) /\ ~Whole(sigma, q) /\ q.exact
      <4>1. r.of = q.of /\ ~Whole(sigma, q)
        BY <1>8, <2>2, Zenon
      <4>2. r.of \in Nat
        BY <1>3 DEF Position
      <4> QED
        BY <1>4, <2>2, <4>1, <4>2
    <3>2. Taking(Target(sigma[q.of]), Words(sigma[q.of]), q.idx - 1)
      BY <1>4, <3>1 DEF InStepAt
    <3> QED
      BY <3>2 DEF Taking
  <2>4. tok[1] = "part" /\ Width(tok) \in 1..DIGITS /\ ~AtLimit(tok)
    BY <1>9, <2>1, BootAssumption DEF Piece, Width, AtLimit
  <2>5. rest = <<>>
    BY <1>9, <2>4, BootAssumption DEF Rests
  <2>6. Absorb(tok)
    BY <1>6, <2>3, <2>4 DEF Consume, MenuConsole, MenuAgain, Select, EnterBridge, Ignore,
                            Elsewhere, AtPrompt, EndsNumber
  <2>7. Clean(sigma, r)'
    <3>1. ~(r.of <= 1) /\ ~Whole(sigma, r)
      BY <1>3, <1>11, <2>2 DEF Whole, Position
    <3>2. cmd' = "w"
      BY <2>3, <2>6 DEF Absorb
    <3> QED
      BY <1>11, <3>1, <3>2 DEF Clean, InStepAt
  <2>8. ImageAt(r)'
    BY <1>11 DEF ImageAt
  <2> QED
    BY <1>1, <1>12, <2>5, <2>7, <2>8
<1> QED
  BY <1>10, <1>11

LEMMA BoardKeepsInv ==
    ASSUME TypeInv, TypeInv', NEW sigma, NEW at, NEW n, InvAt(sigma, at, n), BoardExecutes,
           NEW m, m = line[1].of
    PROVE  /\ UploadInv'
           /\ InvAt(sigma, [k \in Nat |-> at[k + 1]], m)'
<1> DEFINE at2 == [k \in Nat |-> at[k + 1]]
<1>1. PICK q, r : q = at[0] /\ r = at[1]
  OBVIOUS
<1>2. Sent(sigma) /\ InOrder(n) /\ line # <<>> /\ TypeOK
  BY DEF InvAt, BoardExecutes, TypeInv, W2TypeOK
<1>3. Sent(sigma)' /\ InOrder(m)' /\ UNCHANGED faults
  <2>1. UNCHANGED <<stage, pos, written, faults>>
    BY DEF BoardExecutes, callerVars
  <2>2. Sent(sigma)'
    BY <1>2, <2>1 DEF Sent
  <2> QED
    BY <1>2, <2>1, <2>2, OrderAdvances
<1>4. ASSUME WithBoard(sigma, at, n)
      PROVE  /\ Reached(sigma, q) /\ Reached(sigma, r) /\ r.of > 0 /\ Follows(sigma, q, r)
             /\ r.idx = 1 /\ "short" \notin faults => Whole(sigma, q)
             /\ q \in Position /\ r \in Position /\ r.of = m /\ q.of = n
             /\ Clean(sigma, q)
  BY <1>1, <1>2, <1>4, HeadOfLine DEF WithBoard
<1>5. ASSUME WithBoard(sigma, at, n), r.idx = 1 => Whole(sigma, q)
      PROVE  /\ WithBoard(sigma, at2, m)'
             /\ OneChunk /\ ImageAt(at[0]) => ImageAt(at2[0])'
  <2>1. r.of = m
    BY <1>4, <1>5
  <2>2. at2[0] = r
    BY <1>1
  <2> HIDE DEF at2
  <2>3. WithBoard(sigma, at2, r.of)' /\ (OneChunk /\ ImageAt(at[0]) => ImageAt(r)')
    BY <1>1, <1>2, <1>5, TakesWhole DEF at2
  <2> QED
    BY <2>1, <2>2, <2>3
<1> HIDE DEF at2
<1>6. ASSUME AcksAt(n)
      PROVE  /\ AcksAt(m)'
             /\ Unanswered(n) => Unanswered(m)'
             /\ cmd = "w" /\ n < m => Unanswered(m)'
  BY <1>2, <1>6, AcksStep
<1>7. ASSUME WithBoard(sigma, at, n), r.idx = 1, ~Whole(sigma, q)
      PROVE  cmd = "w" /\ n < m
  <2>1. m = n + 1 /\ q.of > 0 /\ n \in Nat
    BY <1>4, <1>7, Before DEF Whole
  <2>2. q.of >= 3
    BY <1>2, <1>4, <1>7, <2>1, CommandAt
  <2>3. cmd = "w"
    <3>1. ~(q.of <= 1) /\ ~Whole(sigma, q) /\ InStepAt(sigma, q)
      BY <1>4, <1>7, <2>1, <2>2 DEF Clean
    <3>2. cmd = "w" \/ Taking(Target(sigma[q.of]), Words(sigma[q.of]), q.idx - 1)
      BY <3>1 DEF InStepAt
    <3> QED
      BY <3>2 DEF Taking
  <2> QED
    BY <2>1, <2>3
<1>10. /\ "short" \notin faults => WithBoard(sigma, at, n)
       /\ "short" \notin faults /\ OneChunk => ImageAt(at[0])
       /\ "stale" \notin faults => AcksAt(n)
       /\ "stale" \notin faults /\ OneChunk =>
             (WithBoard(sigma, at, n) /\ ImageAt(at[0])) \/ Unanswered(n)
  BY DEF InvAt
<1>11. "short" \notin faults => WithBoard(sigma, at2, m)' /\ (OneChunk => ImageAt(at2[0])')
  BY <1>4, <1>5, <1>10
<1>12. "stale" \notin faults => AcksAt(m)'
  BY <1>6, <1>10
<1>13. ASSUME "stale" \notin faults, OneChunk
       PROVE  (WithBoard(sigma, at2, m)' /\ ImageAt(at2[0])') \/ Unanswered(m)'
  <2>1. AcksAt(n)
    BY <1>10, <1>13
  <2>2. CASE Unanswered(n)
    BY <1>6, <2>1, <2>2
  <2>3. CASE WithBoard(sigma, at, n) /\ ImageAt(at[0]) /\ (r.idx = 1 => Whole(sigma, q))
    BY <1>5, <1>13, <2>3
  <2>4. CASE WithBoard(sigma, at, n) /\ r.idx = 1 /\ ~Whole(sigma, q)
    BY <1>6, <1>7, <2>1, <2>4
  <2> QED
    BY <1>10, <1>13, <2>2, <2>3, <2>4
<1>14. InvAt(sigma, at2, m)'
  BY <1>3, <1>11, <1>12, <1>13 DEF InvAt
<1> QED
  BY <1>14 DEF UploadInv, at2

LEMMA NextInv == TypeInv /\ TypeInv' /\ UploadInv /\ [W2Next]_w2Vars => UploadInv'
<1> SUFFICES ASSUME TypeInv, TypeInv', UploadInv, [W2Next]_w2Vars PROVE UploadInv'
  OBVIOUS
<1>1. PICK sigma, at, n : InvAt(sigma, at, n)
  BY DEF UploadInv
<1>2. Sent(sigma)
  BY <1>1 DEF InvAt
<1>3. ASSUME InvAt(sigma, at, n)' PROVE UploadInv'
  BY <1>3 DEF UploadInv
<1>4. CASE FlushFails \/ FinishUpload \/ SendFails
  <2>1. UNCHANGED <<line, written, bootVars, faults, erased, loopVars, rx>>
    BY <1>4 DEF FlushFails, FinishUpload, SendFails, WriteFails, vars, callerVars, ttyVars
  <2>2. Sent(sigma)'
    <3>1. CASE FlushFails \/ FinishUpload
      <4>1. UNCHANGED pos /\ stage' # "flush"
        BY <3>1 DEF FlushFails, FinishUpload
      <4> QED
        BY <1>2, <2>1, <4>1 DEF Sent
    <3>2. CASE SendFails
      <4>1. Len(Setup) = 5 /\ pos \in 0..ScriptLength /\ ScriptLength \in Nat
        BY ScriptLengthType DEF Setup, TypeInv, W2TypeOK
      <4>2. /\ stage' # "flush"
            /\ pos < ScriptLength
            /\ UNCHANGED pos \/ (pos >= 5 /\ pos' = pos + 1)
        BY <3>2, <4>1 DEF SendFails
      <4>3. (IF pos <= 5 THEN written = pos ELSE written \in 5..pos)
        BY <1>2 DEF Sent
      <4>4. (IF pos' <= 5 THEN written = pos' ELSE written \in 5..pos') /\ pos' <= ScriptLength
        BY <4>1, <4>2, <4>3
      <4> QED
        BY <1>2, <2>1, <4>2, <4>4 DEF Sent
    <3> QED
      BY <1>4, <3>1, <3>2
  <2>3. ~Closed
    BY <1>4 DEF FlushFails, FinishUpload, SendFails, Closed
  <2> QED
    BY <1>1, <1>3, <2>1, <2>2, <2>3, WaitKeepsInv
<1>5. CASE FlushFirst
  BY <1>1, <1>3, <1>5, FlushKeepsInv
<1>6. CASE Send
  BY <1>1, <1>6, SendKeepsInv
<1>7. CASE Waiting \/ DeadlineReached \/ WokenForNothing \/ UNCHANGED w2Vars
  <2>1. UNCHANGED <<line, written, bootVars, faults, erased, loopVars, rx, stage, pos>>
    <3>1. CASE Waiting
      BY <3>1 DEF Waiting, WaitStep, Arm, Lock, ReturnAcked, ReturnTimeout, Commit, Block,
                  scriptVars, ttyVars
    <3>2. CASE DeadlineReached \/ WokenForNothing
      BY <3>2 DEF DeadlineReached, WokenForNothing, DeadlinePasses, SpuriousWake,
                  scriptVars, ttyVars
    <3>3. CASE UNCHANGED w2Vars
      BY <3>3 DEF w2Vars, vars, callerVars, ttyVars, scriptVars
    <3> QED
      BY <1>7, <3>1, <3>2, <3>3
  <2>2. Sent(sigma)'
    BY <1>2, <2>1 DEF Sent
  <2>3. Closed => Closed'
    BY <2>1 DEF Closed
  <2> QED
    BY <1>1, <1>3, <2>1, <2>2, <2>3, WaitKeepsInv
<1>8. CASE Looping
  BY <1>1, <1>3, <1>8, LoopingKeepsInv
<1>9. CASE BoardExecutes
  <2>1. PICK m : m = line[1].of
    OBVIOUS
  <2> QED
    BY <1>1, <1>9, <2>1, BoardKeepsInv
<1>10. CASE CloseClient
  BY <1>1, <1>3, <1>10, CloseKeepsInv
<1> QED
  BY <1>4, <1>5, <1>6, <1>7, <1>8, <1>9, <1>10 DEF W2Next

LEMMA UploadInductive == W2Spec => [](TypeInv /\ UploadInv)
  BY W2InitTypes, W2NextTypes, InitInv, NextInv, PTL DEF W2Spec

-------------------------------------------------------------------------------
(* What follows from it. *)

\* Unless ::write cuts a command, no letter of the uploader ever reaches the
\* board inside a number, and no digit at its prompt or in its main menu, however
\* many waits time out and however many commands are lost whole.
THEOREM BoardStaysInStep == W2Spec => []("short" \notin faults => InStep)
<1>1. TypeInv /\ UploadInv => ("short" \notin faults => InStep)
  <2> SUFFICES ASSUME TypeInv, UploadInv, "short" \notin faults PROVE InStep
    OBVIOUS
  <2>1. PICK sigma, at, n : InvAt(sigma, at, n)
    BY DEF UploadInv
  <2>2. PICK q, r : q = at[0] /\ r = at[1]
    OBVIOUS
  <2>3. TypeOK
    BY DEF TypeInv, W2TypeOK
  <2>4. Sent(sigma) /\ InStepAt(sigma, q) /\ Reached(sigma, q) /\ q.of \in Nat
    <3>1. 0 \in 0..Len(line)
      BY LenProperties DEF TypeInv, W2TypeOK, TypeOK
    <3> QED
      BY <2>1, <2>2, <2>3, <3>1 DEF InvAt, WithBoard, OnTheLine, Clean, Reached, Position
  <2>5. mode \in {"menu", "console"} /\ (mode = "menu" => q.of <= 1)
           /\ (cmd # "none" => q.of > 1 /\ ~Whole(sigma, q))
    BY <2>4 DEF InStepAt, Prompt, Taking, Reached, Position
  <2>6. ASSUME line # <<>>
        PROVE  /\ Head(line).tok[1] = "key" /\ cmd # "none" => Head(line).tok = key("newline")
               /\ mode = "menu" => Head(line).tok \in {key("newline"), key("a")}
    <3>1. /\ Reached(sigma, r) /\ r.of > 0 /\ Follows(sigma, q, r)
          /\ Head(line).tok = Script(sigma[r.of])[r.idx]
          /\ r.idx = 1 => Whole(sigma, q)
      <4>1. OnTheLine(sigma, at)
        BY <2>1 DEF InvAt, WithBoard
      <4>2. /\ Reached(sigma, r) /\ r.of > 0 /\ Follows(sigma, q, r)
            /\ Stands(sigma, r, line[1].tok)
            /\ r.idx = 1 => Whole(sigma, q)
        BY <2>2, <2>6, <4>1, HeadOfLine
      <4>3. r.exact
        BY <4>2 DEF Reached, Position
      <4>4. Head(line) = line[1]
        BY <2>3, <2>6, HeadTailProperties DEF TypeOK
      <4> QED
        BY <4>2, <4>3, <4>4 DEF Stands
    <3>2. /\ r.of \in Nat /\ (r.idx = 1 \/ r.idx > 1)
          /\ r.idx = 1 => r.of = q.of + 1
          /\ r.idx > 1 => r.of = q.of
      BY <2>4, <3>1, Before
    <3>3. /\ sigma[r.of] \in 1..ScriptLength /\ r.idx \in 1..Length(sigma[r.of])
          /\ r.of <= 5 => sigma[r.of] = r.of
          /\ r.of <= 2 => r.idx = 1
          /\ r.of >= 3 => sigma[r.of] \in 3..ScriptLength
      BY <2>3, <2>4, <3>1, CommandAt
    <3>4. ASSUME Head(line).tok[1] = "key", cmd # "none" PROVE FALSE
      <4>1. r.idx > 1 /\ r.of > 1 /\ r.of >= 3
        BY <2>4, <2>5, <3>1, <3>2, <3>3, <3>4
      <4>2. Head(line).tok[1] = "num"
        BY <3>1, <3>3, <4>1, TokenKinds
      <4> QED
        BY <3>4, <4>2
    <3>5. ASSUME mode = "menu" PROVE Head(line).tok \in {key("newline"), key("a")}
      <4>1. r.of \in {1, 2}
        BY <2>4, <2>5, <3>1, <3>2, <3>5
      <4> QED
        BY <3>1, <3>3, <4>1, TokenKinds
    <3> QED
      BY <3>4, <3>5
  <2> QED
    BY <2>5, <2>6 DEF InStep
<1> QED
  BY <1>1, UploadInductive, PTL

\* Unless ::write cuts a command, nothing is stored in the program flash before
\* the erase command has been executed, whatever else ::write refuses.
THEOREM NothingStoredBeforeErase == W2Spec => []("short" \notin faults => EraseFirst)
<1>1. TypeInv /\ UploadInv => ("short" \notin faults => EraseFirst)
  <2> SUFFICES ASSUME TypeInv, UploadInv, "short" \notin faults PROVE EraseFirst
    OBVIOUS
  <2>1. PICK sigma, at, n : InvAt(sigma, at, n)
    BY DEF UploadInv
  <2>2. OnTheLine(sigma, at) /\ Clean(sigma, at[0])
    BY <2>1 DEF InvAt, WithBoard
  <2>3. 0 \in 0..Len(line)
    BY LenProperties DEF TypeInv, W2TypeOK, TypeOK
  <2>4. at[0].exact
    BY <2>2, <2>3 DEF OnTheLine, Reached, Position
  <2> QED
    BY <2>2, <2>4 DEF Clean, ErasedAt, EraseFirst
<1> QED
  BY <1>1, UploadInductive, PTL

\* An image of one chunk is in the flash once as many ACKs were read as the
\* script has commands that are ACKed, whatever ::write cut off or refused.
THEOREM AcksMeanStored ==
    ASSUME OneChunk
    PROVE  W2Spec => []AckedMeansStored
<1>1. TypeInv /\ UploadInv => AckedMeansStored
  <2> SUFFICES ASSUME TypeInv, UploadInv, acksRead = ScriptLength - 2, "stale" \notin faults
               PROVE  Flashed = Image
    BY DEF AckedMeansStored
  <2>1. PICK sigma, at, n : InvAt(sigma, at, n)
    BY DEF UploadInv
  <2>2. PICK q : q = at[0]
    OBVIOUS
  <2>3. TypeOK /\ Sent(sigma) /\ n \in Nat /\ n <= written /\ written \in Nat
    BY <2>1 DEF InvAt, InOrder, TypeInv, W2TypeOK, TypeOK
  <2>4. Image \in Seq(Nat) /\ Len(Image) \in Nat /\ DOMAIN Image = 1..Len(Image)
           /\ Image = [i \in 1..Len(Image) |-> Image[i]]
    BY UploadAssumption, LenProperties
  <2>5. /\ AcksAt(n)
        /\ (WithBoard(sigma, at, n) /\ ImageAt(q)) \/ Unanswered(n)
    BY <2>1, <2>2 DEF InvAt
  <2>6. /\ Chunks \in Nat /\ ScriptLength = 5 + Chunks /\ acksRead = 3 + Chunks
        /\ lastAck \in Nat /\ acksRead \in Nat
    BY <2>3, ScriptLengthType DEF TypeOK
  <2>7. written <= ScriptLength
    <3>1. pos \in 0..ScriptLength
      BY DEF TypeInv, W2TypeOK
    <3> QED
      BY <2>3, <2>6, <3>1 DEF Sent
  <2>8. lastAck = ScriptLength /\ n = ScriptLength /\ cmd = "none"
    BY <2>3, <2>5, <2>6, <2>7 DEF AcksAt
  <2>9. ~Unanswered(n)
    BY <2>3, <2>6, <2>8 DEF Unanswered
  <2>10. /\ Clean(sigma, q) /\ ImageAt(q) /\ Reached(sigma, q) /\ q.of = ScriptLength
         /\ q.of \in Nat /\ q.idx \in Nat
    <3>1. WithBoard(sigma, at, n) /\ ImageAt(q)
      BY <2>5, <2>9
    <3>2. 0 \in 0..Len(line)
      BY LenProperties DEF TypeInv, W2TypeOK, TypeOK
    <3> QED
      BY <2>2, <2>8, <3>1, <3>2 DEF WithBoard, OnTheLine, Reached, Position
  <2>14. /\ ScriptLength <= 6
         /\ q.of > 5 => q.of = 6 /\ sigma[q.of] = 6 /\ Chunks = 1 /\ 6 \in 3..ScriptLength
    BY <2>3, <2>10, OneChunkScript
  <2>11. CASE Chunks = 0
    <3>1. Len(Image) = 0
      <4> SUFFICES ASSUME Len(Image) >= 1 PROVE FALSE
        BY <2>4
      <4>1. PICK len, w : len = Len(Image) /\ w = ChunkWords
        OBVIOUS
      <4>2. len \in Nat /\ len >= 1 /\ w \in Nat \ {0} /\ (len + w - 1) \div w = 0
        BY <2>4, <2>11, <4>1, UploadAssumption DEF Chunks
      <4>3. (len + w - 1) \div w >= 1
        BY <4>2
      <4> QED
        BY <4>2, <4>3
    <3> QED
      BY <2>4, <3>1 DEF Flashed
  <2>12. CASE Chunks = 1
    <3>1. q.of = 6 /\ sigma[q.of] = 6 /\ 6 \in 3..ScriptLength
      BY <2>6, <2>10, <2>12, <2>14
    <3>2. Whole(sigma, q) /\ q.exact
      BY <2>8, <2>10, <3>1 DEF Clean, InStepAt, Taking, Whole
    <3>3. q.idx = 3 + Len(Image)
      <4>1. 1 \in 1..Chunks
        BY <2>12
      <4>2. Len(Chunk(1)) = Len(Image)
        BY <4>1, ChunkShape
      <4>3. Words(6) = Chunk(1)
        BY DEF Words
      <4> QED
        BY <3>1, <3>2, <4>2, <4>3 DEF Whole, Length
    <3>4. erased
      BY <2>10, <3>1, <3>2 DEF Clean, ErasedAt
    <3>5. ASSUME NEW i \in 1..Len(Image) PROVE mem[Cell(i)] = Image[i]
      <4>1. q.of > 5 /\ i + 3 <= q.idx
        BY <2>4, <3>1, <3>3
      <4> QED
        BY <2>10, <3>2, <3>4, <4>1 DEF ImageAt
    <3> QED
      BY <2>4, <3>5 DEF Flashed
  <2>13. Chunks = 0 \/ Chunks = 1
    BY <2>6, <2>14
  <2> QED
    BY <2>11, <2>12, <2>13
<1> QED
  BY <1>1, UploadInductive, PTL

-------------------------------------------------------------------------------
(* The refinement of ImageTransfer, for an image of one chunk.                *)

LEMMA CellsUnchanged ==
    ASSUME UNCHANGED <<faults, erased>>, WritesWhole => UNCHANGED Flashed
    PROVE  UNCHANGED Transfer!vars
<1>1. UNCHANGED WritesWhole
  BY DEF WritesWhole
<1>2. UNCHANGED (WritesWhole /\ erased)
  BY <1>1
<1>3. UNCHANGED (IF WritesWhole THEN Flashed ELSE Image)
  BY <1>1
<1> QED
  BY <1>2, <1>3 DEF Transfer!vars

LEMMA MappedInit == W2Init => Transfer!Init
<1> SUFFICES ASSUME W2Init PROVE Transfer!Init
  OBVIOUS
<1>1. Image \in [1..Len(Image) -> Nat]
  BY UploadAssumption, LenProperties
<1>2. Flashed \in [1..Len(Image) -> Nat]
  BY UploadAssumption DEF Flashed, W2Init, BootInit
<1>3. (WritesWhole /\ erased) = FALSE
  BY DEF W2Init
<1> QED
  BY <1>1, <1>2, <1>3 DEF Transfer!Init

\* What the board's step does to the cells of the image.
LEMMA BoardImplements ==
    ASSUME OneChunk, TypeInv, TypeInv', UploadInv, BoardExecutes, WritesWhole
    PROVE  \/ UNCHANGED <<Flashed, erased>>
           \/ ~erased /\ erased' /\ Flashed' = [i \in 1..Len(Image) |-> Blank]
           \/ /\ erased /\ erased'
              /\ \E i \in 1..Len(Image) :
                    /\ \A j \in 1..Len(Image) : Flashed[j] = IF j < i THEN Image[j] ELSE Blank
                    /\ Flashed' = [Flashed EXCEPT ![i] = Image[i]]
<1>1. PICK sigma, at, n : InvAt(sigma, at, n)
  BY DEF UploadInv
<1>2. PICK q, r : q = at[0] /\ r = at[1]
  OBVIOUS
<1>3. PICK at2, m : at2 = [k \in Nat |-> at[k + 1]] /\ m = line[1].of
  OBVIOUS
<1>4. /\ "short" \notin faults /\ UNCHANGED faults /\ TypeOK /\ line # <<>>
      /\ OnTheLine(sigma, at) /\ Clean(sigma, q) /\ ImageAt(q)
  BY <1>1, <1>2 DEF WritesWhole, BoardExecutes, TypeInv, W2TypeOK, InvAt, WithBoard
<1>5. at2[0] = r
  BY <1>2, <1>3
<1>6. InvAt(sigma, at2, m)'
  BY <1>1, <1>3, BoardKeepsInv
<1>8. /\ Reached(sigma, q) /\ Reached(sigma, r) /\ r.of > 0 /\ Follows(sigma, q, r)
      /\ r.idx = 1 => Whole(sigma, q)
  BY <1>2, <1>4, HeadOfLine
<1>7. Sent(sigma) /\ ErasedAt(q) /\ ImageAt(q) /\ ErasedAt(r)' /\ ImageAt(r)'
         /\ q.exact /\ r.exact
  <2>1. q.exact /\ r.exact
    BY <1>4, <1>8 DEF Reached, Position
  <2>2. Sent(sigma) /\ ErasedAt(q) /\ ImageAt(q)
    BY <1>1, <1>4, <2>1 DEF InvAt, Clean
  <2>3. ErasedAt(r)' /\ ImageAt(r)'
    BY <1>4, <1>5, <1>6, <2>1 DEF InvAt, WithBoard, Clean
  <2> QED
    BY <2>1, <2>2, <2>3
<1>9. /\ r.of \in Nat /\ q.of \in Nat /\ r.idx \in Nat /\ q.idx \in Nat /\ q.of <= r.of
      /\ r.idx = 1 => r.of = q.of + 1
      /\ r.idx > 1 => r.of = q.of /\ q.idx = r.idx - 1
      /\ r.idx = 1 \/ r.idx > 1
  BY <1>8, Before DEF Reached, Position
<1>10. r.of > 5 => erased
  <2>1. r.of > 5 => q.of > 5 \/ (q.of = 5 /\ Whole(sigma, q))
    BY <1>8, <1>9
  <2>2. r.of > 5 => q.of > 5 \/ (q.of = 5 /\ q.idx = 4)
    BY <1>4, <1>7, <1>8, <2>1, LastPosition
  <2> QED
    BY <1>7, <2>2 DEF ErasedAt
<1>11. erased => erased'
  BY Zenon DEF BoardExecutes
<1>12. Len(Image) \in Nat /\ \A i \in 1..Len(Image) : Cell(i) \in Flash
  BY UploadAssumption, LenProperties
<1>13. CASE ~erased /\ ~erased'
  <2>1. \A i \in 1..Len(Image) : mem[Cell(i)] = 0 /\ mem'[Cell(i)] = 0
    BY <1>7, <1>12, <1>13 DEF ErasedAt
  <2>2. Flashed' = Flashed
    BY <2>1 DEF Flashed
  <2>3. erased' = erased
    <3>1. erased \in BOOLEAN /\ erased' \in BOOLEAN
      BY DEF TypeInv, W2TypeOK
    <3> QED
      BY <1>13, <3>1
  <2> QED
    BY <2>2, <2>3
<1>14. CASE ~erased /\ erased'
  <2>1. ~(r.of > 5)
    BY <1>10, <1>14
  <2>2. \A i \in 1..Len(Image) : mem'[Cell(i)] = Blank
    BY <1>7, <1>14, <2>1 DEF ImageAt
  <2> QED
    BY <1>14, <2>2 DEF Flashed
<1>15. CASE erased /\ erased'
  <2>1. /\ \A i \in 1..Len(Image) :
              mem[Cell(i)] = IF q.of > 5 /\ i + 3 <= q.idx THEN Image[i] ELSE Blank
        /\ \A i \in 1..Len(Image) :
              mem'[Cell(i)] = IF r.of > 5 /\ i + 3 <= r.idx THEN Image[i] ELSE Blank
    BY <1>7, <1>15 DEF ImageAt
  <2>2. ASSUME UNCHANGED Flashed PROVE UNCHANGED <<Flashed, erased>>
    <3>1. erased \in BOOLEAN /\ erased' \in BOOLEAN
      BY DEF TypeInv, W2TypeOK
    <3> QED
      BY <1>15, <2>2, <3>1
  <2>3. CASE r.of <= 5 \/ r.idx <= 3
    <3>1. ASSUME NEW i \in 1..Len(Image) PROVE mem'[Cell(i)] = mem[Cell(i)]
      <4>1. ~(r.of > 5 /\ i + 3 <= r.idx)
        BY <1>9, <1>12, <2>3
      <4>2. ~(q.of > 5 /\ i + 3 <= q.idx)
        <5>1. CASE r.idx = 1
          <6>1. r.of = q.of + 1
            BY <1>9, <5>1
          <6>2. q.of > 5 => FALSE
            BY <1>4, <1>7, <1>8, <1>9, <6>1, OneChunkScript
          <6> QED
            BY <6>2
        <5>2. CASE r.idx > 1
          BY <1>9, <1>12, <2>3, <5>2
        <5> QED
          BY <1>9, <5>1, <5>2
      <4> QED
        BY <2>1, <4>1, <4>2
    <3>2. UNCHANGED Flashed
      BY <3>1 DEF Flashed
    <3> QED
      BY <2>2, <3>2
  <2>4. CASE r.of > 5 /\ r.idx > 3
    <3>1. q.of = r.of /\ q.idx = r.idx - 1
      BY <1>9, <2>4
    <3>2. PICK i : i = r.idx - 3
      OBVIOUS
    <3>3. i \in 1..Len(Image)
      <4>1. r.of = 6 /\ sigma[r.of] = 6 /\ Chunks = 1
        BY <1>7, <1>8, <2>4, OneChunkScript
      <4>2. r.idx \in 1..Length(6)
        BY <1>4, <1>7, <1>8, <4>1, CommandAt
      <4>3. Len(Chunk(1)) = Len(Image) /\ Words(6) = Chunk(1)
        BY <4>1, ChunkShape DEF Words
      <4> QED
        BY <1>9, <1>12, <2>4, <3>2, <4>2, <4>3 DEF Length
    <3>4. ASSUME NEW j \in 1..Len(Image)
          PROVE  /\ Flashed[j] = IF j < i THEN Image[j] ELSE Blank
                 /\ Flashed'[j] = IF j = i THEN Image[i] ELSE Flashed[j]
      <4>1. Flashed[j] = mem[Cell(j)] /\ Flashed'[j] = mem'[Cell(j)]
        BY DEF Flashed
      <4>2. mem[Cell(j)] = IF j < i THEN Image[j] ELSE Blank
        BY <1>9, <2>1, <2>4, <3>1, <3>2
      <4>3. mem'[Cell(j)] = IF j <= i THEN Image[j] ELSE Blank
        BY <1>9, <2>1, <2>4, <3>2
      <4> QED
        BY <1>12, <3>3, <4>1, <4>2, <4>3
    <3>5. Flashed' = [Flashed EXCEPT ![i] = Image[i]]
      <4>1. DOMAIN Flashed = 1..Len(Image) /\ Flashed = [j \in 1..Len(Image) |-> Flashed[j]]
               /\ Flashed' = [j \in 1..Len(Image) |-> Flashed'[j]]
        BY DEF Flashed
      <4> QED
        BY <3>3, <3>4, <4>1
    <3> QED
      BY <1>15, <3>3, <3>4, <3>5
  <2> QED
    BY <1>9, <2>3, <2>4
<1> QED
  BY <1>11, <1>13, <1>14, <1>15

LEMMA StepImplements ==
    ASSUME OneChunk, TypeInv, TypeInv', UploadInv, [W2Next]_w2Vars
    PROVE  [Transfer!Next]_Transfer!vars
<1>1. ASSUME UNCHANGED <<faults, erased, bootVars>> PROVE UNCHANGED Transfer!vars
  <2>1. UNCHANGED Flashed
    BY <1>1 DEF Flashed, bootVars
  <2> QED
    BY <1>1, <2>1, CellsUnchanged
<1>2. CASE FlushFails \/ FlushFirst \/ Send \/ SendFails \/ FinishUpload \/ CloseClient
  BY <1>1, <1>2 DEF FlushFails, FlushFirst, Send, SendFails, FinishUpload, CloseClient
<1>3. CASE Waiting \/ DeadlineReached \/ WokenForNothing \/ Looping \/ UNCHANGED w2Vars
  BY <1>1, <1>3 DEF Waiting, DeadlineReached, WokenForNothing, Looping, scriptVars, w2Vars
<1>4. CASE BoardExecutes /\ ~WritesWhole
  <2>1. UNCHANGED faults
    BY <1>4 DEF BoardExecutes
  <2>2. ~WritesWhole'
    BY <1>4, <2>1 DEF WritesWhole
  <2>3. /\ (IF WritesWhole THEN Flashed ELSE Image) = Image
        /\ (IF WritesWhole THEN Flashed ELSE Image)' = Image
    BY <1>4, <2>2
  <2>4. (WritesWhole /\ erased) = FALSE /\ (WritesWhole /\ erased)' = FALSE
    BY <1>4, <2>2
  <2> QED
    BY <2>3, <2>4 DEF Transfer!vars
<1>5. CASE BoardExecutes /\ WritesWhole
  <2>1. UNCHANGED faults /\ WritesWhole'
    BY <1>5 DEF BoardExecutes, WritesWhole
  <2>2. erased \in BOOLEAN /\ erased' \in BOOLEAN
    BY DEF TypeInv, W2TypeOK
  <2>3. CASE UNCHANGED <<Flashed, erased>>
    BY <2>1, <2>3, CellsUnchanged
  <2> DEFINE cells == IF WritesWhole THEN Flashed ELSE Image
             done  == WritesWhole /\ erased
  <2>4. cells = Flashed /\ cells' = Flashed' /\ done = erased /\ done' = erased'
    BY <1>5, <2>1, <2>2
  <2>5. CASE ~erased /\ erased' /\ Flashed' = [i \in 1..Len(Image) |-> Blank]
    <3>1. ~done /\ cells' = [i \in 1..Len(Image) |-> Blank] /\ done' = TRUE
      BY <2>2, <2>4, <2>5
    <3>2. Transfer!Erase
      BY <3>1 DEF Transfer!Erase
    <3> QED
      BY <3>2 DEF Transfer!Next
  <2>6. CASE /\ erased /\ erased'
             /\ \E i \in 1..Len(Image) :
                   /\ \A j \in 1..Len(Image) : Flashed[j] = IF j < i THEN Image[j] ELSE Blank
                   /\ Flashed' = [Flashed EXCEPT ![i] = Image[i]]
    <3>1. done /\ done' = done
      BY <2>2, <2>4, <2>6
    <3>2. \E i \in 1..Len(Image) :
             /\ \A j \in 1..Len(Image) : cells[j] = IF j < i THEN Image[j] ELSE Blank
             /\ cells' = [cells EXCEPT ![i] = Image[i]]
      BY <2>4, <2>6
    <3>3. Transfer!StoreNext
      BY <3>1, <3>2 DEF Transfer!StoreNext
    <3> QED
      BY <3>3 DEF Transfer!Next
  <2> QED
    BY <1>5, <2>3, <2>5, <2>6, BoardImplements
<1> QED
  BY <1>2, <1>3, <1>4, <1>5 DEF W2Next

\* When ::write takes commands whole, the upload of an image of one chunk is a
\* transfer: one erase that counts, then word after word, each in its place.
THEOREM UploadTransfersImage ==
    ASSUME OneChunk
    PROVE  W2Spec => TransfersImage
<1>1. TypeInv /\ TypeInv' /\ UploadInv /\ [W2Next]_w2Vars => [Transfer!Next]_Transfer!vars
  BY StepImplements
<1> QED
  BY <1>1, MappedInit, UploadInductive, PTL DEF W2Spec, TransfersImage, Transfer!Safety

===============================================================================
