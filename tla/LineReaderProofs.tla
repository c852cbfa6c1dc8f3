-------------------------- MODULE LineReaderProofs --------------------------
(***************************************************************************)
(* The line reader for any number of calls of start() and stop(), any size  *)
(* of the buffer and any number of threads left over.  The operations that  *)
(* the io_service knows are at most one for each call of start(): a handler *)
(* gives up the operation it came from before it starts the next.  And in a *)
(* session that began without one, the text delivered, the line begun, the  *)
(* buffer and the port together are what was received, in order.            *)
(***************************************************************************)
EXTENDS LineReader, FiniteSetTheorems, SequenceTheorems, WellFoundedInduction, TLAPS

\* start() has counted itself and not started its read yet.
Owing == user \in {"open", "thread", "read"}

\* The operations, with the one that start() owes.
Budget == IF Owing THEN Known + 1 <= starts ELSE Known <= starts

LineTypes ==
    /\ user \in {"idle", "open", "thread", "read", "close", "stop", "reset"}
    /\ port \in {"null", "made", "open"}
    /\ mutex \in {Nobody, Caller} \cup Threads
    /\ reads \in Nat
    /\ starts \in 0..MaxStarts
    /\ done \in Seq(0..ReadSize)
    /\ tty \in Seq(Chars \cup {EOL})
    /\ at \in [Threads -> {"none", "enter", "loop", "lock", "handle", "gone"}]

\* The inductive invariant: OneReadPerStart alone is not inductive, because a
\* call of start() under way is about to add an operation.
LineInv == LineTypes /\ Budget

-------------------------------------------------------------------------------
(* Counting operations. *)

LEMMA BusyIsFinite ==
    /\ IsFiniteSet(Busy) /\ Cardinality(Busy) \in Nat
    /\ IsFiniteSet(Busy') /\ Cardinality(Busy') \in Nat
<1>1. IsFiniteSet(Threads)
  BY LineAssumption, FS_Interval DEF Threads
<1>2. Busy \in SUBSET Threads /\ Busy' \in SUBSET Threads
  BY DEF Busy
<1> QED
  BY <1>1, <1>2, FS_Subset, FS_CardinalityType

LEMMA KnownIsNat ==
    ASSUME LineTypes
    PROVE  Known \in Nat /\ Len(done) \in Nat
  BY BusyIsFinite, LenProperties DEF LineTypes, Known

\* The threads with a handler in hand, after one thread has moved.
LEMMA MoveOfThread ==
    ASSUME LineTypes, NEW t \in Threads,
           NEW place \in {"none", "enter", "loop", "lock", "handle", "gone"},
           at' = [at EXCEPT ![t] = place]
    PROVE  /\ at' \in [Threads -> {"none", "enter", "loop", "lock", "handle", "gone"}]
           /\ Busy' = IF place \in {"lock", "handle"} THEN Busy \cup {t} ELSE Busy \ {t}
           /\ t \in Busy <=> at[t] \in {"lock", "handle"}
<1>1. \A u \in Threads : at'[u] = IF u = t THEN place ELSE at[u]
  BY DEF LineTypes
<1> QED
  BY <1>1 DEF LineTypes, Busy

-------------------------------------------------------------------------------
(* The invariant is inductive. *)

LEMMA InitLine == LineInit => LineInv
<1> SUFFICES ASSUME LineInit PROVE LineInv
  OBVIOUS
<1>1. done \in Seq(0..ReadSize) /\ tty \in Seq(Chars \cup {EOL}) /\ Len(done) = 0
  BY EmptySeq DEF LineInit
<1>2. LineTypes
  BY <1>1, LineAssumption DEF LineInit, LineTypes, Nobody
<1>3. Busy = {}
  BY DEF LineInit, Busy
<1>4. Known = 0
  BY <1>1, <1>3, FS_EmptySet DEF LineInit, Known
<1> QED
  BY <1>2, <1>4 DEF LineInit, LineInv, Budget, Owing

LEMMA StartLine ==
    ASSUME LineInv, StartNew \/ StartOpen \/ StartThread \/ StartRead
    PROVE  LineInv'
<1> USE DEF LineInv
<1>1. Known \in Nat /\ Len(done) \in Nat
  BY KnownIsNat
<1>2. CASE StartNew
  <2>1. UNCHANGED <<reads, done, at, mutex, tty>>
    BY <1>2 DEF StartNew, asioVars, threadVars, deviceVars
  <2>2. user = "idle" /\ user' = "open" /\ port' = "made" /\ starts < MaxStarts
        /\ starts' = starts + 1
    BY <1>2 DEF StartNew
  <2>3. Known' = Known
    BY <2>1 DEF Known, Busy
  <2>4. LineTypes'
    BY <2>1, <2>2, LineAssumption DEF LineTypes
  <2> QED
    BY <1>1, <2>2, <2>3, <2>4 DEF LineTypes, Budget, Owing
<1>3. CASE StartOpen
  <2>1. UNCHANGED <<reads, done, at, mutex, tty, starts>>
    BY <1>3 DEF StartOpen, asioVars, threadVars
  <2>2. user = "open" /\ user' \in {"thread", "idle"} /\ port' \in {"made", "open"}
    BY <1>3 DEF StartOpen
  <2>3. Known' = Known
    BY <2>1 DEF Known, Busy
  <2>4. LineTypes'
    BY <2>1, <2>2 DEF LineTypes
  <2> QED
    BY <1>1, <2>1, <2>2, <2>3, <2>4 DEF LineTypes, Budget, Owing
<1>4. CASE StartThread
  <2>1. UNCHANGED <<reads, done, mutex, tty, starts, port>>
    BY <1>4 DEF StartThread, asioVars, deviceVars
  <2>2. user = "thread" /\ user' = "read" /\ at' = [at EXCEPT ![starts] = "enter"]
    BY <1>4 DEF StartThread
  <2>3. starts \in Threads
    BY <1>1, <2>2, LineAssumption DEF LineTypes, Budget, Owing, Threads
  <2>4. Busy' = Busy \ {starts} /\ LineTypes'
    BY <2>1, <2>2, <2>3, MoveOfThread DEF LineTypes
  <2>5. Cardinality(Busy') \in {Cardinality(Busy), Cardinality(Busy) - 1}
    BY <2>4, BusyIsFinite, FS_RemoveElement
  <2>6. Known + 1 <= starts /\ starts \in Nat
    BY <2>2 DEF LineTypes, Budget, Owing
  <2>7. Known' + 1 <= starts'
    BY <1>1, <2>1, <2>5, <2>6, BusyIsFinite DEF Known, LineTypes
  <2> QED
    BY <2>2, <2>4, <2>7 DEF Budget, Owing
<1>5. CASE StartRead
  <2>1. UNCHANGED <<done, at, mutex, tty, starts, port>>
    BY <1>5 DEF StartRead, threadVars, deviceVars
  <2>2. user = "read" /\ user' = "idle" /\ reads' \in {reads, reads + 1}
    BY <1>5 DEF StartRead, AsyncRead
  <2>3. Busy' = Busy
    BY <2>1 DEF Busy
  <2>4. Known' = reads' + Len(done) + Cardinality(Busy)
    BY <2>1, <2>3 DEF Known
  <2>5. Known' \in {Known, Known + 1}
    <3>1. Known = reads + Len(done) + Cardinality(Busy)
          /\ reads \in Nat /\ Len(done) \in Nat /\ Cardinality(Busy) \in Nat
      BY <1>1, BusyIsFinite DEF Known, LineTypes
    <3> QED
      BY <2>2, <2>4, <3>1
  <2>6. LineTypes'
    BY <2>1, <2>2 DEF LineTypes
  <2> QED
    BY <1>1, <2>1, <2>2, <2>5, <2>6 DEF LineTypes, Budget, Owing
<1> QED
  BY <1>2, <1>3, <1>4, <1>5

LEMMA StopLine ==
    ASSUME LineInv, StopLock \/ StopPort \/ StopThrows \/ StopService \/ ResetService
    PROVE  LineInv'
<1> USE DEF LineInv
<1>1. Known \in Nat /\ Len(done) \in Nat
  BY KnownIsNat
<1>2. /\ UNCHANGED <<starts, at>>
      /\ user \notin {"open", "thread", "read"}
      /\ user' \in {"idle", "close", "stop", "reset"}
      /\ mutex' \in {Nobody, Caller, mutex}
      /\ port' \in {"null", port}
  BY DEF StopLock, StopPort, StopThrows, StopService, ResetService, threadVars
<1>3. Busy' = Busy
  BY <1>2 DEF Busy
<1>4. CASE StopPort
  <2> DEFINE aborted == [i \in 1..reads |-> 0]
  <2>1. done' = done \o aborted /\ reads' = 0 /\ tty' = <<>>
    BY <1>4 DEF StopPort
  <2>2. 0 \in 0..ReadSize
    BY LineAssumption
  <2>3. aborted \in Seq(0..ReadSize) /\ Len(aborted) = reads
    BY <2>2, IsASeq, LenProperties DEF LineTypes
  <2> HIDE DEF aborted
  <2>4. done' \in Seq(0..ReadSize) /\ Len(done') = Len(done) + reads
    BY <2>1, <2>3, ConcatProperties DEF LineTypes
  <2>5. tty' \in Seq(Chars \cup {EOL})
    BY <2>1, EmptySeq
  <2>6. LineTypes'
    BY <1>2, <2>1, <2>4, <2>5 DEF LineTypes
  <2>7. Known' = Known
    BY <1>1, <1>3, <2>1, <2>4, BusyIsFinite DEF Known, LineTypes
  <2> QED
    BY <1>2, <2>6, <2>7 DEF Budget, Owing
<1>5. CASE ~StopPort
  <2>1. UNCHANGED <<reads, done, tty>>
    BY <1>5 DEF StopLock, StopThrows, StopService, ResetService, asioVars, deviceVars
  <2>2. LineTypes'
    BY <1>2, <2>1 DEF LineTypes
  <2>3. Known' = Known
    BY <1>3, <2>1 DEF Known
  <2> QED
    BY <1>2, <2>2, <2>3 DEF Budget, Owing
<1> QED
  BY <1>4, <1>5

LEMMA ThreadLine ==
    ASSUME LineInv, NEW t \in Threads, ThreadStep(t)
    PROVE  LineInv'
<1> USE DEF LineInv
<1>1. Known \in Nat /\ Len(done) \in Nat
  BY KnownIsNat
<1>2. UNCHANGED <<user, port, starts, tty>>
  BY DEF ThreadStep, RunEnters, RunReturns, RunTakes, Lock, Handle, callVars, deviceVars
<1>3. CASE RunEnters(t) \/ RunReturns(t)
  <2>1. UNCHANGED <<mutex, reads, done>> /\ at[t] \in {"enter", "loop"}
    BY <1>3 DEF RunEnters, RunReturns, asioVars
  <2>2. PICK place \in {"gone", "loop"} : at' = [at EXCEPT ![t] = place]
    BY <1>3 DEF RunEnters, RunReturns
  <2>3. Busy' = Busy \ {t} /\ t \notin Busy
    BY <2>1, <2>2, MoveOfThread
  <2>4. Busy' = Busy
    BY <2>3
  <2>5. LineTypes'
    BY <1>2, <2>1, <2>2, MoveOfThread DEF LineTypes
  <2>6. Known' = Known
    BY <2>1, <2>4 DEF Known
  <2> QED
    BY <1>2, <2>5, <2>6 DEF Budget, Owing
<1>4. CASE RunTakes(t)
  <2>1. UNCHANGED <<mutex, reads>> /\ at[t] = "loop" /\ done # <<>> /\ done' = Tail(done)
        /\ at' = [at EXCEPT ![t] = "lock"]
    BY <1>4 DEF RunTakes
  <2>2. Busy' = Busy \cup {t} /\ t \notin Busy
    BY <2>1, MoveOfThread
  <2>3. done' \in Seq(0..ReadSize) /\ Len(done') = Len(done) - 1
    BY <2>1, HeadTailProperties DEF LineTypes
  <2>4. LineTypes'
    BY <1>2, <2>1, <2>3, MoveOfThread DEF LineTypes
  <2>5. Cardinality(Busy') = Cardinality(Busy) + 1
    BY <2>2, BusyIsFinite, FS_AddElement
  <2>6. Known' = Known
    BY <1>1, <2>1, <2>3, <2>5, BusyIsFinite DEF Known, LineTypes
  <2> QED
    BY <1>2, <2>4, <2>6 DEF Budget, Owing
<1>5. CASE Lock(t)
  <2>1. UNCHANGED <<reads, done>> /\ at[t] = "lock" /\ mutex' = t
        /\ at' = [at EXCEPT ![t] = "handle"]
    BY <1>5 DEF Lock, asioVars
  <2>2. Busy' = Busy
    <3>1. Busy' = Busy \cup {t} /\ t \in Busy
      BY <2>1, MoveOfThread
    <3> QED
      BY <3>1
  <2>3. LineTypes'
    BY <1>2, <2>1, MoveOfThread DEF LineTypes
  <2>4. Known' = Known
    BY <2>1, <2>2 DEF Known
  <2> QED
    BY <1>2, <2>3, <2>4 DEF Budget, Owing
<1>6. CASE Handle(t)
  <2>1. UNCHANGED done /\ at[t] = "handle" /\ mutex' = Nobody
        /\ at' = [at EXCEPT ![t] = "loop"] /\ reads' \in {reads, reads + 1}
    BY <1>6 DEF Handle, ReadAgain, AsyncRead
  <2>2. Busy' = Busy \ {t} /\ t \in Busy
    BY <2>1, MoveOfThread
  <2>3. LineTypes'
    BY <1>2, <2>1, MoveOfThread DEF LineTypes
  <2>4. Cardinality(Busy') = Cardinality(Busy) - 1
    BY <2>2, BusyIsFinite, FS_RemoveElement
  <2>5. Owing' <=> Owing
    BY <1>2 DEF Owing
  <2>6. CASE Owing
    <3>1. Known + 1 <= starts /\ starts \in Nat
      BY <2>6 DEF LineTypes, Budget
    <3>2. /\ Known = reads + Len(done) + Cardinality(Busy)
          /\ Known' = reads' + Len(done) + Cardinality(Busy')
          /\ reads \in Nat /\ Len(done) \in Nat /\ Cardinality(Busy) \in Nat /\ starts' = starts
      BY <1>1, <1>2, <2>1, BusyIsFinite DEF Known, LineTypes
    <3>3. Known' + 1 <= starts'
      BY <2>1, <2>4, <3>1, <3>2
    <3> QED
      BY <2>3, <2>5, <2>6, <3>3 DEF Budget
  <2>7. CASE ~Owing
    <3>1. Known <= starts /\ starts \in Nat
      BY <2>7 DEF LineTypes, Budget
    <3>2. Known' <= starts'
      BY <1>1, <1>2, <2>1, <2>4, <3>1, BusyIsFinite DEF Known, LineTypes
    <3> QED
      BY <2>3, <2>5, <2>7, <3>2 DEF Budget
  <2> QED
    BY <2>6, <2>7
<1> QED
  BY <1>3, <1>4, <1>5, <1>6 DEF ThreadStep

LEMMA PortLine ==
    ASSUME LineInv, (\E c \in Chars \cup {EOL} : Receive(c)) \/ ReadCompletes
    PROVE  LineInv'
<1> USE DEF LineInv
<1>1. Known \in Nat /\ Len(done) \in Nat
  BY KnownIsNat
<1>2. UNCHANGED <<user, port, starts, mutex, at>>
  BY DEF Receive, ReadCompletes, callVars, threadVars
<1>3. Busy' = Busy
  BY <1>2 DEF Busy
<1>4. ASSUME NEW c \in Chars \cup {EOL}, Receive(c)
      PROVE  LineInv'
  <2>1. UNCHANGED <<reads, done>> /\ tty' = Append(tty, c)
    BY <1>4 DEF Receive, asioVars
  <2>2. tty' \in Seq(Chars \cup {EOL})
    BY <1>4, <2>1, AppendProperties DEF LineTypes
  <2>3. LineTypes'
    BY <1>2, <2>1, <2>2 DEF LineTypes
  <2>4. Known' = Known
    BY <1>3, <2>1 DEF Known
  <2> QED
    BY <1>2, <2>3, <2>4 DEF Budget, Owing
<1>5. CASE ReadCompletes
  <2>1. PICK n \in 1..Len(tty) : /\ n <= ReadSize
                                 /\ done' = Append(done, n)
                                 /\ tty' = SubSeq(tty, n + 1, Len(tty))
    BY <1>5 DEF ReadCompletes
  <2>2. reads > 0 /\ reads' = reads - 1
    BY <1>5 DEF ReadCompletes
  <2>3. Len(tty) \in Nat /\ n \in 0..ReadSize
    BY <2>1, LenProperties, LineAssumption DEF LineTypes
  <2>4. done' \in Seq(0..ReadSize) /\ Len(done') = Len(done) + 1
    BY <2>1, <2>3, AppendProperties DEF LineTypes
  <2>5. tty' \in Seq(Chars \cup {EOL})
    BY <2>1, <2>3, SubSeqProperties DEF LineTypes
  <2>6. LineTypes'
    BY <1>2, <2>2, <2>4, <2>5 DEF LineTypes
  <2>7. Known' = Known
    BY <1>1, <1>3, <2>2, <2>4, BusyIsFinite DEF Known, LineTypes
  <2> QED
    BY <1>2, <2>6, <2>7 DEF Budget, Owing
<1> QED
  BY <1>4, <1>5

LEMMA LineInductive == LineSpec => []LineInv
<1>1. LineInv /\ UNCHANGED lineVars => LineInv'
  BY DEF LineInv, LineTypes, Budget, Owing, Known, Busy, lineVars, callVars, asioVars,
         threadVars, deviceVars
<1>2. LineInv /\ [LineNext]_lineVars => LineInv'
  BY <1>1, StartLine, StopLine, ThreadLine, PortLine DEF LineNext, UserStep
<1> QED
  BY <1>2, InitLine, PTL DEF LineSpec

-------------------------------------------------------------------------------
\* However often start() and stop() are called, and whichever handlers outlive
\* the session they belong to, no call of start() leaves more than one
\* operation behind.
THEOREM ReadsBounded == LineSpec => []OneReadPerStart
<1>1. LineInv => OneReadPerStart
  <2> SUFFICES ASSUME LineInv PROVE OneReadPerStart
    OBVIOUS
  <2>1. Known \in Nat /\ starts \in Nat
    BY KnownIsNat DEF LineInv, LineTypes
  <2> QED
    BY <2>1 DEF LineInv, Budget, OneReadPerStart
<1> QED
  BY <1>1, LineInductive, PTL

\* reads is bounded by starts, so the bound on the calls bounds every count.
LEMMA FlagInductive == LineSpec => [](stopped \in BOOLEAN)
<1>1. LineInit => stopped \in BOOLEAN
  BY DEF LineInit
<1>2. stopped \in BOOLEAN /\ [LineNext]_lineVars => (stopped \in BOOLEAN)'
  <2> SUFFICES ASSUME stopped \in BOOLEAN, [LineNext]_lineVars
               PROVE  stopped' \in BOOLEAN
    OBVIOUS
  <2>1. ASSUME NEW t \in Threads, ThreadStep(t)
        PROVE  stopped' \in BOOLEAN
    BY <2>1 DEF ThreadStep, RunEnters, RunReturns, RunTakes, Lock, Handle, asioVars
  <2>2. CASE UserStep \/ StartNew \/ StopLock
    BY <2>2 DEF UserStep, StartNew, StartOpen, StartThread, StartRead, StopLock, StopPort,
                StopThrows, StopService, ResetService, asioVars
  <2>3. CASE (\E c \in Chars \cup {EOL} : Receive(c)) \/ ReadCompletes
    BY <2>3 DEF Receive, ReadCompletes, asioVars
  <2>4. CASE UNCHANGED lineVars
    BY <2>4 DEF lineVars, asioVars
  <2> QED
    BY <2>1, <2>2, <2>3, <2>4 DEF LineNext
<1> QED
  BY <1>1, <1>2, PTL DEF LineSpec

\* Every variable keeps its type, and the reads in progress never outnumber the
\* calls of start(), whatever stop() aborts.
THEOREM LineTypeCorrect == LineSpec => []LineTypeOK
<1>1. LineInv /\ stopped \in BOOLEAN => LineTypeOK
  <2> SUFFICES ASSUME LineInv, stopped \in BOOLEAN PROVE LineTypeOK
    OBVIOUS
  <2>1. Known <= starts /\ starts \in 0..MaxStarts /\ Known \in Nat
    BY KnownIsNat DEF LineInv, LineTypes, Budget
  <2>2. reads <= Known
    BY KnownIsNat, BusyIsFinite DEF LineInv, LineTypes, Known
  <2>3. reads \in 0..MaxStarts
    BY <2>1, <2>2, LineAssumption DEF LineInv, LineTypes
  <2> QED
    BY <2>3 DEF LineInv, LineTypes, LineTypeOK
<1> QED
  BY <1>1, LineInductive, FlagInductive, PTL

-------------------------------------------------------------------------------
\* start() is not under way and cannot begin, and stop() can only throw.
Refused == port = "made" /\ user \in {"idle", "close"}

LEMMA RefusedForGood == Refused /\ [LineNext]_lineVars => Refused'
<1> SUFFICES ASSUME Refused, [LineNext]_lineVars PROVE Refused'
  OBVIOUS
<1>1. ASSUME NEW t \in Threads, ThreadStep(t)
      PROVE  Refused'
  BY <1>1 DEF ThreadStep, RunEnters, RunReturns, RunTakes, Lock, Handle, callVars, Refused
<1>2. CASE UserStep \/ StartNew \/ StopLock
  BY <1>2 DEF UserStep, StartNew, StartOpen, StartThread, StartRead, StopLock, StopPort,
              StopThrows, StopService, ResetService, callVars, Refused
<1>3. CASE (\E c \in Chars \cup {EOL} : Receive(c)) \/ ReadCompletes
  BY <1>3 DEF Receive, ReadCompletes, callVars, Refused
<1>4. CASE UNCHANGED lineVars
  BY <1>4 DEF lineVars, callVars, Refused
<1> QED
  BY <1>1, <1>2, <1>3, <1>4 DEF LineNext

\* A port that failed to open is never opened: no call of start() gets past the
\* test of port_, and no call of stop() past cancel(), whatever the threads and
\* the port do meanwhile.
THEOREM FailureIsFinal == LineSpec => FailedOpenIsFinal
<1>1. port = "made" /\ user = "idle" => Refused
  BY DEF Refused
<1>2. Refused => port # "open"
  BY DEF Refused
<1> QED
  BY <1>1, <1>2, RefusedForGood, PTL DEF LineSpec, FailedOpenIsFinal

-------------------------------------------------------------------------------
(* Texts and their last ends. *)

Characters == Chars \cup {EOL}

Below == {ss \in Nat \X Nat : ss[1] < ss[2]}

\* The largest number of a bounded set, as Max of the library has it.
LEMMA LargestNumber ==
    ASSUME NEW n \in Nat, NEW T \in SUBSET (0..n), T # {}
    PROVE  Max(T) \in T /\ \A y \in T : Max(T) >= y
<1> DEFINE D == {x \in Nat : n - x \in T}
<1>1. IsWellFoundedOn(Below, Nat)
  BY NatLessThanWellFounded DEF OpToRel, Below
<1>2. D \in SUBSET Nat /\ D # {}
  <2>1. PICK y \in T : TRUE
    OBVIOUS
  <2>2. n - y \in Nat /\ n - (n - y) = y
    BY <2>1
  <2> QED
    BY <2>1, <2>2
<1>3. PICK x \in D : \A y \in D : ~(<<y, x>> \in Below)
  BY <1>1, <1>2, WFMin
<1>4. ASSUME NEW y \in T, y > n - x PROVE FALSE
  <2>1. n - y \in Nat /\ n - (n - y) = y /\ n - y < x
    BY <1>3, <1>4
  <2>2. n - y \in D /\ <<n - y, x>> \in Below
    BY <1>3, <2>1 DEF Below
  <2> QED
    BY <1>3, <2>2
<1>5. n - x \in T /\ \A y \in T : n - x >= y
  BY <1>3, <1>4
<1> QED
  BY <1>5 DEF Max

LEMMA LastEndIs ==
    ASSUME NEW cs \in Seq(Characters)
    PROVE  /\ LastEnd(cs) \in 0..Len(cs)
           /\ LastEnd(cs) > 0 => cs[LastEnd(cs)] = EOL
           /\ \A i \in 1..Len(cs) : i > LastEnd(cs) => cs[i] # EOL
<1> DEFINE T == {i \in DOMAIN cs : cs[i] = EOL} \cup {0}
<1>1. Len(cs) \in Nat /\ DOMAIN cs = 1..Len(cs)
  BY LenProperties
<1>2. T \in SUBSET (0..Len(cs)) /\ T # {}
  BY <1>1
<1>3. Max(T) \in T /\ \A y \in T : Max(T) >= y
  BY <1>1, <1>2, LargestNumber
<1>4. LastEnd(cs) = Max(T)
  BY DEF LastEnd
<1>5. ASSUME NEW i \in 1..Len(cs), i > Max(T) PROVE cs[i] # EOL
  <2> SUFFICES ASSUME cs[i] = EOL PROVE FALSE
    OBVIOUS
  <2>1. i \in T
    BY <1>1
  <2> HIDE DEF T
  <2>2. Max(T) >= i /\ Max(T) \in 0..Len(cs)
    BY <1>2, <1>3, <2>1
  <2> QED
    BY <1>1, <1>5, <2>2
<1>6. Max(T) > 0 => cs[Max(T)] = EOL
  BY <1>3
<1> QED
  BY <1>2, <1>3, <1>4, <1>5, <1>6

\* What on_receive_ makes of a text: whole lines, and a rest without an end.
LEMMA Splitting ==
    ASSUME NEW s \in Seq(Characters), NEW cs \in Seq(Characters)
    PROVE  /\ NewLines(s, cs) \in Seq(Characters) /\ Rest(s, cs) \in Seq(Characters)
           /\ NewLines(s, cs) \o Rest(s, cs) = s \o cs
           /\ NewLines(s, cs) # <<>> => NewLines(s, cs)[Len(NewLines(s, cs))] = EOL
           /\ \A i \in DOMAIN Rest(s, cs) : Rest(s, cs)[i] # EOL
<1> DEFINE all == s \o cs
           n   == LastEnd(all)
           len == Len(all)
<1>1. all \in Seq(Characters)
  BY ConcatProperties
<1>2. len \in Nat /\ DOMAIN all = 1..len /\ \A i \in 1..len : all[i] \in Characters
  BY <1>1, LenProperties, ElementOfSeq
<1>3. n \in 0..len /\ (n > 0 => all[n] = EOL) /\ \A i \in 1..len : i > n => all[i] # EOL
  BY <1>1, LastEndIs
<1>4. NewLines(s, cs) = SubSeq(all, 1, n) /\ Rest(s, cs) = SubSeq(all, n + 1, len)
  BY DEF NewLines, Rest
<1> HIDE DEF all, n, len
<1>5. /\ SubSeq(all, 1, n) \in Seq(Characters) /\ Len(SubSeq(all, 1, n)) = n
      /\ \A i \in 1..n : SubSeq(all, 1, n)[i] = all[i]
  <2>1. \A i \in 1..n : all[i] \in Characters
    BY <1>2, <1>3
  <2>2. n \in Int /\ n - 1 + 1 = n /\ \A i \in 1..n : 1 + i - 1 = i
    BY <1>2, <1>3
  <2>3. /\ SubSeq(all, 1, n) \in Seq(Characters)
        /\ Len(SubSeq(all, 1, n)) = IF 1 <= n THEN n - 1 + 1 ELSE 0
        /\ \A i \in 1..(n - 1 + 1) : SubSeq(all, 1, n)[i] = all[1 + i - 1]
    BY <2>1, <2>2, SubSeqProperties
  <2> QED
    BY <1>2, <1>3, <2>2, <2>3
<1>6. /\ SubSeq(all, n + 1, len) \in Seq(Characters) /\ Len(SubSeq(all, n + 1, len)) = len - n
      /\ \A i \in 1..(len - n) : SubSeq(all, n + 1, len)[i] = all[n + i]
  <2>1. \A i \in (n + 1)..len : all[i] \in Characters
    BY <1>2, <1>3
  <2>2. n + 1 \in Int /\ len \in Int /\ len - (n + 1) + 1 = len - n
        /\ \A i \in 1..(len - n) : (n + 1) + i - 1 = n + i
    BY <1>2, <1>3
  <2>3. /\ SubSeq(all, n + 1, len) \in Seq(Characters)
        /\ Len(SubSeq(all, n + 1, len)) = IF n + 1 <= len THEN len - (n + 1) + 1 ELSE 0
        /\ \A i \in 1..(len - (n + 1) + 1) : SubSeq(all, n + 1, len)[i] = all[(n + 1) + i - 1]
    BY <2>1, <2>2, SubSeqProperties
  <2> QED
    BY <1>2, <1>3, <2>2, <2>3
<1>7. SubSeq(all, 1, n) \o SubSeq(all, n + 1, len) = all
  <2>1. 1 \in 1..(Len(all) + 1) /\ n \in (1 - 1)..Len(all) /\ Len(all) \in n..Len(all)
    BY <1>2, <1>3 DEF len
  <2>2. SubSeq(all, 1, n) \o SubSeq(all, n + 1, Len(all)) = SubSeq(all, 1, Len(all))
    BY <1>1, <2>1, ConcatAdjacentSubSeq
  <2> QED
    BY <1>1, <2>2, SubSeqFull DEF len
<1>8. SubSeq(all, 1, n) # <<>> => SubSeq(all, 1, n)[Len(SubSeq(all, 1, n))] = EOL
  <2> SUFFICES ASSUME SubSeq(all, 1, n) # <<>> PROVE SubSeq(all, 1, n)[n] = EOL
    BY <1>5
  <2>1. n > 0
    BY <1>2, <1>3, <1>5, EmptySeq
  <2> QED
    BY <1>2, <1>3, <1>5, <2>1
<1>9. \A i \in DOMAIN SubSeq(all, n + 1, len) : SubSeq(all, n + 1, len)[i] # EOL
  <2>1. DOMAIN SubSeq(all, n + 1, len) = 1..(len - n)
    BY <1>6, LenProperties
  <2>2. \A i \in 1..(len - n) : n + i \in 1..len /\ n + i > n
    BY <1>2, <1>3
  <2> QED
    BY <1>3, <1>6, <2>1, <2>2
<1> QED
  BY <1>4, <1>5, <1>6, <1>7, <1>8, <1>9 DEF all

-------------------------------------------------------------------------------
(* The inductive invariant of WholeInOrder. *)

TextTypes ==
    /\ {raw, str, lines, sent, before} \subseteq Seq(Characters)
    /\ op \in [Threads -> Nat]

\* What an operation says it has read is in the buffer.
Buffered ==
    /\ \A i \in 1..Len(done) : done[i] <= Len(raw)
    /\ \A t \in Threads : op[t] <= Len(raw)

\* No characters wait in a port that is not open.
Waiting ==
    /\ user = "open" => port = "made"
    /\ port # "open" => tty = <<>>

Whole ==
    /\ lines # <<>> => lines[Len(lines)] = EOL
    /\ \A i \in DOMAIN str : str[i] # EOL

Starting == user \in {"thread", "read"}

\* A session that began without an operation never has two, so that the buffer
\* belongs to one.
InOrder ==
    port = "open" /\ ~carried =>
        /\ Known <= 1 /\ (Starting => Known = 0)
        /\ Text \o Unscanned \o tty = before \o sent

TextInv == TextTypes /\ Buffered /\ Waiting /\ Whole /\ InOrder

LEMMA Unhandled ==
    ASSUME LineTypes, TextTypes, Buffered
    PROVE  /\ Unscanned \in Seq(Characters)
           /\ Known = 0 => Unscanned = <<>>
           /\ Known = 0 <=> reads = 0 /\ done = <<>> /\ Busy = {}
<1>1. /\ Busy \subseteq Threads /\ Len(done) \in Nat /\ Cardinality(Busy) \in Nat
      /\ IsFiniteSet(Busy) /\ reads \in Nat
  BY BusyIsFinite, LenProperties DEF LineTypes, Busy
<1>2. (done = <<>> <=> Len(done) = 0) /\ (Busy = {} <=> Cardinality(Busy) = 0)
  BY <1>1, EmptySeq, FS_EmptySet DEF LineTypes
<1>3. Known = 0 <=> reads = 0 /\ done = <<>> /\ Busy = {}
  BY <1>1, <1>2 DEF Known
<1>4. ASSUME NEW n \in Nat, n <= Len(raw) PROVE SubSeq(raw, 1, n) \in Seq(Characters)
  <2>1. \A i \in 1..n : raw[i] \in Characters
    BY <1>4, ElementOfSeq, LenProperties DEF TextTypes
  <2> QED
    BY <2>1, SubSeqProperties
<1>5. <<>> \in Seq(Characters)
  BY EmptySeq
<1>6. CASE Busy # {}
  <2>1. PICK t \in Threads : t = CHOOSE u \in Busy : TRUE
    BY <1>1, <1>6
  <2>2. Unscanned = SubSeq(raw, 1, op[t])
    BY <1>6, <2>1 DEF Unscanned
  <2>3. op[t] \in Nat /\ op[t] <= Len(raw)
    BY DEF TextTypes, Buffered
  <2> QED
    BY <1>3, <1>4, <1>6, <2>2, <2>3
<1>7. CASE Busy = {} /\ done # <<>>
  <2>1. Unscanned = SubSeq(raw, 1, Head(done))
    BY <1>7 DEF Unscanned
  <2>2. Head(done) = done[1] /\ 1 \in 1..Len(done) /\ Head(done) \in 0..ReadSize
    <3>1. 1 \in 1..Len(done)
      BY <1>1, <1>2, <1>7
    <3>2. done \in Seq(0..ReadSize) /\ done # <<>>
      BY <1>7 DEF LineTypes
    <3>3. done[1] \in 0..ReadSize
      BY <3>1, <3>2, ElementOfSeq
    <3>4. Head(done) = done[1]
      BY <3>2, HeadTailProperties
    <3> QED
      BY <3>1, <3>3, <3>4
  <2>3. Head(done) \in Nat /\ Head(done) <= Len(raw)
    BY <2>2, LineAssumption DEF Buffered
  <2> QED
    BY <1>3, <1>4, <1>7, <2>1, <2>3
<1>8. CASE Busy = {} /\ done = <<>>
  BY <1>3, <1>5, <1>8 DEF Unscanned
<1> QED
  BY <1>6, <1>7, <1>8

\* A step that leaves texts, operations and the port alone.
LEMMA TextUntouched ==
    ASSUME TextInv, UNCHANGED <<raw, str, lines, sent, before, tty, carried, op, done, reads, port>>,
           Busy' = Busy, user' = "open" => port = "made", Starting' => Starting
    PROVE  TextInv'
<1>1. Known' = Known /\ Unscanned' = Unscanned /\ Text' = Text
  BY DEF Known, Unscanned, Text
<1>2. TextTypes' /\ Buffered' /\ Waiting' /\ Whole'
  BY DEF TextInv, TextTypes, Buffered, Waiting, Whole
<1>3. InOrder'
  BY <1>1 DEF TextInv, InOrder
<1> QED
  BY <1>2, <1>3 DEF TextInv

LEMMA InitText == LineInit => TextInv
<1> SUFFICES ASSUME LineInit PROVE TextInv
  OBVIOUS
<1>1. <<>> \in Seq(Characters) /\ Len(<<>>) = 0
  BY EmptySeq
<1>2. TextTypes /\ Buffered
  BY <1>1 DEF LineInit, TextTypes, Buffered
<1> QED
  BY <1>2 DEF LineInit, TextInv, Waiting, Whole, InOrder

LEMMA StartText ==
    ASSUME LineInv, TextInv, StartNew \/ StartOpen \/ StartThread \/ StartRead
    PROVE  TextInv'
<1>1. CASE StartNew
  <2>1. UNCHANGED <<raw, str, lines, sent, before, tty, carried, op, done, reads, at>>
        /\ port = "null" /\ port' = "made" /\ user' = "open"
    BY <1>1 DEF StartNew, asioVars, threadVars, deviceVars
  <2>2. TextTypes' /\ Buffered' /\ Waiting' /\ Whole' /\ InOrder'
    BY <2>1 DEF TextInv, TextTypes, Buffered, Waiting, Whole, InOrder
  <2> QED
    BY <2>2 DEF TextInv
<1>2. CASE StartOpen
  <2>1. UNCHANGED <<raw, str, lines, tty, op, done, reads, at>> /\ user = "open" /\ port = "made"
        /\ user' # "open" /\ sent' = <<>> /\ before' = Text /\ carried' = (carried \/ Known > 0)
    BY <1>2 DEF StartOpen, asioVars, threadVars, textVars, TextInv, Waiting
  <2>2. tty = <<>> /\ <<>> \in Seq(Characters) /\ Text \in Seq(Characters)
    BY <2>1, EmptySeq, ConcatProperties DEF TextInv, Waiting, TextTypes, Text
  <2>3. TextTypes' /\ Buffered' /\ Waiting' /\ Whole'
    BY <2>1, <2>2 DEF TextInv, TextTypes, Buffered, Waiting, Whole
  <2>4. Known' = Known /\ Unscanned' = Unscanned /\ Text' = Text /\ Known \in Nat
    BY <2>1, KnownIsNat DEF Known, Unscanned, Text, Busy, LineInv
  <2>5. ASSUME ~carried' PROVE Known = 0 /\ Unscanned = <<>>
    <3>1. ~(Known > 0)
      BY <2>1, <2>5, Zenon
    <3>2. Known = 0
      BY <2>4, <3>1
    <3> QED
      BY <3>2, Unhandled DEF LineInv, TextInv
  <2>6. Text \o <<>> \o <<>> = Text \o <<>>
    BY <2>2, ConcatEmptySeq
  <2>7. InOrder'
    BY <2>1, <2>2, <2>4, <2>5, <2>6 DEF InOrder
  <2> QED
    BY <2>3, <2>7 DEF TextInv
<1>3. CASE StartThread
  <2>1. UNCHANGED <<raw, str, lines, sent, before, tty, carried, op, done, reads, port>>
        /\ user = "thread" /\ user' = "read" /\ at' = [at EXCEPT ![starts] = "enter"]
    BY <1>3 DEF StartThread, asioVars, textVars, deviceVars
  <2>2. starts \in Threads
    BY <2>1, KnownIsNat, LineAssumption DEF LineInv, LineTypes, Budget, Owing, Threads
  <2>3. Busy' = Busy \ {starts}
    BY <2>1, <2>2, MoveOfThread DEF LineInv
  <2>4. TextTypes' /\ Buffered' /\ Waiting' /\ Whole'
    BY <2>1 DEF TextInv, TextTypes, Buffered, Waiting, Whole
  <2>5. ASSUME port = "open", ~carried PROVE Busy' = Busy
    <3>1. Known = 0
      BY <2>1, <2>5 DEF TextInv, InOrder, Starting
    <3>2. Busy = {}
      BY <3>1, Unhandled DEF LineInv, TextInv
    <3> QED
      BY <2>3, <3>2
  <2>6. ASSUME port' = "open", ~carried'
        PROVE  Known' = Known /\ Unscanned' = Unscanned /\ Text' = Text
    BY <2>1, <2>5, <2>6 DEF Known, Unscanned, Text
  <2>7. InOrder'
    BY <2>1, <2>6 DEF TextInv, InOrder, Starting
  <2> QED
    BY <2>4, <2>7 DEF TextInv
<1>4. CASE StartRead
  <2>1. UNCHANGED <<raw, str, lines, sent, before, tty, carried, op, done, port, at>>
        /\ user = "read" /\ user' = "idle" /\ reads' \in {reads, reads + 1}
    BY <1>4 DEF StartRead, AsyncRead, threadVars, textVars, deviceVars
  <2>2. TextTypes' /\ Buffered' /\ Waiting' /\ Whole'
    BY <2>1 DEF TextInv, TextTypes, Buffered, Waiting, Whole
  <2>3. Unscanned' = Unscanned /\ Text' = Text /\ Busy' = Busy
    BY <2>1 DEF Unscanned, Text, Busy
  <2>4. Known' \in {Known, Known + 1} /\ Known \in Nat
    <3>1. Known' = reads' + Len(done) + Cardinality(Busy)
      BY <2>1, <2>3 DEF Known
    <3>2. Len(done) \in Nat /\ reads \in Nat /\ Cardinality(Busy) \in Nat
      BY KnownIsNat, BusyIsFinite DEF LineInv, LineTypes
    <3> QED
      BY <2>1, <3>1, <3>2 DEF Known
  <2>5. InOrder'
    BY <2>1, <2>3, <2>4 DEF TextInv, InOrder, Starting
  <2> QED
    BY <2>2, <2>5 DEF TextInv
<1> QED
  BY <1>1, <1>2, <1>3, <1>4

LEMMA StopText ==
    ASSUME LineInv, TextInv, StopLock \/ StopPort \/ StopThrows \/ StopService \/ ResetService
    PROVE  TextInv'
<1>1. CASE StopPort
  <2> DEFINE aborted == [i \in 1..reads |-> 0]
  <2>1. /\ UNCHANGED <<raw, str, lines, op>> /\ user' = "stop" /\ port' = "null"
        /\ done' = done \o aborted /\ tty' = <<>> /\ sent' = <<>> /\ before' = <<>>
    BY <1>1 DEF StopPort, threadVars, textVars
  <2>2. <<>> \in Seq(Characters) /\ Len(raw) \in Nat
    BY EmptySeq, LenProperties DEF TextInv, TextTypes
  <2>3. reads \in Nat /\ done \in Seq(0..ReadSize) /\ 0 \in 0..ReadSize
    BY LineAssumption DEF LineInv, LineTypes
  <2>4. /\ aborted \in Seq(0..ReadSize) /\ Len(aborted) = reads
        /\ \A i \in 1..reads : aborted[i] = 0
    BY <2>3, IsASeq, LenProperties
  <2> HIDE DEF aborted
  <2>5. /\ Len(done') = Len(done) + Len(aborted) /\ Len(done) \in Nat
        /\ \A i \in 1..Len(done') : done'[i] = IF i <= Len(done) THEN done[i]
                                              ELSE aborted[i - Len(done)]
    <3>1. /\ Len(done') = Len(done) + Len(aborted)
          /\ \A i \in 1..(Len(done) + Len(aborted)) :
                done'[i] = IF i <= Len(done) THEN done[i] ELSE aborted[i - Len(done)]
      BY <2>1, <2>3, <2>4, ConcatProperties
    <3> QED
      BY <2>3, <3>1, LenProperties
  <2>6. ASSUME NEW i \in 1..Len(done') PROVE done'[i] <= Len(raw)
    <3>1. CASE i <= Len(done)
      BY <2>5, <2>6, <3>1 DEF TextInv, Buffered
    <3>2. CASE ~(i <= Len(done))
      <4>1. i - Len(done) \in 1..reads
        BY <2>3, <2>4, <2>5, <2>6, <3>2
      <4> QED
        BY <2>2, <2>4, <2>5, <3>2, <4>1
    <3> QED
      BY <3>1, <3>2
  <2>7. TextTypes' /\ Buffered'
    BY <2>1, <2>2, <2>6 DEF TextInv, TextTypes, Buffered
  <2>8. Waiting' /\ Whole' /\ InOrder'
    BY <2>1 DEF TextInv, Waiting, Whole, InOrder
  <2> QED
    BY <2>7, <2>8 DEF TextInv
<1>2. CASE ~StopPort
  <2>1. UNCHANGED <<raw, str, lines, sent, before, tty, carried, op, done, reads, port, at>>
        /\ user' \in {"idle", "close", "reset"}
    BY <1>2 DEF StopLock, StopThrows, StopService, ResetService, asioVars, threadVars, textVars,
                deviceVars
  <2>2. Busy' = Busy
    BY <2>1 DEF Busy
  <2> QED
    BY <2>1, <2>2, TextUntouched DEF Starting
<1> QED
  BY <1>1, <1>2

LEMMA Associated ==
    ASSUME NEW a \in Seq(Characters), NEW b \in Seq(Characters), NEW c \in Seq(Characters)
    PROVE  (a \o b) \o c = a \o (b \o c)
  BY ConcatAssociative

\* With one operation at most, a handler that runs has it, and so has a read
\* that has completed or is in progress.
LEMMA OneOperation ==
    ASSUME LineTypes, Known <= 1
    PROVE  /\ \A t \in Busy : Busy = {t} /\ done = <<>> /\ reads = 0
           /\ done # <<>> => Busy = {} /\ reads = 0 /\ Len(done) = 1
           /\ reads > 0 => Busy = {} /\ done = <<>>
<1>1. /\ Len(done) \in Nat /\ Cardinality(Busy) \in Nat /\ IsFiniteSet(Busy) /\ reads \in Nat
      /\ done = <<>> <=> Len(done) = 0
      /\ Busy = {} <=> Cardinality(Busy) = 0
  BY BusyIsFinite, LenProperties, EmptySeq, FS_EmptySet DEF LineTypes
<1>2. reads + Len(done) + Cardinality(Busy) <= 1
  BY DEF Known
<1>3. ASSUME NEW t \in Busy PROVE Busy = {t} /\ done = <<>> /\ reads = 0
  <2>1. IsFiniteSet(Busy \ {t}) /\ Cardinality(Busy \ {t}) = Cardinality(Busy) - 1
    BY <1>1, <1>3, FS_RemoveElement
  <2>2. Cardinality(Busy) # 0
    BY <1>1, <1>3
  <2>3. Cardinality(Busy \ {t}) = 0 /\ Len(done) = 0 /\ reads = 0
    BY <1>1, <1>2, <2>1, <2>2
  <2>4. Busy \ {t} = {}
    BY <2>1, <2>3, FS_EmptySet
  <2> QED
    BY <1>1, <1>3, <2>3, <2>4
<1>4. ASSUME done # <<>> PROVE Busy = {} /\ reads = 0 /\ Len(done) = 1
  <2>1. Len(done) # 0
    BY <1>1, <1>4
  <2>2. \A a, b, c \in Nat : a + b + c <= 1 /\ b # 0 => a = 0 /\ b = 1 /\ c = 0
    OBVIOUS
  <2>3. Cardinality(Busy) = 0 /\ reads = 0 /\ Len(done) = 1
    BY <1>1, <1>2, <2>1, <2>2
  <2> QED
    BY <1>1, <2>3
<1>5. ASSUME reads > 0 PROVE Busy = {} /\ done = <<>>
  BY <1>1, <1>2, <1>5
<1> QED
  BY <1>3, <1>4, <1>5

\* An operation goes from the queue to the thread that takes it.
LEMMA TakeText ==
    ASSUME LineInv, TextInv, NEW t \in Threads, RunTakes(t)
    PROVE  TextInv'
<1>1. /\ UNCHANGED <<user, port, starts, raw, str, lines, sent, before, tty, carried, reads>>
      /\ at[t] = "loop" /\ done # <<>> /\ op' = [op EXCEPT ![t] = Head(done)]
      /\ done' = Tail(done) /\ at' = [at EXCEPT ![t] = "lock"]
  BY DEF RunTakes, callVars, textVars, deviceVars
<1>2. done \in Seq(0..ReadSize) /\ Len(done) \in Nat /\ Len(raw) \in Nat
  BY LenProperties DEF LineInv, LineTypes, TextInv, TextTypes
<1>3. Len(done) >= 1
  BY <1>1, <1>2, EmptySeq
<1>4. /\ Head(done) = done[1] /\ Head(done) \in 0..ReadSize
      /\ Len(Tail(done)) = Len(done) - 1
      /\ \A i \in 1..Len(Tail(done)) : Tail(done)[i] = done[i + 1]
  <2>1. Head(done) \in 0..ReadSize /\ Len(Tail(done)) = Len(done) - 1
        /\ \A i \in 1..Len(Tail(done)) : Tail(done)[i] = done[i + 1]
    BY <1>1, <1>2, HeadTailProperties
  <2>2. Head(done) = done[1]
    BY <1>1, <1>2, HeadTailProperties
  <2> QED
    BY <2>1, <2>2
<1>5. Head(done) \in Nat /\ Head(done) <= Len(raw)
  BY <1>2, <1>3, <1>4, LineAssumption DEF TextInv, Buffered
<1>6. \A i \in 1..Len(done') : done'[i] <= Len(raw')
  <2> TAKE i \in 1..Len(done')
  <2>1. i + 1 \in 1..Len(done) /\ done'[i] = done[i + 1]
    BY <1>1, <1>2, <1>4
  <2> QED
    BY <1>1, <2>1 DEF TextInv, Buffered
<1>7. op' \in [Threads -> Nat] /\ \A u \in Threads : op'[u] = IF u = t THEN Head(done) ELSE op[u]
  BY <1>1, <1>5 DEF TextInv, TextTypes
<1>8. TextTypes' /\ Buffered' /\ Waiting' /\ Whole'
  BY <1>1, <1>5, <1>6, <1>7 DEF TextInv, TextTypes, Buffered, Waiting, Whole
<1>9. Busy' = Busy \cup {t} /\ t \notin Busy
  <2>1. LineTypes /\ at' = [at EXCEPT ![t] = "lock"] /\ at[t] = "loop"
    BY <1>1 DEF LineInv
  <2> QED
    BY <2>1, MoveOfThread
<1>10. ASSUME port = "open", ~carried
       PROVE  Known' = 1 /\ Known = 1 /\ Unscanned' = Unscanned
  <2>1. Known <= 1
    BY <1>10 DEF TextInv, InOrder
  <2>2. Busy = {} /\ reads = 0 /\ Len(done) = 1
    BY <1>1, <2>1, OneOperation DEF LineInv
  <2>3. Busy' = {t} /\ Cardinality(Busy) = 0 /\ Cardinality(Busy') = 1
    <3>1. Busy' = {t}
      BY <1>9, <2>2
    <3>2. Cardinality({t}) = 1 /\ Cardinality({}) = 0
      BY FS_EmptySet, FS_Singleton
    <3> QED
      BY <2>2, <3>1, <3>2
  <2>4. Known' = 1 /\ Known = 1
    BY <1>1, <1>4, <2>2, <2>3 DEF Known
  <2>5. (CHOOSE u \in Busy' : TRUE) = t
    BY <2>3
  <2>6. Unscanned' = SubSeq(raw, 1, Head(done))
    BY <1>1, <1>7, <2>3, <2>5 DEF Unscanned
  <2>7. Unscanned = SubSeq(raw, 1, Head(done))
    BY <1>1, <2>2 DEF Unscanned
  <2> QED
    BY <2>4, <2>6, <2>7
<1>11. Text' = Text
  BY <1>1 DEF Text
<1>12. InOrder'
  BY <1>1, <1>10, <1>11 DEF TextInv, InOrder, Starting
<1> QED
  BY <1>8, <1>12 DEF TextInv

\* on_receive_: what the buffer held goes to the text, and the next read starts.
LEMMA HandleText ==
    ASSUME LineInv, TextInv, NEW t \in Threads, Handle(t)
    PROVE  TextInv'
<1> DEFINE got == SubSeq(raw, 1, op[t])
<1>1. /\ UNCHANGED <<user, port, starts, raw, sent, before, tty, carried, done>>
      /\ at[t] = "handle" /\ op' = [op EXCEPT ![t] = 0] /\ at' = [at EXCEPT ![t] = "loop"]
      /\ reads' = IF port = "open" THEN reads + 1 ELSE reads
      /\ IF port = "open" /\ op[t] > 0
         THEN lines' = lines \o NewLines(str, got) /\ str' = Rest(str, got)
         ELSE UNCHANGED <<lines, str>>
  BY DEF Handle, ReadAgain, AsyncRead, callVars, textVars, deviceVars
<1>2. op[t] \in Nat /\ op[t] <= Len(raw) /\ raw \in Seq(Characters) /\ str \in Seq(Characters)
      /\ lines \in Seq(Characters) /\ tty \in Seq(Characters)
  BY DEF TextInv, TextTypes, Buffered, LineInv, LineTypes, Characters
<1>3. got \in Seq(Characters) /\ (op[t] = 0 => got = <<>>)
  <2>1. \A i \in 1..op[t] : raw[i] \in Characters
    BY <1>2, ElementOfSeq, LenProperties
  <2> QED
    BY <1>2, <2>1, SubSeqProperties, SubSeqEmpty
<1> HIDE DEF got
<1>4. /\ NewLines(str, got) \in Seq(Characters) /\ Rest(str, got) \in Seq(Characters)
      /\ NewLines(str, got) \o Rest(str, got) = str \o got
      /\ NewLines(str, got) # <<>> => NewLines(str, got)[Len(NewLines(str, got))] = EOL
      /\ \A i \in DOMAIN Rest(str, got) : Rest(str, got)[i] # EOL
  BY <1>2, <1>3, Splitting
<1>5. op' \in [Threads -> Nat] /\ \A u \in Threads : op'[u] = IF u = t THEN 0 ELSE op[u]
  BY <1>1 DEF TextInv, TextTypes
<1>6. 0 <= Len(raw)
  BY <1>2, LenProperties
<1>7. lines' \in Seq(Characters) /\ str' \in Seq(Characters)
  <2>1. lines \o NewLines(str, got) \in Seq(Characters)
    BY <1>2, <1>4, ConcatProperties
  <2>2. lines' \in {lines, lines \o NewLines(str, got)} /\ str' \in {str, Rest(str, got)}
    BY <1>1
  <2> QED
    BY <1>2, <1>4, <2>1, <2>2
<1>8. TextTypes' /\ Buffered' /\ Waiting'
  BY <1>1, <1>5, <1>6, <1>7 DEF TextInv, TextTypes, Buffered, Waiting
<1>9. Whole'
  <2>1. CASE port = "open" /\ op[t] > 0
    <3> DEFINE new == NewLines(str, got)
    <3>1. lines' = lines \o new /\ str' = Rest(str, got)
      BY <1>1, <2>1
    <3>2. \A i \in DOMAIN str' : str'[i] # EOL
      BY <1>4, <3>1
    <3>3. new \in Seq(Characters) /\ (new # <<>> => new[Len(new)] = EOL)
      BY <1>4
    <3> HIDE DEF new
    <3>4. CASE new = <<>>
      BY <1>2, <3>1, <3>2, <3>4, ConcatEmptySeq DEF Whole, TextInv
    <3>5. CASE new # <<>>
      <4>1. Len(new) \in Nat /\ Len(new) # 0 /\ Len(lines) \in Nat
        BY <1>2, <3>3, <3>5, LenProperties, EmptySeq
      <4>2. /\ Len(lines') = Len(lines) + Len(new)
            /\ lines'[Len(lines) + Len(new)] = new[Len(lines) + Len(new) - Len(lines)]
        BY <1>2, <3>1, <3>3, <4>1, ConcatProperties
      <4>3. Len(lines) + Len(new) - Len(lines) = Len(new)
        BY <4>1
      <4> QED
        BY <3>2, <3>3, <3>5, <4>2, <4>3 DEF Whole
    <3> QED
      BY <3>4, <3>5
  <2>2. CASE ~(port = "open" /\ op[t] > 0)
    BY <1>1, <2>2 DEF Whole, TextInv
  <2> QED
    BY <2>1, <2>2
<1>10. Busy' = Busy \ {t} /\ t \in Busy
  BY <1>1, MoveOfThread DEF LineInv
<1>11. ASSUME port = "open", ~carried
       PROVE  /\ Known' = 1 /\ ~Starting
              /\ Unscanned = got /\ Unscanned' = <<>>
  <2>1. Known <= 1
    BY <1>11 DEF TextInv, InOrder
  <2>2. Busy = {t} /\ done = <<>> /\ reads = 0
    BY <1>10, <2>1, OneOperation DEF LineInv
  <2>3. Busy' = {} /\ done' = <<>> /\ reads' = 1
    BY <1>1, <1>10, <1>11, <2>2
  <2>4. Known' = 1
    BY <2>3, FS_EmptySet, EmptySeq DEF Known
  <2>5. ~Starting
    BY <1>10, <1>11, Unhandled DEF TextInv, InOrder, LineInv
  <2>6. (CHOOSE u \in Busy : TRUE) = t
    BY <2>2
  <2>7. Unscanned = got
    BY <2>2, <2>6 DEF Unscanned, got
  <2> QED
    BY <2>3, <2>4, <2>5, <2>7 DEF Unscanned
<1>12. ASSUME port = "open"
       PROVE  Text' = Text \o got
  <2>1. CASE op[t] > 0
    <3>1. lines' = lines \o NewLines(str, got) /\ str' = Rest(str, got)
      BY <1>1, <1>12, <2>1
    <3>2. Text' = (lines \o NewLines(str, got)) \o Rest(str, got)
      BY <3>1 DEF Text
    <3>3. (lines \o NewLines(str, got)) \o Rest(str, got)
          = lines \o (NewLines(str, got) \o Rest(str, got))
      BY <1>2, <1>4, Associated
    <3>4. (lines \o str) \o got = lines \o (str \o got)
      BY <1>2, <1>3, Associated
    <3> QED
      BY <1>4, <3>2, <3>3, <3>4 DEF Text
  <2>2. CASE ~(op[t] > 0)
    <3>1. got = <<>> /\ UNCHANGED <<lines, str>>
      BY <1>1, <1>2, <1>3, <2>2
    <3>2. Text \in Seq(Characters)
      BY <1>2, ConcatProperties DEF Text
    <3>3. Text \o <<>> = Text
      BY <3>2, ConcatEmptySeq
    <3> QED
      BY <3>1, <3>3 DEF Text
  <2> QED
    BY <2>1, <2>2
<1>13. InOrder'
  <2> SUFFICES ASSUME port' = "open", ~carried'
               PROVE  /\ Known' <= 1 /\ ~Starting'
                      /\ Text' \o Unscanned' \o tty' = before' \o sent'
    BY DEF InOrder
  <2>1. port = "open" /\ ~carried
    BY <1>1
  <2>2. Text \o got \o tty = before \o sent
    BY <1>11, <2>1 DEF TextInv, InOrder
  <2>3. Text \o got \in Seq(Characters)
    BY <1>2, <1>3, ConcatProperties DEF Text
  <2>4. (Text \o got) \o <<>> = Text \o got
    BY <2>3, ConcatEmptySeq
  <2>5. Text' \o Unscanned' \o tty' = before' \o sent'
    BY <1>1, <1>11, <1>12, <2>1, <2>2, <2>4
  <2> QED
    BY <1>1, <1>11, <2>1, <2>5 DEF Starting
<1> QED
  BY <1>8, <1>9, <1>13 DEF TextInv

LEMMA ThreadText ==
    ASSUME LineInv, TextInv, NEW t \in Threads, ThreadStep(t)
    PROVE  TextInv'
<1>1. CASE RunEnters(t) \/ RunReturns(t) \/ Lock(t)
  <2>1. UNCHANGED <<raw, str, lines, sent, before, tty, carried, op, done, reads, port, user>>
    BY <1>1 DEF RunEnters, RunReturns, Lock, callVars, asioVars, textVars, deviceVars
  <2>2. \/ at' = [at EXCEPT ![t] = "handle"] /\ at[t] = "lock"
        \/ at' = [at EXCEPT ![t] = "gone"] /\ at[t] \in {"enter", "loop"}
        \/ at' = [at EXCEPT ![t] = "loop"] /\ at[t] = "enter"
    BY <1>1 DEF RunEnters, RunReturns, Lock
  <2>3. Busy' = Busy
    <3>1. CASE at' = [at EXCEPT ![t] = "handle"] /\ at[t] = "lock"
      <4>1. Busy' = Busy \cup {t} /\ t \in Busy
        BY <3>1, MoveOfThread DEF LineInv
      <4> QED
        BY <4>1
    <3>2. CASE at' = [at EXCEPT ![t] = "gone"] /\ at[t] \in {"enter", "loop"}
      <4>1. Busy' = Busy \ {t} /\ t \notin Busy
        BY <3>2, MoveOfThread DEF LineInv
      <4> QED
        BY <4>1
    <3>3. CASE at' = [at EXCEPT ![t] = "loop"] /\ at[t] = "enter"
      <4>1. Busy' = Busy \ {t} /\ t \notin Busy
        BY <3>3, MoveOfThread DEF LineInv
      <4> QED
        BY <4>1
    <3> QED
      BY <2>2, <3>1, <3>2, <3>3
  <2> QED
    BY <2>1, <2>3, TextUntouched DEF Starting, TextInv, Waiting
<1> QED
  BY <1>1, TakeText, HandleText DEF ThreadStep

\* A character comes in, or some move to the buffer.
LEMMA PortText ==
    ASSUME LineInv, TextInv, (\E c \in Characters : Receive(c)) \/ ReadCompletes
    PROVE  TextInv'
<1>1. /\ raw \in Seq(Characters) /\ str \in Seq(Characters) /\ lines \in Seq(Characters)
      /\ sent \in Seq(Characters) /\ before \in Seq(Characters) /\ tty \in Seq(Characters)
      /\ Text \in Seq(Characters)
      /\ Len(raw) \in Nat /\ Len(tty) \in Nat /\ Len(done) \in Nat
      /\ done \in Seq(0..ReadSize)
  <2>1. /\ raw \in Seq(Characters) /\ str \in Seq(Characters) /\ lines \in Seq(Characters)
        /\ sent \in Seq(Characters) /\ before \in Seq(Characters) /\ tty \in Seq(Characters)
        /\ done \in Seq(0..ReadSize)
    BY DEF TextInv, TextTypes, LineInv, LineTypes, Characters
  <2> QED
    BY <2>1, ConcatProperties, LenProperties DEF Text
<1>2. Unscanned \in Seq(Characters) /\ Text \o Unscanned \in Seq(Characters)
  BY <1>1, Unhandled, ConcatProperties DEF LineInv, TextInv
<1>3. ASSUME NEW c \in Characters, Receive(c)
      PROVE  TextInv'
  <2>1. /\ port = "open" /\ tty' = Append(tty, c) /\ sent' = Append(sent, c)
        /\ UNCHANGED <<raw, str, lines, before, carried, op, done, reads, port, user, at>>
    BY <1>3 DEF Receive, callVars, asioVars, threadVars, textVars
  <2>2. sent' \in Seq(Characters)
    BY <1>1, <2>1, AppendProperties
  <2>3. TextTypes' /\ Buffered' /\ Waiting' /\ Whole'
    BY <2>1, <2>2 DEF TextInv, TextTypes, Buffered, Waiting, Whole
  <2>4. Known' = Known /\ Unscanned' = Unscanned /\ Text' = Text
    BY <2>1 DEF Known, Unscanned, Text, Busy
  <2>5. ASSUME Text \o Unscanned \o tty = before \o sent
        PROVE  Text \o Unscanned \o tty' = before \o sent'
    <3>1. tty' = tty \o <<c>> /\ sent' = sent \o <<c>> /\ <<c>> \in Seq(Characters)
      BY <1>1, <2>1, AppendIsConcat
    <3>2. (Text \o Unscanned) \o (tty \o <<c>>) = ((Text \o Unscanned) \o tty) \o <<c>>
      <4>1. /\ Text \o Unscanned \in Seq(Characters) /\ tty \in Seq(Characters)
            /\ <<c>> \in Seq(Characters)
        BY <1>1, <1>2, <3>1
      <4> QED
        BY <4>1, Associated
    <3>3. (before \o sent) \o <<c>> = before \o (sent \o <<c>>)
      <4>1. before \in Seq(Characters) /\ sent \in Seq(Characters) /\ <<c>> \in Seq(Characters)
        BY <1>1, <3>1
      <4> QED
        BY <4>1, Associated
    <3> QED
      BY <2>5, <3>1, <3>2, <3>3
  <2>6. InOrder'
    BY <2>1, <2>4, <2>5 DEF TextInv, InOrder, Starting
  <2> QED
    BY <2>3, <2>6 DEF TextInv
<1>4. CASE ReadCompletes
  <2>1. PICK n \in 1..Len(tty) :
           /\ raw' = SubSeq(tty, 1, n) \o SubSeq(raw, n + 1, Len(raw))
           /\ done' = Append(done, n)
           /\ tty' = SubSeq(tty, n + 1, Len(tty))
           /\ n <= ReadSize
    BY <1>4 DEF ReadCompletes
  <2>2. /\ reads > 0 /\ reads' = reads - 1 /\ tty # <<>>
        /\ UNCHANGED <<str, lines, sent, before, carried, op, port, user, at>>
    BY <1>4 DEF ReadCompletes, callVars, threadVars, textVars
  <2>3. /\ SubSeq(tty, 1, n) \in Seq(Characters) /\ Len(SubSeq(tty, 1, n)) = n
        /\ SubSeq(tty, 1, n) \o SubSeq(tty, n + 1, Len(tty)) = tty
        /\ SubSeq(tty, n + 1, Len(tty)) \in Seq(Characters)
    <3>1. \A i \in 1..Len(tty) : tty[i] \in Characters
      BY <1>1, ElementOfSeq
    <3>2. 1 \in 1..(Len(tty) + 1) /\ n \in (1 - 1)..Len(tty) /\ Len(tty) \in n..Len(tty)
          /\ n \in Int /\ n + 1 \in Int /\ n - 1 + 1 = n /\ 1 <= n
      BY <1>1
    <3>3. SubSeq(tty, 1, n) \o SubSeq(tty, n + 1, Len(tty)) = SubSeq(tty, 1, Len(tty))
      BY <1>1, <3>2, ConcatAdjacentSubSeq
    <3>4. SubSeq(tty, 1, Len(tty)) = tty
      BY <1>1, SubSeqFull
    <3>5. \A i \in 1..n : tty[i] \in Characters
      BY <1>1, <3>1
    <3>6. \A i \in (n + 1)..Len(tty) : tty[i] \in Characters
      BY <1>1, <3>1
    <3>7. SubSeq(tty, 1, n) \in Seq(Characters) /\ Len(SubSeq(tty, 1, n)) = n
      BY <3>2, <3>5, SubSeqProperties
    <3>8. SubSeq(tty, n + 1, Len(tty)) \in Seq(Characters)
      BY <1>1, <3>2, <3>6, SubSeqProperties
    <3> QED
      BY <3>3, <3>4, <3>7, <3>8
  <2>4. /\ SubSeq(raw, n + 1, Len(raw)) \in Seq(Characters)
        /\ Len(SubSeq(raw, n + 1, Len(raw))) = IF n + 1 <= Len(raw) THEN Len(raw) - n ELSE 0
    <3>1. \A i \in (n + 1)..Len(raw) : raw[i] \in Characters
      BY <1>1, ElementOfSeq
    <3>2. n + 1 \in Int /\ Len(raw) \in Int /\ Len(raw) - (n + 1) + 1 = Len(raw) - n
      BY <1>1
    <3> QED
      BY <3>1, <3>2, SubSeqProperties
  <2>5. raw' \in Seq(Characters) /\ Len(raw') \in Nat /\ Len(raw') >= n /\ Len(raw') >= Len(raw)
    <3>1. raw' \in Seq(Characters)
          /\ Len(raw') = n + Len(SubSeq(raw, n + 1, Len(raw)))
      BY <2>1, <2>3, <2>4, ConcatProperties
    <3> QED
      BY <1>1, <2>4, <3>1
  <2>6. SubSeq(raw', 1, n) = SubSeq(tty, 1, n)
    <3>1. 1 \in 1..n /\ n \in 1..n
      BY <1>1
    <3>2. SubSeq(raw', 1, n) = SubSeq(SubSeq(tty, 1, n), 1, n)
      BY <2>1, <2>3, <2>4, <3>1, SubSeqOfConcat1
    <3>3. SubSeq(SubSeq(tty, 1, n), 1, n) = SubSeq(tty, 1, n)
      BY <2>3, SubSeqFull
    <3> QED
      BY <3>2, <3>3
  <2>7. /\ Len(done') = Len(done) + 1
        /\ \A i \in 1..Len(done') : done'[i] = IF i <= Len(done) THEN done[i] ELSE n
    <3>1. n \in 0..ReadSize
      BY <1>1, <2>1, LineAssumption
    <3>2. /\ Len(Append(done, n)) = Len(done) + 1
          /\ \A i \in 1..Len(done) : Append(done, n)[i] = done[i]
          /\ Append(done, n)[Len(done) + 1] = n
      BY <1>1, <3>1, AppendProperties
    <3>3. ASSUME NEW i \in 1..(Len(done) + 1)
          PROVE  Append(done, n)[i] = IF i <= Len(done) THEN done[i] ELSE n
      <4>1. CASE i <= Len(done)
        <5>1. i \in 1..Len(done)
          BY <1>1, <3>3, <4>1
        <5> QED
          BY <3>2, <4>1, <5>1
      <4>2. CASE ~(i <= Len(done))
        <5>1. \A k \in Nat : \A j \in 1..(k + 1) : ~(j <= k) => j = k + 1
          OBVIOUS
        <5>2. i = Len(done) + 1
          BY <1>1, <3>3, <4>2, <5>1
        <5> QED
          BY <3>2, <4>2, <5>2
      <4> QED
        BY <4>1, <4>2
    <3> QED
      BY <2>1, <3>2, <3>3
  <2>8. Buffered'
    <3>1. ASSUME NEW i \in 1..Len(done') PROVE done'[i] <= Len(raw')
      <4>1. CASE i <= Len(done)
        <5>1. i \in 1..Len(done)
          BY <1>1, <2>7, <3>1, <4>1
        <5>2. done[i] \in 0..ReadSize /\ ReadSize \in Nat
          BY <1>1, <5>1, ElementOfSeq, LineAssumption
        <5>3. done[i] \in Nat /\ done[i] <= Len(raw)
          BY <5>1, <5>2 DEF TextInv, Buffered
        <5>4. done'[i] = done[i]
          BY <2>7, <3>1, <4>1
        <5> QED
          BY <1>1, <2>5, <5>3, <5>4
      <4>2. CASE ~(i <= Len(done))
        BY <2>5, <2>7, <4>2
      <4> QED
        BY <4>1, <4>2
    <3>2. ASSUME NEW t \in Threads PROVE op'[t] <= Len(raw')
      BY <1>1, <2>2, <2>5 DEF TextInv, TextTypes, Buffered
    <3> QED
      BY <3>1, <3>2 DEF Buffered
  <2>9. port = "open"
    BY <2>2 DEF TextInv, Waiting
  <2>10. TextTypes' /\ Waiting' /\ Whole'
    BY <2>2, <2>5, <2>9 DEF TextInv, TextTypes, Waiting, Whole
  <2>11. ASSUME ~carried
         PROVE  /\ Known' = Known /\ Known = 1
                /\ Unscanned = <<>> /\ Unscanned' = SubSeq(tty, 1, n)
    <3>1. Known <= 1
      BY <2>9, <2>11 DEF TextInv, InOrder
    <3>2. Busy = {} /\ done = <<>>
      BY <2>2, <3>1, OneOperation DEF LineInv
    <3>3. Busy' = {} /\ Len(done) = 0 /\ Cardinality(Busy) = 0
      BY <2>2, <3>2, FS_EmptySet, EmptySeq DEF Busy
    <3>4. reads \in Nat
      BY DEF LineInv, LineTypes
    <3>5. Known' = Known /\ Known = 1
      BY <2>2, <2>7, <3>1, <3>2, <3>3, <3>4 DEF Known
    <3>6. done' = <<n>>
      BY <2>1, <3>2
    <3>7. Unscanned' = SubSeq(raw', 1, n)
      BY <3>3, <3>6 DEF Unscanned
    <3> QED
      BY <2>6, <3>2, <3>5, <3>7 DEF Unscanned
  <2>12. InOrder'
    <3> SUFFICES ASSUME port' = "open", ~carried'
                 PROVE  /\ Known' <= 1 /\ (Starting' => Known' = 0)
                        /\ Text' \o Unscanned' \o tty' = before' \o sent'
      BY DEF InOrder
    <3>1. ~carried /\ Text' = Text
      BY <2>2 DEF Text
    <3>2. Text \o <<>> \o tty = before \o sent /\ ~Starting
      BY <2>9, <2>11, <3>1 DEF TextInv, InOrder
    <3>3. Text \o <<>> = Text
      BY <1>1, ConcatEmptySeq
    <3>4. (Text \o SubSeq(tty, 1, n)) \o SubSeq(tty, n + 1, Len(tty)) = Text \o tty
      <4>1. /\ Text \in Seq(Characters) /\ SubSeq(tty, 1, n) \in Seq(Characters)
            /\ SubSeq(tty, n + 1, Len(tty)) \in Seq(Characters)
        BY <1>1, <2>3
      <4>2. (Text \o SubSeq(tty, 1, n)) \o SubSeq(tty, n + 1, Len(tty))
            = Text \o (SubSeq(tty, 1, n) \o SubSeq(tty, n + 1, Len(tty)))
        BY <4>1, Associated
      <4> QED
        BY <2>3, <4>2
    <3>5. Text' \o Unscanned' \o tty' = before' \o sent'
      BY <2>1, <2>2, <2>11, <3>1, <3>2, <3>3, <3>4
    <3> QED
      BY <2>2, <2>11, <3>1, <3>2, <3>5 DEF Starting
  <2> QED
    BY <2>8, <2>10, <2>12 DEF TextInv
<1> QED
  BY <1>3, <1>4

LEMMA TextInductive == LineSpec => [](LineInv /\ TextInv)
<1>1. TextInv /\ UNCHANGED lineVars => TextInv'
  <2> SUFFICES ASSUME TextInv, UNCHANGED lineVars PROVE TextInv'
    OBVIOUS
  <2>1. UNCHANGED <<raw, str, lines, sent, before, tty, carried, op, done, reads, port, user, at>>
    BY DEF lineVars, callVars, asioVars, threadVars, textVars, deviceVars
  <2>2. Busy' = Busy
    BY <2>1 DEF Busy
  <2> QED
    BY <2>1, <2>2, TextUntouched DEF Starting, TextInv, Waiting
<1>2. LineInv /\ TextInv /\ [LineNext]_lineVars => TextInv'
  BY <1>1, StartText, StopText, ThreadText, PortText DEF LineNext, UserStep, Characters
<1> QED
  BY <1>2, InitText, LineInductive, PTL DEF LineSpec

\* Whatever start(), stop() and the threads do to one another: every character
\* received is in a delivered line, in the line begun, in the buffer or in the
\* port, in the order it came, in every session that began without an operation
\* of the one before.
THEOREM LinesWholeInOrder == LineSpec => []WholeInOrder
<1>1. LineInv /\ TextInv => WholeInOrder
  BY DEF TextInv, Whole, InOrder, WholeInOrder
<1> QED
  BY <1>1, TextInductive, PTL

===============================================================================
