---------------------------- MODULE LoggingProofs ----------------------------
(***************************************************************************)
(* Theorems about module Logging for any threads, any number of            *)
(* initialize_logging calls, any path and any bounds.                      *)
(***************************************************************************)
EXTENDS Logging, SequenceTheorems, WellFoundedInduction, TLAPS

Pieces == [thread : Threads \cup {None}, id : Nat, part : 0..2]
CallPcs == {"path", "internal", "create", "set", "level", "ok", "err", "panicked"}
ThreadPcs == {"idle", "stamp", "lock", "write", "panicked"}
Parts == {1, 2}
Calls == [pc : CallPcs, now : Int, start : Int]
Loggers == [pc : ThreadPcs, id : Nat, stamp : Nat, at : Int, part : Parts]

LEMMA PcsAre ==
  /\ {"path", "internal", "create", "set", "level", "ok", "err", "panicked"} = CallPcs
  /\ {"idle", "stamp", "lock", "write", "panicked"} = ThreadPcs
  /\ "path" \in CallPcs /\ "internal" \in CallPcs /\ "create" \in CallPcs /\ "set" \in CallPcs
  /\ "level" \in CallPcs /\ "ok" \in CallPcs /\ "err" \in CallPcs /\ "panicked" \in CallPcs
  /\ "idle" \in ThreadPcs /\ "stamp" \in ThreadPcs /\ "lock" \in ThreadPcs
  /\ "write" \in ThreadPcs /\ "panicked" \in ThreadPcs
  /\ 1 \in Parts /\ 2 \in Parts
BY DEF CallPcs, ThreadPcs, Parts

\* The type of Logging, with the parts of records that TypeOK leaves open.  The
\* inductive invariants know from it that a stamp is only taken after the start.
TypeInv ==
  /\ wall \in Int /\ mono \in Mono0..MaxTime /\ sets \in 0..MaxSets /\ back \in BOOLEAN
  /\ option \in Paths
  /\ init \in [Inits -> Calls]
  /\ logger \in {None, "stderr", "file"}
  /\ start \in Int
  /\ maxLevel \in {Off, Info}
  /\ file \in Seq(Pieces)
  /\ pos \in Nat /\ cut \in BOOLEAN
  /\ lock \in Threads \cup {None}
  /\ thr \in [Threads -> Loggers]

-----------------------------------------------------------------------------
(* The steps of the model in the terms of what they leave behind.          *)

\* The file after a piece was written: what was there, holes up to the position of the
\* descriptor, and the piece.
LEMMA Written ==
  ASSUME TypeInv, Len(file) <= pos, NEW t \in Threads, WritePiece(t)
  PROVE  /\ file' \in Seq(Pieces) /\ Len(file') = pos + 1 /\ pos' = pos + 1
         /\ \A k \in 1..Len(file) : file'[k] = file[k]
         /\ \A k \in Len(file) + 1..pos : file'[k] = Hole
         /\ file'[pos + 1] = [thread |-> t, id |-> thr[t].id, part |-> thr[t].part]
<1> DEFINE piece == [thread |-> t, id |-> thr[t].id, part |-> thr[t].part]
           whole == [k \in 1..pos + 1 |-> IF k = pos + 1 THEN piece ELSE IF k <= Len(file) THEN file[k] ELSE Hole]
<1>1. file \in Seq(Pieces) /\ Len(file) \in Nat /\ pos \in Nat
  BY LenProperties DEF TypeInv
<1>2. Largest(Len(file), pos + 1) = pos + 1
  BY <1>1 DEF Largest
<1>3. file' = whole /\ pos' = pos + 1
  BY <1>2 DEF WritePiece
<1>4. piece \in Pieces /\ Hole \in Pieces
  BY DEF TypeInv, Loggers, Parts, Pieces, Hole
<1>5. \A k \in 1..Len(file) : file[k] \in Pieces
  BY <1>1, ElementOfSeq
<1> HIDE DEF piece
<1>6. whole \in [1..pos + 1 -> Pieces] /\ pos + 1 \in Nat
  BY <1>1, <1>4, <1>5
<1>7. whole \in Seq(Pieces)
  BY <1>6, SeqDef
<1>8. Len(whole) = pos + 1
  BY <1>6, <1>7, LenProperties
<1>9. /\ \A k \in 1..Len(file) : whole[k] = file[k]
      /\ \A k \in Len(file) + 1..pos : whole[k] = Hole
      /\ whole[pos + 1] = piece
  BY <1>1
<1> QED
  BY <1>3, <1>7, <1>8, <1>9 DEF piece

\* No step but those of initialize_logging changes the logger.
LEMMA LoggerQuiet ==
  ASSUME (\E t \in Threads : Logging(t) \/ \E level \in Levels : Log(t, level))
         \/ Tick \/ SetClock \/ UNCHANGED vars
  PROVE  UNCHANGED <<init, logger, start, maxLevel, cut, option>>
BY DEF Logging, Stamp, Lock, Write, WritePiece, WriteFails, Log, Tick, SetClock, vars, installed, disk

-----------------------------------------------------------------------------
(* Types.                                                                  *)

\* The descriptor is never before the end of the file, and the file has no piece before
\* there is a logger that writes to one.
FileInv ==
  /\ Len(file) <= pos
  /\ ~cut => Len(file) = pos
  /\ logger # "file" => /\ file = <<>> /\ pos = 0 /\ ~cut
                        /\ \A t \in Threads : thr[t].pc = "idle"

LEMMA InitType == Init => TypeInv /\ FileInv
<1> SUFFICES ASSUME Init PROVE TypeInv /\ FileInv
  OBVIOUS
<1>1. file = <<>> /\ file \in Seq(Pieces) /\ Len(file) = 0
  BY EmptySeq DEF Init
<1>2. init \in [Inits -> Calls] /\ thr \in [Threads -> Loggers]
  BY PcsAre DEF Init, Calls, Loggers
<1>3. wall \in Int /\ mono \in Mono0..MaxTime /\ sets \in 0..MaxSets
  BY LoggingAssumption DEF Init, Wall0, Mono0
<1>4. TypeInv
  <2>1. /\ option \in Paths /\ logger \in {None, "stderr", "file"} /\ lock \in Threads \cup {None}
        /\ cut \in BOOLEAN /\ back \in BOOLEAN
    BY DEF Init
  <2>2. start \in Int /\ maxLevel \in {Off, Info} /\ pos \in Nat
    BY DEF Init
  <2> QED
    BY <1>1, <1>2, <1>3, <2>1, <2>2 DEF TypeInv
<1>5. FileInv
  BY <1>1 DEF Init, FileInv, None
<1> QED
  BY <1>4, <1>5

LEMMA StepType == TypeInv /\ FileInv /\ [Next]_vars => TypeInv'
<1> SUFFICES ASSUME TypeInv, FileInv, [Next]_vars PROVE TypeInv'
  OBVIOUS
<1>1. ASSUME NEW i \in Inits, Now(i) \/ InternalNow(i) \/ InitPanics(i) \/ SetLogger(i) \/ SetMaxLevel(i)
      PROVE  TypeInv'
  <2>0. wall \in Int /\ mono \in Int /\ init[i].now - mono \in Int /\ init[i].start \in Int
    BY DEF TypeInv, Calls, Mono0
  <2>1. init' \in [Inits -> Calls]
    <3>1. CASE Now(i)
      BY <2>0, <3>1, PcsAre, ZenonT(30) DEF Now, TypeInv, Calls
    <3>2. CASE InternalNow(i)
      BY <2>0, <3>2, PcsAre DEF InternalNow, StartTime, TypeInv, Calls
    <3>3. CASE InitPanics(i)
      BY <3>3, PcsAre DEF InitPanics, TypeInv, Calls
    <3>4. CASE SetLogger(i)
      <4>1. CASE logger # None
        <5>1. PICK n \in Int : n = 0
          OBVIOUS
        <5>2. init' = [init EXCEPT ![i].pc = "err", ![i].start = n]
          BY <3>4, <4>1, <5>1 DEF SetLogger
        <5> QED
          BY <5>2, PcsAre DEF TypeInv, Calls
      <4>2. CASE logger = None
        <5>1. init' = [init EXCEPT ![i].pc = "level"]
          BY <3>4, <4>2 DEF SetLogger, Goto
        <5> QED
          BY <5>1, PcsAre DEF TypeInv, Calls
      <4> QED
        BY <4>1, <4>2
    <3>5. CASE SetMaxLevel(i)
      BY <3>5, PcsAre DEF SetMaxLevel, Goto, TypeInv, Calls
    <3> QED
      BY <1>1, <3>1, <3>2, <3>3, <3>4, <3>5
  <2>3. start' \in Int /\ pos' \in Nat
    BY <1>1, <2>0 DEF Now, InternalNow, InitPanics, SetLogger, SetMaxLevel, TypeInv, installed, disk
  <2>2. logger' \in {None, "stderr", "file"} /\ maxLevel' \in {Off, Info}
    BY <1>1 DEF Now, InternalNow, InitPanics, SetLogger, SetMaxLevel, TypeInv, installed
  <2> QED
    BY <1>1, <2>1, <2>2, <2>3 DEF Now, InternalNow, InitPanics, SetLogger, SetMaxLevel, TypeInv, clocks, installed, disk
<1>2. ASSUME NEW i \in Inits, Create(i)
      PROVE  TypeInv'
  <2>1. init' \in [Inits -> Calls]
    BY <1>2, PcsAre DEF Create, Goto, TypeInv, Calls
  <2>2. file' \in Seq(Pieces) /\ cut' \in BOOLEAN
    BY <1>2, EmptySeq DEF Create, TypeInv
  <2> QED
    BY <1>2, <2>1, <2>2 DEF Create, TypeInv, clocks, installed
<1>3. ASSUME NEW t \in Threads, (\E level \in Levels : Log(t, level)) \/ Stamp(t) \/ Lock(t) \/ WriteFails(t)
      PROVE  TypeInv'
  <2>1. thr' \in [Threads -> Loggers]
    <3>1. ASSUME NEW level \in Levels, Log(t, level)
          PROVE  thr' \in [Threads -> Loggers]
      <4>1. thr[t].id + 1 \in Nat
        BY DEF TypeInv, Loggers
      <4>2. CASE Enabled(level)
        <5>1. PICK p \in ThreadPcs : p = IF logger = "file" THEN "stamp" ELSE "idle"
          BY PcsAre
        <5>2. PICK n \in Nat : n = thr[t].id + 1
          BY <4>1
        <5>3. thr' = [thr EXCEPT ![t].id = n, ![t].pc = p]
          BY <3>1, <4>2, <5>1, <5>2 DEF Log
        <5> QED
          BY <5>3 DEF TypeInv, Loggers
      <4>3. CASE ~Enabled(level)
        BY <3>1, <4>1, <4>3 DEF Log, TypeInv, Loggers
      <4> QED
        BY <4>2, <4>3
    <3>2. ASSUME Stamp(t)
          PROVE  thr' \in [Threads -> Loggers]
      <4>1. wall < start \/ wall - start \in Nat
        BY DEF TypeInv
      <4>2. mono \in Int
        BY DEF TypeInv, Mono0
      <4> QED
        BY <3>2, <4>1, <4>2, PcsAre, ZenonT(30) DEF Stamp, TypeInv, Loggers
    <3>3. ASSUME Lock(t)
          PROVE  thr' \in [Threads -> Loggers]
      BY <3>3, PcsAre, ZenonT(30) DEF Lock, TypeInv, Loggers
    <3>4. ASSUME WriteFails(t)
          PROVE  thr' \in [Threads -> Loggers]
      BY <3>4, PcsAre DEF WriteFails, Returned, TypeInv, Loggers
    <3> QED
      BY <1>3, <3>1, <3>2, <3>3, <3>4
  <2>2. lock' \in Threads \cup {None}
    BY <1>3 DEF Log, Stamp, Lock, WriteFails, TypeInv
  <2> QED
    BY <1>3, <2>1, <2>2 DEF Log, Stamp, Lock, WriteFails, TypeInv, clocks, installed, disk
<1>4. ASSUME NEW t \in Threads, Write(t)
      PROVE  TypeInv'
  <2>1. WritePiece(t) /\ Len(file) <= pos
    BY <1>4 DEF Write, FileInv
  <2>2. thr' \in [Threads -> Loggers]
    <3>1. CASE thr[t].part = 1
      BY <2>1, <3>1, PcsAre DEF WritePiece, TypeInv, Loggers
    <3>2. CASE thr[t].part # 1
      BY <2>1, <3>2, PcsAre DEF WritePiece, Returned, TypeInv, Loggers
    <3> QED
      BY <3>1, <3>2
  <2>4. lock' \in Threads \cup {None} /\ pos' \in Nat
    BY <1>4 DEF Write, WritePiece, TypeInv
  <2>3. file' \in Seq(Pieces)
    BY <2>1, Written
  <2> QED
    BY <1>4, <2>2, <2>3, <2>4 DEF Write, WritePiece, TypeInv, clocks, installed
<1>5. CASE Tick \/ SetClock
  <2>1. wall' \in Int /\ mono' \in Mono0..MaxTime /\ sets' \in 0..MaxSets
    BY <1>5, LoggingAssumption, SMTT(30) DEF Tick, SetClock, TypeInv, Mono0
  <2>2. back' \in BOOLEAN
    BY <1>5 DEF Tick, SetClock, TypeInv
  <2> QED
    BY <1>5, <2>1, <2>2 DEF Tick, SetClock, TypeInv, installed, disk
<1>6. CASE UNCHANGED vars
  BY <1>6 DEF vars, clocks, installed, disk, TypeInv
<1> QED
  BY <1>1, <1>2, <1>3, <1>4, <1>5, <1>6 DEF Next, InitLogging, Logging

LEMMA FileStep == TypeInv /\ FileInv /\ [Next]_vars => FileInv'
<1> SUFFICES ASSUME TypeInv, FileInv, [Next]_vars PROVE FileInv'
  OBVIOUS
<1>0. Len(file) \in Nat /\ pos \in Nat /\ cut \in BOOLEAN /\ Len(<<>>) = 0
  BY LenProperties, EmptySeq DEF TypeInv
<1>1. ASSUME NEW i \in Inits, Now(i) \/ InternalNow(i) \/ InitPanics(i) \/ SetMaxLevel(i)
      PROVE  FileInv'
  BY <1>1 DEF Now, InternalNow, InitPanics, SetMaxLevel, FileInv, installed, disk
<1>2. ASSUME NEW i \in Inits, Create(i)
      PROVE  FileInv'
  <2>1. file' = <<>> /\ Len(file') = 0 /\ cut' = (cut \/ logger = "file") /\ UNCHANGED <<pos, logger, thr>>
    BY <1>0, <1>2 DEF Create, installed
  <2>2. logger # "file" => /\ pos = 0 /\ ~cut'
                           /\ \A t \in Threads : thr[t].pc = "idle"
    BY <2>1 DEF FileInv
  <2>3. Len(file') <= pos' /\ (~cut' => Len(file') = pos')
    <3>1. Len(file') <= pos'
      BY <1>0, <2>1
    <3>2. cut' <=> cut \/ logger = "file"
      BY <2>1
    <3>3. ~cut' => Len(file') = pos'
      BY <2>1, <2>2, <3>2
    <3> QED
      BY <3>1, <3>3
  <2> QED
    BY <2>1, <2>2, <2>3 DEF FileInv
<1>3. ASSUME NEW i \in Inits, SetLogger(i)
      PROVE  FileInv'
  <2>1. CASE logger # None
    BY <1>3, <2>1 DEF SetLogger, FileInv, installed
  <2>2. CASE logger = None
    <3>1. /\ pos' = 0 /\ UNCHANGED <<file, cut, thr>>
          /\ Len(file) = 0 /\ file = <<>> /\ ~cut /\ \A t \in Threads : thr[t].pc = "idle"
      BY <1>0, <1>3, <2>2 DEF SetLogger, FileInv, None
    <3> QED
      BY <3>1 DEF FileInv
  <2> QED
    BY <2>1, <2>2
<1>4. ASSUME NEW t \in Threads, NEW level \in Levels, Log(t, level)
      PROVE  FileInv'
  <2>1. UNCHANGED <<file, pos, cut, logger>>
    BY <1>4 DEF Log, installed, disk
  <2>2. logger # "file" => \A u \in Threads : thr'[u].pc = "idle"
    <3> SUFFICES ASSUME logger # "file", NEW u \in Threads PROVE thr'[u].pc = "idle"
      OBVIOUS
    <3>1. thr[u].pc = "idle"
      BY DEF FileInv
    <3>2. CASE Enabled(level)
      BY <1>4, <3>1, <3>2, ZenonT(30) DEF Log, TypeInv, Loggers
    <3>3. CASE ~Enabled(level)
      BY <1>4, <3>1, <3>3 DEF Log, TypeInv, Loggers
    <3> QED
      BY <3>2, <3>3
  <2> QED
    BY <2>1, <2>2 DEF FileInv
<1>5. ASSUME NEW t \in Threads, Stamp(t) \/ Lock(t) \/ WriteFails(t)
      PROVE  FileInv'
  <2>1. UNCHANGED <<file, pos, cut, logger>> /\ thr[t].pc # "idle"
    BY <1>5 DEF Stamp, Lock, WriteFails, installed, disk
  <2> QED
    BY <2>1 DEF FileInv
<1>6. ASSUME NEW t \in Threads, Write(t)
      PROVE  FileInv'
  <2>1. WritePiece(t) /\ thr[t].pc = "write" /\ UNCHANGED <<logger, cut>>
    BY <1>6 DEF Write, WritePiece, installed
  <2>2. Len(file') = pos + 1 /\ pos' = pos + 1
    BY <2>1, Written DEF FileInv
  <2>3. logger = "file"
    BY <2>1 DEF FileInv
  <2> QED
    BY <1>0, <2>1, <2>2, <2>3 DEF FileInv
<1>7. CASE Tick \/ SetClock \/ UNCHANGED vars
  BY <1>7 DEF Tick, SetClock, vars, installed, disk, FileInv
<1> QED
  BY <1>1, <1>2, <1>3, <1>4, <1>5, <1>6, <1>7 DEF Next, InitLogging, Logging

\* Every variable of Logging keeps its type; the seconds of a stamp are never negative.
THEOREM TypeCorrect == Spec => []TypeOK
<1>1. TypeInv => TypeOK
  <2> SUFFICES ASSUME TypeInv PROVE TypeOK
    OBVIOUS
  <2>1. \A k \in DOMAIN file : file[k].thread \in Threads \cup {None}
    <3>1. DOMAIN file = 1..Len(file) /\ \A k \in 1..Len(file) : file[k] \in Pieces
      BY LenProperties, ElementOfSeq DEF TypeInv
    <3> QED
      BY <3>1 DEF Pieces
  <2> QED
    BY <2>1 DEF TypeInv, TypeOK, Calls, Loggers, CallPcs, ThreadPcs, Mono0
<1> QED
  BY <1>1, InitType, StepType, FileStep, PTL DEF Spec

-----------------------------------------------------------------------------
(* What a step of a thread does to its record, field by field.             *)

Others(t) == \A u \in Threads \ {t} : thr'[u] = thr[u]

LEMMA LogFields ==
  ASSUME TypeInv, NEW t \in Threads, NEW level \in Levels, Log(t, level)
  PROVE  /\ thr[t].pc = "idle" /\ thr'[t].pc \in {"idle", "stamp"} /\ thr'[t].id = thr[t].id + 1
         /\ thr'[t].pc = "stamp" => logger = "file"
         /\ Others(t) /\ UNCHANGED <<lock, file, pos, cut>>
<1>1. CASE Enabled(level)
  <2>1. thr' = [thr EXCEPT ![t].id = @ + 1, ![t].pc = IF logger = "file" THEN "stamp" ELSE "idle"]
    BY <1>1 DEF Log
  <2>2. /\ thr'[t].pc = IF logger = "file" THEN "stamp" ELSE "idle"
        /\ thr'[t].id = thr[t].id + 1 /\ Others(t)
    BY <2>1 DEF TypeInv, Loggers, Others
  <2> QED
    BY <2>2 DEF Log, disk
<1>2. CASE ~Enabled(level)
  <2>1. thr' = [thr EXCEPT ![t].id = @ + 1]
    BY <1>2 DEF Log
  <2>2. thr'[t].pc = thr[t].pc /\ thr'[t].id = thr[t].id + 1 /\ Others(t)
    BY <2>1 DEF TypeInv, Loggers, Others
  <2> QED
    BY <2>2 DEF Log, disk
<1> QED
  BY <1>1, <1>2

LEMMA StampFields ==
  ASSUME TypeInv, NEW t \in Threads, Stamp(t)
  PROVE  /\ thr[t].pc = "stamp" /\ thr'[t].id = thr[t].id
         /\ thr'[t].pc \in {"lock", "panicked"}
         /\ thr'[t].pc = "lock" <=> ~(wall < start)
         /\ thr'[t].pc = "lock" => thr'[t].stamp = wall - start /\ thr'[t].at = mono
         /\ Others(t) /\ UNCHANGED <<lock, file, pos, cut>>
<1>1. CASE wall < start
  <2>1. thr' = [thr EXCEPT ![t].pc = "panicked"]
    BY <1>1 DEF Stamp
  <2>2. thr'[t].pc = "panicked" /\ thr'[t].id = thr[t].id /\ Others(t)
    BY <2>1 DEF TypeInv, Loggers, Others
  <2> QED
    BY <1>1, <2>2 DEF Stamp, disk
<1>2. CASE ~(wall < start)
  <2>1. thr' = [thr EXCEPT ![t].pc = "lock", ![t].stamp = wall - start, ![t].at = mono]
    BY <1>2 DEF Stamp
  <2>2. /\ thr'[t].pc = "lock" /\ thr'[t].id = thr[t].id /\ Others(t)
        /\ thr'[t].stamp = wall - start /\ thr'[t].at = mono
    BY <2>1 DEF TypeInv, Loggers, Others
  <2> QED
    BY <1>2, <2>2 DEF Stamp, disk
<1> QED
  BY <1>1, <1>2

LEMMA LockFields ==
  ASSUME TypeInv, NEW t \in Threads, Lock(t)
  PROVE  /\ thr[t].pc = "lock" /\ thr'[t].pc = "write" /\ thr'[t].part = 1 /\ thr'[t].id = thr[t].id
         /\ thr'[t].stamp = thr[t].stamp /\ thr'[t].at = thr[t].at
         /\ lock = None /\ lock' = t
         /\ Others(t) /\ UNCHANGED <<file, pos, cut>>
BY DEF Lock, Acquire, TypeInv, Loggers, Others, disk

LEMMA WriteFields ==
  ASSUME TypeInv, NEW t \in Threads, Write(t)
  PROVE  /\ thr[t].pc = "write" /\ WritePiece(t) /\ thr'[t].id = thr[t].id /\ Others(t) /\ UNCHANGED cut
         /\ thr[t].part = 1 => /\ thr'[t].pc = "write" /\ thr'[t].part = 2 /\ UNCHANGED lock
                               /\ thr'[t].stamp = thr[t].stamp /\ thr'[t].at = thr[t].at
         /\ thr[t].part # 1 => thr'[t].pc = "idle" /\ lock' = None
<1>1. CASE thr[t].part = 1
  <2>1. thr' = [thr EXCEPT ![t].part = 2]
    BY <1>1 DEF Write, WritePiece
  <2>2. /\ thr'[t].pc = thr[t].pc /\ thr'[t].part = 2 /\ thr'[t].id = thr[t].id /\ Others(t)
        /\ thr'[t].stamp = thr[t].stamp /\ thr'[t].at = thr[t].at
    BY <2>1 DEF TypeInv, Loggers, Others
  <2> QED
    BY <1>1, <2>2 DEF Write, WritePiece
<1>2. CASE thr[t].part # 1
  <2>1. thr' = [thr EXCEPT ![t] = [pc |-> "idle", id |-> thr[t].id, stamp |-> 0, at |-> 0, part |-> 1]]
    BY <1>2 DEF Write, WritePiece, Returned
  <2>2. thr'[t].pc = "idle" /\ thr'[t].id = thr[t].id /\ Others(t)
    BY <2>1 DEF TypeInv, Others
  <2> QED
    BY <1>2, <2>2 DEF Write, WritePiece
<1> QED
  BY <1>1, <1>2

LEMMA WriteFailsFields ==
  ASSUME TypeInv, NEW t \in Threads, WriteFails(t)
  PROVE  /\ thr[t].pc = "write" /\ thr'[t].pc = "idle" /\ thr'[t].id = thr[t].id /\ lock' = None
         /\ Others(t) /\ UNCHANGED <<file, pos, cut>>
<1>1. thr' = [thr EXCEPT ![t] = [pc |-> "idle", id |-> thr[t].id, stamp |-> 0, at |-> 0, part |-> 1]]
  BY DEF WriteFails, Returned
<1>2. thr'[t].pc = "idle" /\ thr'[t].id = thr[t].id /\ Others(t)
  BY <1>1 DEF TypeInv, Others
<1> QED
  BY <1>2 DEF WriteFails, disk

\* No step of initialize_logging or of a clock changes a thread.
LEMMA ThreadsQuiet ==
  ASSUME (\E i \in Inits : InitLogging(i)) \/ Tick \/ SetClock \/ UNCHANGED vars
  PROVE  UNCHANGED <<thr, lock>>
BY DEF InitLogging, Now, InternalNow, Create, InitPanics, SetLogger, SetMaxLevel, Tick, SetClock, vars

-----------------------------------------------------------------------------
(* The lock keeps the pieces of a record together.                         *)

\* A thread writes while it has the lock, and no other.
LockInv == \A t \in Threads : thr[t].pc = "write" <=> lock = t

\* The thread that has written the first piece of a record finds it at the end of the
\* file, unless the file was created again meanwhile.
HalfWritten ==
  \A t \in Threads : thr[t].pc = "write" /\ thr[t].part = 2 =>
    /\ pos >= 1
    /\ Len(file) = pos => file[pos] = [thread |-> t, id |-> thr[t].id, part |-> 1]

LEMMA LockStep == TypeInv /\ LockInv /\ [Next]_vars => LockInv'
<1> SUFFICES ASSUME TypeInv, LockInv, [Next]_vars PROVE LockInv'
  OBVIOUS
<1> USE DEF LockInv, Others
<1>0. \A t \in Threads : None # t
  BY LoggingAssumption
<1>1. ASSUME NEW t \in Threads, NEW level \in Levels, Log(t, level) PROVE LockInv'
  BY <1>1, LogFields
<1>2. ASSUME NEW t \in Threads, Stamp(t) PROVE LockInv'
  BY <1>2, StampFields
<1>3. ASSUME NEW t \in Threads, Lock(t) PROVE LockInv'
  BY <1>0, <1>3, LockFields
<1>4. ASSUME NEW t \in Threads, Write(t) PROVE LockInv'
  BY <1>0, <1>4, WriteFields
<1>5. ASSUME NEW t \in Threads, WriteFails(t) PROVE LockInv'
  BY <1>0, <1>5, WriteFailsFields
<1>6. CASE (\E i \in Inits : InitLogging(i)) \/ Tick \/ SetClock \/ UNCHANGED vars
  BY <1>6, ThreadsQuiet
<1> QED
  BY <1>1, <1>2, <1>3, <1>4, <1>5, <1>6 DEF Next, Logging

\* The steps that neither touch the file nor put a thread behind a first piece.
LinesQuiet ==
  /\ UNCHANGED <<file, cut>>
  /\ UNCHANGED pos \/ logger # "file"
  /\ \A t \in Threads : thr'[t].pc = "write" /\ thr'[t].part = 2 => thr'[t] = thr[t]

LEMMA LinesCases ==
  ASSUME TypeInv, [Next]_vars
  PROVE  \/ LinesQuiet
         \/ \E i \in Inits : Create(i)
         \/ \E t \in Threads : Write(t)
<1>1. ASSUME NEW i \in Inits, Now(i) \/ InternalNow(i) \/ InitPanics(i) \/ SetLogger(i) \/ SetMaxLevel(i)
      PROVE  LinesQuiet
  <2>1. UNCHANGED <<file, cut, thr>> /\ (UNCHANGED pos \/ logger # "file")
    BY <1>1 DEF Now, InternalNow, InitPanics, SetLogger, SetMaxLevel, disk, None
  <2> QED
    BY <2>1 DEF LinesQuiet
<1>2. ASSUME NEW t \in Threads, NEW level \in Levels, Log(t, level)
      PROVE  LinesQuiet
  BY <1>2, LogFields DEF LinesQuiet, Others
<1>3. ASSUME NEW t \in Threads, Stamp(t)
      PROVE  LinesQuiet
  BY <1>3, StampFields DEF LinesQuiet, Others
<1>4. ASSUME NEW t \in Threads, Lock(t)
      PROVE  LinesQuiet
  BY <1>4, LockFields DEF LinesQuiet, Others
<1>5. ASSUME NEW t \in Threads, WriteFails(t)
      PROVE  LinesQuiet
  BY <1>5, WriteFailsFields DEF LinesQuiet, Others
<1>6. CASE Tick \/ SetClock \/ UNCHANGED vars
  <2>1. UNCHANGED <<file, cut, pos, thr>>
    BY <1>6 DEF Tick, SetClock, vars, disk
  <2> QED
    BY <2>1 DEF LinesQuiet
<1> QED
  BY <1>1, <1>2, <1>3, <1>4, <1>5, <1>6 DEF Next, InitLogging, Logging

LEMMA LinesStep ==
  TypeInv /\ FileInv /\ LockInv /\ HalfWritten /\ LinesWhole /\ [Next]_vars => HalfWritten' /\ LinesWhole'
<1> SUFFICES ASSUME TypeInv, FileInv, LockInv, HalfWritten, LinesWhole, [Next]_vars
             PROVE  HalfWritten' /\ LinesWhole'
  OBVIOUS
<1>0. /\ file \in Seq(Pieces) /\ Len(file) \in Nat /\ pos \in Nat /\ Len(file) <= pos
      /\ DOMAIN file = 1..Len(file) /\ cut \in BOOLEAN /\ (~cut => Len(file) = pos)
  BY LenProperties DEF TypeInv, FileInv
<1> DEFINE n == Len(file)
<1>9. n \in Nat /\ pos \in Nat /\ n <= pos
  BY <1>0
<1> HIDE DEF n
<1>1. CASE LinesQuiet
  <2>1. LinesWhole'
    BY <1>1 DEF LinesQuiet, LinesWhole
  <2>2. HalfWritten'
    <3> SUFFICES ASSUME NEW t \in Threads, thr'[t].pc = "write", thr'[t].part = 2
                 PROVE  /\ pos' >= 1
                        /\ Len(file') = pos' => file'[pos'] = [thread |-> t, id |-> thr'[t].id, part |-> 1]
      BY DEF HalfWritten
    <3>1. thr'[t] = thr[t] /\ file' = file
      BY <1>1 DEF LinesQuiet
    <3>2. logger = "file"
      BY <3>1 DEF FileInv
    <3>3. pos' = pos
      BY <1>1, <3>2 DEF LinesQuiet
    <3> QED
      BY <3>1, <3>3 DEF HalfWritten
  <2> QED
    BY <2>1, <2>2
<1>2. ASSUME NEW i \in Inits, Create(i)
      PROVE  HalfWritten' /\ LinesWhole'
  <2>1. file' = <<>> /\ UNCHANGED <<thr, pos>> /\ Len(<<>>) = 0 /\ DOMAIN <<>> = 1..0
    BY <1>2, EmptySeq DEF Create
  <2>2. LinesWhole'
    BY <2>1 DEF LinesWhole
  <2>3. HalfWritten'
    <3> SUFFICES ASSUME NEW t \in Threads, thr[t].pc = "write", thr[t].part = 2
                 PROVE  pos >= 1 /\ Len(<<>>) # pos
      BY <2>1 DEF HalfWritten
    <3>1. pos >= 1
      BY DEF HalfWritten
    <3> QED
      BY <2>1, <3>1
  <2> QED
    BY <2>2, <2>3
<1>3. ASSUME NEW t \in Threads, Write(t)
      PROVE  HalfWritten' /\ LinesWhole'
  <2> DEFINE piece == [thread |-> t, id |-> thr[t].id, part |-> thr[t].part]
  <2>1. /\ file' \in Seq(Pieces) /\ Len(file') = pos + 1 /\ pos' = pos + 1
        /\ \A k \in 1..Len(file) : file'[k] = file[k]
        /\ \A k \in Len(file) + 1..pos : file'[k] = Hole
        /\ file'[pos + 1] = piece /\ cut' = cut /\ DOMAIN file' = 1..pos + 1
    BY <1>0, <1>3, Written, WriteFields, LenProperties
  <2>2. HalfWritten'
    <3> SUFFICES ASSUME NEW u \in Threads, thr'[u].pc = "write", thr'[u].part = 2
                 PROVE  /\ pos' >= 1
                        /\ Len(file') = pos' => file'[pos'] = [thread |-> u, id |-> thr'[u].id, part |-> 1]
      BY DEF HalfWritten
    <3>1. u = t
      <4>1. u # t => thr[u].pc = "write" /\ thr[t].pc = "write"
        BY <1>3, WriteFields DEF Others
      <4> QED
        BY <4>1 DEF LockInv
    <3>2. thr[t].part = 1 /\ thr'[t].id = thr[t].id
      BY <1>3, <3>1, WriteFields
    <3> QED
      <4>1. pos' >= 1
        BY <1>9, <2>1
      <4>2. file'[pos'] = [thread |-> u, id |-> thr'[u].id, part |-> 1]
        BY <2>1, <3>1, <3>2
      <4> QED
        BY <4>1, <4>2
  <2>3. LinesWhole'
    <3> SUFFICES ASSUME NEW k \in 1..pos + 1, file'[k].part = 2
                 PROVE  /\ k > 1
                        /\ file'[k - 1] = [file'[k] EXCEPT !.part = 1] \/ (cut /\ file'[k - 1] = Hole)
      BY <2>1 DEF LinesWhole
    <3>1. CASE k \in 1..Len(file)
      <4>1. /\ file'[k] = file[k] /\ k > 1
            /\ file[k - 1] = [file[k] EXCEPT !.part = 1] \/ (cut /\ file[k - 1] = Hole)
        BY <1>0, <2>1, <3>1 DEF LinesWhole
      <4>2. k - 1 \in 1..Len(file)
        BY <1>0, <3>1, <4>1
      <4> QED
        BY <2>1, <4>1, <4>2
    <3>2. CASE k \in Len(file) + 1..pos
      BY <2>1, <3>2 DEF Hole
    <3>3. CASE k = pos + 1
      <4>1. thr[t].pc = "write" /\ thr[t].part = 2
        BY <1>3, <2>1, <3>3, WriteFields
      <4>2. pos >= 1
        BY <4>1 DEF HalfWritten
      <4>6. Len(file) = pos => file[pos] = [thread |-> t, id |-> thr[t].id, part |-> 1]
        BY <4>1 DEF HalfWritten
      <4>7. k > 1 /\ k - 1 = pos
        BY <1>9, <3>3, <4>2
      <4>3. file'[k] = [thread |-> t, id |-> thr[t].id, part |-> 2]
        BY <2>1, <3>3, <4>1
      <4>4. CASE Len(file) = pos
        <5>1. file'[pos] = [thread |-> t, id |-> thr[t].id, part |-> 1] /\ k - 1 = pos
          BY <1>9, <2>1, <4>2, <4>4, <4>6, <4>7 DEF n
        <5>2. [file'[k] EXCEPT !.part = 1] = [thread |-> t, id |-> thr[t].id, part |-> 1]
          BY <4>3
        <5> QED
          BY <4>7, <5>1, <5>2
      <4>5. CASE Len(file) # pos
        <5>1. pos \in n + 1..pos
          BY <1>9, <4>5 DEF n
        <5>2. cut
          BY <1>0, <4>5
        <5> QED
          BY <2>1, <4>7, <5>1, <5>2 DEF n
      <4> QED
        BY <4>4, <4>5
    <3> QED
      BY <1>0, <3>1, <3>2, <3>3
  <2> QED
    BY <2>2, <2>3
<1> QED
  BY <1>1, <1>2, <1>3, LinesCases

\* However many threads race for the file, the pieces of a record stay together
\* (logging.rs 55, 101).
THEOREM RecordsStayWhole == Spec => []LinesWhole
<1>1. Init => LockInv /\ HalfWritten /\ LinesWhole
  <2> SUFFICES ASSUME Init PROVE LockInv /\ HalfWritten /\ LinesWhole
    OBVIOUS
  <2>1. LockInv
    BY LoggingAssumption DEF Init, LockInv
  <2>2. HalfWritten
    BY DEF Init, HalfWritten
  <2>3. LinesWhole
    BY DEF Init, LinesWhole
  <2> QED
    BY <2>1, <2>2, <2>3
<1> QED
  BY <1>1, InitType, StepType, FileStep, LockStep, LinesStep, PTL DEF Spec

-----------------------------------------------------------------------------
(* Who installs the logger.                                                *)

Winner(i) == init[i].pc \in {"level", "ok"}

\* What a step of initialize_logging does to its record, field by field.
LEMMA InitFields ==
  ASSUME TypeInv, NEW i \in Inits, InitLogging(i)
  PROVE  /\ \A j \in Inits \ {i} : init'[j] = init[j]
         /\ Winner(i) => Winner(i)' /\ init'[i].start = init[i].start /\ UNCHANGED logger
         /\ ~Winner(i) /\ Winner(i)' => logger = None /\ logger' # None /\ init'[i].start = start'
         /\ logger' = logger \/ (~Winner(i) /\ Winner(i)' /\ logger = None)
         /\ UNCHANGED start \/ logger = None
         /\ init'[i].pc = "err" /\ init[i].pc # "err" => logger # None
         /\ \/ init'[i].start = init[i].start \/ init'[i].start = 0
            \/ init[i].pc = "internal" /\ init'[i].start = init[i].now - mono
         /\ init'[i].pc = "internal" => init'[i].now = wall
<1> USE DEF Winner
<1>1. CASE Now(i)
  <2>1. CASE option = <<>>
    <3>1. init' = [init EXCEPT ![i].pc = "set"] /\ init[i].pc = "path"
      BY <1>1, <2>1 DEF Now
    <3> QED
      BY <1>1, <3>1 DEF Now, TypeInv, Calls, installed
  <2>2. CASE option # <<>>
    <3>1. init' = [init EXCEPT ![i].pc = "internal", ![i].now = wall] /\ init[i].pc = "path"
      BY <1>1, <2>2 DEF Now
    <3> QED
      BY <1>1, <3>1 DEF Now, TypeInv, Calls, installed
  <2> QED
    BY <2>1, <2>2
<1>2. CASE InternalNow(i)
  <2>1. init' = [init EXCEPT ![i] = [pc |-> "create", now |-> 0, start |-> init[i].now - mono]] /\ init[i].pc = "internal"
    BY <1>2 DEF InternalNow, StartTime
  <2> QED
    BY <1>2, <2>1 DEF InternalNow, TypeInv, installed
<1>3. CASE Create(i)
  <2>1. init' = [init EXCEPT ![i].pc = "set"] /\ init[i].pc = "create"
    BY <1>3 DEF Create, Goto
  <2> QED
    BY <1>3, <2>1 DEF Create, TypeInv, Calls, installed
<1>4. CASE InitPanics(i)
  <2>1. /\ init' = [init EXCEPT ![i] = [pc |-> "panicked", now |-> 0, start |-> 0]]
        /\ init[i].pc \in {"path", "internal", "create"}
    BY <1>4 DEF InitPanics
  <2> QED
    BY <1>4, <2>1 DEF InitPanics, TypeInv, installed
<1>5. CASE SetLogger(i)
  <2>1. CASE logger # None
    <3>1. init' = [init EXCEPT ![i].pc = "err", ![i].start = 0] /\ init[i].pc = "set"
      BY <1>5, <2>1 DEF SetLogger
    <3> QED
      BY <1>5, <2>1, <3>1 DEF SetLogger, TypeInv, Calls, installed
  <2>2. CASE logger = None
    <3>1. init' = [init EXCEPT ![i].pc = "level"] /\ init[i].pc = "set"
      BY <1>5, <2>2 DEF SetLogger, Goto
    <3>2. logger' # None /\ start' = init[i].start
      BY <1>5, <2>2 DEF SetLogger, None
    <3> QED
      BY <2>2, <3>1, <3>2 DEF TypeInv, Calls
  <2> QED
    BY <2>1, <2>2
<1>6. CASE SetMaxLevel(i)
  <2>1. init' = [init EXCEPT ![i].pc = "ok"] /\ init[i].pc = "level"
    BY <1>6 DEF SetMaxLevel, Goto
  <2> QED
    BY <1>6, <2>1 DEF SetMaxLevel, TypeInv, Calls
<1> QED
  BY <1>1, <1>2, <1>3, <1>4, <1>5, <1>6 DEF InitLogging

\* The logger that is installed is the one of the only call that won, with its start time.
InstalledInv ==
  /\ \A i, j \in Inits : Winner(i) /\ Winner(j) => i = j
  /\ logger = None => \A i \in Inits : ~Winner(i) /\ init[i].pc # "err"
  /\ logger # None => \E i \in Inits : Winner(i) /\ start = init[i].start

LEMMA InstalledStep == TypeInv /\ InstalledInv /\ [Next]_vars => InstalledInv'
<1> SUFFICES ASSUME TypeInv, InstalledInv, [Next]_vars PROVE InstalledInv'
  OBVIOUS
<1>1. ASSUME NEW i \in Inits, InitLogging(i)
      PROVE  InstalledInv'
  <2>1. \A j \in Inits \ {i} : init'[j] = init[j] /\ (Winner(j)' <=> Winner(j))
    BY <1>1, InitFields DEF Winner
  <2>2. CASE ~Winner(i) /\ Winner(i)'
    <3>1. logger = None /\ logger' # None /\ init'[i].start = start'
      BY <1>1, <2>2, InitFields
    <3>2. \A j \in Inits : Winner(j)' => j = i
      BY <2>1, <3>1 DEF InstalledInv
    <3> QED
      BY <2>2, <3>1, <3>2 DEF InstalledInv
  <2>3. CASE Winner(i) \/ ~Winner(i)'
    <3>1. logger' = logger /\ (Winner(i)' <=> Winner(i)) /\ (Winner(i) => init'[i].start = init[i].start)
      BY <1>1, <2>3, InitFields
    <3>2. init'[i].pc = "err" => init[i].pc = "err" \/ logger # None
      BY <1>1, InitFields
    <3>3. \A j \in Inits : Winner(j)' <=> Winner(j)
      BY <2>1, <3>1
    <3>4. CASE logger = None
      BY <2>1, <3>1, <3>2, <3>3, <3>4 DEF InstalledInv
    <3>5. CASE logger # None
      <4>1. PICK w \in Inits : Winner(w) /\ start = init[w].start
        BY <3>5 DEF InstalledInv
      <4>2. start' = start /\ init'[w].start = init[w].start
        BY <1>1, <2>1, <3>1, <3>5, <4>1, InitFields
      <4> QED
        BY <3>1, <3>3, <3>5, <4>1, <4>2 DEF InstalledInv
    <3> QED
      BY <3>4, <3>5
  <2> QED
    BY <2>2, <2>3
<1>2. CASE UNCHANGED <<init, logger, start>>
  BY <1>2 DEF InstalledInv, Winner
<1> QED
  BY <1>1, <1>2, LoggerQuiet DEF Next

\* However many initialize_logging calls race, at most one installs its logger, and none
\* fails before one did (lib.rs 958).
THEOREM LoggerIsOne == Spec => []OneLogger
<1>1. Init => InstalledInv
  BY DEF Init, InstalledInv, Winner
<1>2. InstalledInv => OneLogger
  <2> SUFFICES ASSUME InstalledInv PROVE OneLogger
    OBVIOUS
  <2>1. \A i, j \in {k \in Inits : init[k].pc \in {"level", "ok"}} : i = j
    BY DEF InstalledInv, Winner
  <2>2. (\E i \in Inits : init[i].pc = "err") => {k \in Inits : init[k].pc \in {"level", "ok"}} # {}
    BY DEF InstalledInv, Winner
  <2> QED
    BY <2>1, <2>2 DEF OneLogger
<1> QED
  BY <1>1, <1>2, InitType, StepType, FileStep, InstalledStep, PTL DEF Spec

-----------------------------------------------------------------------------
(* The two timelines.  The clocks differ by what they differed by at first,  *)
(* and a start time that is computed from a time read of the one before the *)
(* other is never too late.                                                  *)

Apart == Wall0 - Mono0

ClockInv == sets = 0 =>
  /\ wall = mono + Apart
  /\ \A i \in Inits : init[i].start <= Apart /\ (init[i].pc = "internal" => init[i].now <= wall)

Aligned(t) ==
  thr[t].pc \in {"lock", "write"} =>
    \E i \in Inits : /\ Winner(i)
                     /\ thr[t].stamp - thr[t].at = Apart - init[i].start
                     /\ thr[t].stamp >= thr[t].at

StampInv == sets = 0 => \A t \in Threads : Aligned(t)

\* No step takes the number of times the clock was set back.
LEMMA SetsGrow ==
  ASSUME TypeInv, [Next]_vars, sets' = 0
  PROVE  sets = 0 /\ ~SetClock
<1>1. ~SetClock
  BY DEF SetClock, TypeInv
<1>2. sets' = sets
  BY <1>1 DEF Next, InitLogging, Now, InternalNow, Create, InitPanics, SetLogger, SetMaxLevel, Logging, Stamp, Lock,
     Write, WritePiece, WriteFails, Log, Tick, vars, clocks
<1> QED
  BY <1>1, <1>2

\* Only the clocks change the clocks.
LEMMA ClocksQuiet ==
  ASSUME [Next]_vars, ~SetClock
  PROVE  UNCHANGED <<wall, mono>> \/ (Tick /\ UNCHANGED <<init, thr, start, logger>>)
BY DEF Next, InitLogging, Now, InternalNow, Create, InitPanics, SetLogger, SetMaxLevel, Logging, Stamp, Lock,
       Write, WritePiece, WriteFails, Log, Tick, vars, clocks, installed

LEMMA ClockStep == TypeInv /\ ClockInv /\ [Next]_vars => ClockInv'
<1> SUFFICES ASSUME TypeInv, ClockInv, [Next]_vars, sets' = 0
             PROVE  /\ wall' = mono' + Apart
                    /\ \A i \in Inits : /\ init'[i].start <= Apart
                                        /\ init'[i].pc = "internal" => init'[i].now <= wall'
  BY DEF ClockInv, Apart
<1>1. /\ wall = mono + Apart /\ wall \in Int /\ mono \in Int /\ Apart \in Nat
      /\ \A i \in Inits : /\ init[i].start <= Apart /\ init[i].start \in Int /\ init[i].now \in Int
                          /\ init[i].pc = "internal" => init[i].now <= wall
  BY SetsGrow DEF ClockInv, TypeInv, Calls, Mono0, Wall0, Apart
<1>2. CASE Tick
  <2>1. wall' = wall + 1 /\ mono' = mono + 1 /\ init' = init
    BY <1>2 DEF Tick
  <2>2. \A i \in Inits : init[i].pc = "internal" => init[i].now <= wall + 1
    BY <1>1
  <2> QED
    BY <1>1, <2>1, <2>2
<1>3. CASE UNCHANGED <<wall, mono>>
  <2>1. ASSUME NEW i \in Inits, InitLogging(i), NEW j \in Inits
        PROVE  init'[j].start <= Apart /\ (init'[j].pc = "internal" => init'[j].now <= wall)
    <3>1. CASE j # i
      BY <1>1, <2>1, <3>1, InitFields
    <3>2. CASE j = i
      <4>1. \/ init'[i].start = init[i].start \/ init'[i].start = 0
            \/ init[i].pc = "internal" /\ init'[i].start = init[i].now - mono
        BY <2>1, InitFields
      <4>2. init'[i].start <= Apart
        BY <1>1, <4>1
      <4>3. init'[i].pc = "internal" => init'[i].now <= wall
        BY <1>1, <2>1, InitFields
      <4> QED
        BY <3>2, <4>2, <4>3
    <3> QED
      BY <3>1, <3>2
  <2>2. init' = init \/ \E i \in Inits : InitLogging(i)
    BY LoggerQuiet DEF Next
  <2> QED
    BY <1>1, <1>3, <2>1, <2>2
<1> QED
  BY <1>2, <1>3, ClocksQuiet, SetsGrow

LEMMA StampStep ==
  TypeInv /\ FileInv /\ InstalledInv /\ ClockInv /\ StampInv /\ [Next]_vars => StampInv'
<1> SUFFICES ASSUME TypeInv, FileInv, InstalledInv, ClockInv, StampInv, [Next]_vars, sets' = 0,
                    NEW t \in Threads
             PROVE  Aligned(t)'
  BY DEF StampInv
<1>1. sets = 0 /\ ~SetClock /\ Aligned(t)
  BY SetsGrow DEF StampInv
<1>2. \A i \in Inits : Winner(i) => Winner(i)' /\ init'[i].start = init[i].start
  <2>1. ASSUME NEW j \in Inits, InitLogging(j), NEW i \in Inits, Winner(i)
        PROVE  Winner(i)' /\ init'[i].start = init[i].start
    BY <2>1, InitFields DEF Winner
  <2>2. init' = init \/ \E i \in Inits : InitLogging(i)
    BY LoggerQuiet DEF Next
  <2> QED
    BY <2>1, <2>2 DEF Winner
<1>3. ASSUME thr'[t].pc = thr[t].pc \/ (thr'[t].pc \in {"lock", "write"} /\ thr[t].pc \in {"lock", "write"}),
             thr'[t].stamp = thr[t].stamp, thr'[t].at = thr[t].at
      PROVE  Aligned(t)'
  <2>2. ASSUME thr'[t].pc \in {"lock", "write"}
        PROVE  \E i \in Inits : /\ Winner(i)' /\ thr'[t].stamp - thr'[t].at = Apart - init'[i].start
                                /\ thr'[t].stamp >= thr'[t].at
    <3>1. PICK i \in Inits : /\ Winner(i) /\ thr[t].stamp - thr[t].at = Apart - init[i].start
                             /\ thr[t].stamp >= thr[t].at
      BY <1>1, <1>3, <2>2 DEF Aligned
    <3>2. Winner(i)' /\ init'[i].start = init[i].start
      BY <1>2, <3>1
    <3> QED
      BY <1>3, <3>1, <3>2
  <2> QED
    BY <2>2 DEF Aligned, Apart
<1>4. ASSUME thr'[t].pc \in {"idle", "stamp"}
      PROVE  Aligned(t)'
  BY <1>4 DEF Aligned
<1>5. ASSUME NEW u \in Threads, Logging(u) \/ \E level \in Levels : Log(u, level), u # t
      PROVE  Aligned(t)'
  <2>1. Others(u)
    BY <1>5, LogFields, StampFields, LockFields, WriteFields, WriteFailsFields DEF Logging
  <2> QED
    BY <1>3, <1>5, <2>1 DEF Others
<1>6. ASSUME NEW level \in Levels, Log(t, level)
      PROVE  Aligned(t)'
  BY <1>4, <1>6, LogFields
<1>7. CASE Stamp(t)
  <2>1. logger = "file"
    BY <1>7, StampFields DEF FileInv
  <2>2. PICK i \in Inits : Winner(i) /\ start = init[i].start
    BY <2>1 DEF InstalledInv, None
  <2>3. wall = mono + Apart /\ init[i].start <= Apart /\ mono \in Nat /\ start \in Int /\ Apart \in Int
    BY <1>1 DEF ClockInv, TypeInv, Mono0, Wall0, Apart
  <2>4. ~(wall < start)
    BY <2>2, <2>3
  <2>5. thr'[t].pc = "lock" /\ thr'[t].stamp = wall - start /\ thr'[t].at = mono
    BY <1>7, <2>4, StampFields
  <2>6. Winner(i)' /\ init'[i].start = start
    BY <1>2, <2>2
  <2>7. (wall - start) - mono = Apart - start /\ wall - start >= mono
    BY <2>2, <2>3
  <2> QED
    BY <2>5, <2>6, <2>7 DEF Aligned, Apart
<1>8. CASE Lock(t)
  BY <1>3, <1>8, LockFields
<1>9. CASE Write(t)
  <2>1. CASE thr[t].part = 1
    BY <1>3, <1>9, <2>1, WriteFields
  <2>2. CASE thr[t].part # 1
    BY <1>4, <1>9, <2>2, WriteFields
  <2> QED
    BY <2>1, <2>2
<1>10. CASE WriteFails(t)
  BY <1>4, <1>10, WriteFailsFields
<1>11. CASE (\E i \in Inits : InitLogging(i)) \/ Tick \/ SetClock \/ UNCHANGED vars
  BY <1>3, <1>11, ThreadsQuiet
<1> QED
  BY <1>5, <1>6, <1>7, <1>8, <1>9, <1>10, <1>11 DEF Next, Logging

\* While nobody sets the clock, all stamps keep one distance to mpv's internal time and
\* never fall behind it (logging.rs 81-84 and 102).
THEOREM TimelinesAligned == Spec => []StampsAligned
<1>1. Init => ClockInv /\ StampInv
  BY DEF Init, ClockInv, StampInv, Aligned, Apart, Wall0, Mono0
<1>2. Init => InstalledInv
  BY DEF Init, InstalledInv, Winner
<1>3. StampInv => StampsAligned
  BY DEF StampInv, StampsAligned, Aligned, Apart, Winner
<1> QED
  BY <1>1, <1>2, <1>3, InitType, StepType, FileStep, InstalledStep, ClockStep, StampStep, PTL DEF Spec

-----------------------------------------------------------------------------
(* A clock that is only ever set forward.  A start time is a time that was  *)
(* read, less what mpv's clock shows, so it lies in the past and stays there.*)

BackInv == ~back =>
  /\ 0 <= wall /\ start <= wall
  /\ \A i \in Inits : init[i].start <= wall /\ (init[i].pc = "internal" => init[i].now <= wall)
  /\ \A t \in Threads : thr[t].pc # "panicked"

\* While the clock was not set back it has not gone back.
LEMMA NotBack ==
  ASSUME TypeInv, [Next]_vars, ~back'
  PROVE  ~back /\ wall' \in Int /\ wall' >= wall
<1>1. CASE SetClock
  <2>1. PICK d \in {-2, 2} : wall' = wall + d /\ back' = (back \/ d < 0)
    BY <1>1 DEF SetClock
  <2>2. ~back /\ ~(d < 0)
    BY <2>1
  <2>3. d = 2
    BY <2>1, <2>2
  <2> QED
    BY <2>1, <2>2, <2>3 DEF TypeInv
<1>2. CASE Tick
  BY <1>2 DEF Tick, TypeInv
<1>3. CASE ~SetClock /\ ~Tick
  <2>1. UNCHANGED <<wall, back>>
    BY <1>3 DEF Next, InitLogging, Now, InternalNow, Create, InitPanics, SetLogger, SetMaxLevel, Logging, Stamp,
       Lock, Write, WritePiece, WriteFails, Log, vars, clocks
  <2> QED
    BY <2>1 DEF TypeInv
<1> QED
  BY <1>1, <1>2, <1>3

LEMMA BackStep == TypeInv /\ BackInv /\ [Next]_vars => BackInv'
<1> DEFINE Past == /\ 0 <= wall' /\ start' <= wall'
                   /\ \A i \in Inits : /\ init'[i].start <= wall'
                                       /\ init'[i].pc = "internal" => init'[i].now <= wall'
           Calm == \A t \in Threads : thr'[t].pc # "panicked"
<1> SUFFICES ASSUME TypeInv, BackInv, [Next]_vars, ~back'
             PROVE  Past /\ Calm
  BY DEF BackInv
<1>0. /\ wall \in Int /\ wall' \in Int /\ mono \in Nat /\ start \in Int /\ wall' >= wall
      /\ \A i \in Inits : init[i].start \in Int /\ init[i].now \in Int
  BY NotBack DEF TypeInv, Calls, Mono0
<1>1. /\ 0 <= wall /\ start <= wall
      /\ \A i \in Inits : init[i].start <= wall /\ (init[i].pc = "internal" => init[i].now <= wall)
      /\ \A t \in Threads : thr[t].pc # "panicked"
  BY NotBack DEF BackInv
<1>2. CASE \/ \E t \in Threads : Logging(t) \/ \E level \in Levels : Log(t, level)
           \/ Tick \/ SetClock \/ UNCHANGED vars
  <2>1. UNCHANGED <<init, start>>
    BY <1>2, LoggerQuiet
  <2>2. Past
    BY <1>0, <1>1, <2>1
  <2>3. ASSUME Tick \/ SetClock \/ UNCHANGED vars
        PROVE  Calm
    BY <1>1, <2>3 DEF Tick, SetClock, vars
  <2>4. ASSUME NEW t \in Threads, Logging(t) \/ \E level \in Levels : Log(t, level)
        PROVE  Calm
    <3>1. Others(t)
      BY <2>4, LogFields, StampFields, LockFields, WriteFields, WriteFailsFields DEF Logging
    <3>2. thr'[t].pc # "panicked"
      <4>1. CASE Stamp(t)
        <5>1. ~(wall < start)
          BY <1>0, <1>1
        <5> QED
          BY <4>1, <5>1, StampFields
      <4>2. CASE Write(t)
        BY <1>1, <4>2, WriteFields
      <4>3. CASE Lock(t) \/ WriteFails(t) \/ \E level \in Levels : Log(t, level)
        BY <4>3, LockFields, WriteFailsFields, LogFields
      <4> QED
        BY <2>4, <4>1, <4>2, <4>3 DEF Logging
    <3> QED
      BY <1>1, <3>1, <3>2 DEF Others
  <2> HIDE DEF Past, Calm
  <2> QED
    BY <1>2, <2>2, <2>3, <2>4
<1>3. ASSUME NEW i \in Inits, InitLogging(i)
      PROVE  Past /\ Calm
  <2>1. UNCHANGED <<wall, thr>>
    BY <1>3 DEF InitLogging, Now, InternalNow, Create, InitPanics, SetLogger, SetMaxLevel, clocks
  <2>2. Calm
    BY <1>1, <2>1
  <2>3. start' = start \/ start' = init[i].start
    BY <1>3 DEF InitLogging, Now, InternalNow, Create, InitPanics, SetLogger, SetMaxLevel, installed
  <2>4. ASSUME NEW j \in Inits
        PROVE  init'[j].start <= wall /\ (init'[j].pc = "internal" => init'[j].now <= wall)
    <3>1. CASE j # i
      BY <1>1, <1>3, <3>1, InitFields
    <3>2. CASE j = i
      <4>1. \/ init'[i].start = init[i].start \/ init'[i].start = 0
            \/ init[i].pc = "internal" /\ init'[i].start = init[i].now - mono
        BY <1>3, InitFields
      <4>2. init'[i].start <= wall
        BY <1>0, <1>1, <4>1
      <4>3. init'[i].pc = "internal" => init'[i].now <= wall
        BY <1>0, <1>1, <1>3, InitFields
      <4> QED
        BY <3>2, <4>2, <4>3
    <3> QED
      BY <3>1, <3>2
  <2> QED
    BY <1>0, <1>1, <2>1, <2>2, <2>3, <2>4
<1> QED
  BY <1>2, <1>3 DEF Next

\* A clock that is set forward, at any time and as often as you like, makes no thread
\* panic on the start time: only one that is set back does (logging.rs 48-51).
THEOREM ForwardIsHarmless == Spec => []PanicsOnlyIfSetBack
<1>1. Init => BackInv
  BY DEF Init, BackInv, Wall0
<1>2. BackInv => PanicsOnlyIfSetBack
  BY DEF BackInv, PanicsOnlyIfSetBack, StartTimeValid
<1> QED
  BY <1>1, <1>2, InitType, StepType, FileStep, BackStep, PTL DEF Spec

-----------------------------------------------------------------------------
(* What of the records is in the file.                                     *)

\* The thread is busy with its record, or died of it.
Pending(t) == thr[t].pc \in {"stamp", "lock", "write", "panicked"}

\* The records of a thread that the file owes it.
Logged(t) == IF Pending(t) THEN kept[t] \ {thr[t].id} ELSE kept[t]

\* The records in the file are those that the file owes the thread, but for the oldest
\* ones if the file was created again, in their order.
OrderOf(t) ==
  /\ kept[t] \subseteq 1..thr[t].id
  /\ Pending(t) => thr[t].id \in kept[t]
  /\ \A k, l \in WholeOf(t) : k < l => file[k].id < file[l].id
  /\ \E n \in 0..thr[t].id : /\ Pending(t) => n < thr[t].id
                             /\ ~cut => n = 0
                             /\ WrittenBy(t) = {x \in Logged(t) : x > n}

KeptInv == kept \in [Threads -> SUBSET Nat]

OrderInv == KeptInv /\ \A t \in Threads : OrderOf(t)

\* Which records a step of a thread keeps.
LEMMA LogKeeps ==
  ASSUME TypeInv, KeptInv, NEW t \in Threads, NEW level \in Levels, Log(t, level)
  PROVE  /\ KeptInv' /\ \A u \in Threads \ {t} : kept'[u] = kept[u]
         /\ kept'[t] = IF thr'[t].pc = "stamp" THEN kept[t] \cup {thr[t].id + 1} ELSE kept[t]
<1>1. thr[t].id + 1 \in Nat
  BY DEF TypeInv, Loggers
<1>2. CASE Enabled(level) /\ logger = "file"
  <2>1. /\ thr' = [thr EXCEPT ![t].id = @ + 1, ![t].pc = "stamp"]
        /\ kept' = [kept EXCEPT ![t] = @ \cup {thr[t].id + 1}]
    BY <1>2 DEF Log
  <2>2. thr'[t].pc = "stamp"
    BY <2>1 DEF TypeInv, Loggers
  <2> QED
    BY <1>1, <2>1, <2>2 DEF KeptInv
<1>3. CASE ~(Enabled(level) /\ logger = "file")
  <2>1. kept' = kept
    BY <1>3 DEF Log
  <2>2. thr'[t].pc # "stamp"
    <3>1. CASE Enabled(level)
      <4>1. thr' = [thr EXCEPT ![t].id = @ + 1, ![t].pc = "idle"]
        BY <1>3, <3>1 DEF Log
      <4> QED
        BY <4>1 DEF TypeInv, Loggers
    <3>2. CASE ~Enabled(level)
      <4>1. thr' = [thr EXCEPT ![t].id = @ + 1] /\ thr[t].pc = "idle"
        BY <3>2 DEF Log
      <4> QED
        BY <4>1 DEF TypeInv, Loggers
    <3> QED
      BY <3>1, <3>2
  <2> QED
    BY <2>1, <2>2 DEF KeptInv
<1> QED
  BY <1>2, <1>3

LEMMA WriteFailsKeeps ==
  ASSUME TypeInv, KeptInv, NEW t \in Threads, WriteFails(t)
  PROVE  /\ KeptInv' /\ \A u \in Threads \ {t} : kept'[u] = kept[u]
         /\ kept'[t] = kept[t] \ {thr[t].id}
BY DEF WriteFails, KeptInv

\* All other steps keep what there is.
LEMMA KeptQuiet ==
  ASSUME \/ (\E t \in Threads : Stamp(t) \/ Lock(t) \/ Write(t)) \/ (\E i \in Inits : InitLogging(i))
         \/ Tick \/ SetClock \/ UNCHANGED vars
  PROVE  UNCHANGED kept
BY DEF Stamp, Lock, Write, WritePiece, InitLogging, Now, InternalNow, Create, InitPanics, SetLogger,
       SetMaxLevel, Tick, SetClock, vars

\* The records of a thread in the file stay as they are.
FileKept(t) == WholeOf(t)' = WholeOf(t) /\ \A k \in WholeOf(t) : file'[k] = file[k]

LEMMA FileKeptSame ==
  ASSUME NEW t, FileKept(t)
  PROVE  /\ WrittenBy(t)' = WrittenBy(t)
         /\ (\A k, l \in WholeOf(t) : k < l => file[k].id < file[l].id)
              => (\A k, l \in WholeOf(t)' : k < l => file'[k].id < file'[l].id)
<1>1. {file'[k].id : k \in WholeOf(t)'} = {file[k].id : k \in WholeOf(t)}
  BY DEF FileKept
<1>2. WrittenBy(t)' = {file'[k].id : k \in WholeOf(t)'}
  BY DEF WrittenBy
<1> QED
  BY <1>1, <1>2 DEF FileKept, WrittenBy

LEMMA OrderQuiet ==
  ASSUME NEW t \in Threads, OrderOf(t), FileKept(t), cut' = cut,
         thr'[t].id = thr[t].id, Pending(t)' <=> Pending(t), kept'[t] = kept[t]
  PROVE  OrderOf(t)'
<1>1. Logged(t)' = Logged(t)
  BY DEF Logged
<1>2. WrittenBy(t)' = WrittenBy(t)
  BY FileKeptSame
<1>3. PICK n \in 0..thr[t].id : /\ Pending(t) => n < thr[t].id
                                /\ ~cut => n = 0
                                /\ WrittenBy(t) = {x \in Logged(t) : x > n}
  BY DEF OrderOf
<1>4. \E m \in 0..thr'[t].id : /\ Pending(t)' => m < thr'[t].id
                               /\ ~cut' => m = 0
                               /\ WrittenBy(t)' = {x \in Logged(t)' : x > m}
  BY <1>1, <1>2, <1>3
<1>5. \A k, l \in WholeOf(t)' : k < l => file'[k].id < file'[l].id
  BY FileKeptSame DEF OrderOf
<1>6. kept'[t] \subseteq 1..thr'[t].id /\ (Pending(t)' => thr'[t].id \in kept'[t])
  BY DEF OrderOf
<1> QED
  BY <1>4, <1>5, <1>6 DEF OrderOf

\* The records of the threads in the file after a piece was written.
LEMMA WholeWritten ==
  ASSUME TypeInv, FileInv, NEW t \in Threads, Write(t)
  PROVE  /\ \A u \in Threads \ {t} : FileKept(u)
         /\ thr[t].part = 1 => FileKept(t)
         /\ thr[t].part = 2 => WholeOf(t)' = WholeOf(t) \cup {pos + 1}
         /\ file'[pos + 1].id = thr[t].id
         /\ \A k \in WholeOf(t) : k \in Nat /\ k < pos + 1 /\ file'[k] = file[k]
<1>0. /\ file \in Seq(Pieces) /\ Len(file) \in Nat /\ pos \in Nat /\ Len(file) <= pos
      /\ DOMAIN file = 1..Len(file)
  BY LenProperties DEF TypeInv, FileInv
<1>1. /\ Len(file') = pos + 1 /\ file' \in Seq(Pieces)
      /\ \A k \in 1..Len(file) : file'[k] = file[k]
      /\ \A k \in Len(file) + 1..pos : file'[k] = Hole
      /\ file'[pos + 1] = [thread |-> t, id |-> thr[t].id, part |-> thr[t].part]
  BY <1>0, Written, WriteFields
<1>2. DOMAIN file' = 1..pos + 1
  BY <1>1, LenProperties
<1>3. \A k \in 1..pos + 1 : k \in 1..Len(file) \/ k \in Len(file) + 1..pos \/ k = pos + 1
  BY <1>0
<1>4. 1..Len(file) \subseteq 1..pos + 1 /\ pos + 1 \in 1..pos + 1 /\ pos + 1 \notin 1..Len(file)
  BY <1>0
<1>5. \A u \in Threads : WholeOf(u)' = {k \in 1..pos + 1 : file'[k].thread = u /\ file'[k].part = 2}
  BY <1>2 DEF WholeOf
<1>6. \A u \in Threads : WholeOf(u) = {k \in 1..Len(file) : file[k].thread = u /\ file[k].part = 2}
  BY <1>0 DEF WholeOf
<1>7. \A k \in Len(file) + 1..pos : file'[k].part # 2
  BY <1>1 DEF Hole
<1>8. ASSUME NEW u \in Threads, u # t \/ thr[t].part # 2
      PROVE  WholeOf(u)' = WholeOf(u)
  <2>1. ASSUME NEW k \in WholeOf(u)' PROVE k \in WholeOf(u)
    <3>1. k \in 1..pos + 1 /\ file'[k].thread = u /\ file'[k].part = 2
      BY <1>5
    <3>2. k # pos + 1
      BY <1>1, <1>8, <3>1
    <3>3. k \in 1..Len(file)
      BY <1>3, <1>7, <3>1, <3>2
    <3> QED
      BY <1>1, <1>6, <3>1, <3>3
  <2>2. ASSUME NEW k \in WholeOf(u) PROVE k \in WholeOf(u)'
    BY <1>1, <1>4, <1>5, <1>6
  <2> QED
    BY <2>1, <2>2
<1>9. ASSUME thr[t].part = 2
      PROVE  WholeOf(t)' = WholeOf(t) \cup {pos + 1}
  BY <1>1, <1>3, <1>4, <1>5, <1>6, <1>7, <1>9
<1>10. \A u \in Threads : \A k \in WholeOf(u) : k \in 1..Len(file) /\ file'[k] = file[k]
  BY <1>1, <1>6
<1>11. \A k \in 1..Len(file) : k \in Nat /\ k < pos + 1
  BY <1>0
<1> QED
  BY <1>1, <1>8, <1>9, <1>10, <1>11 DEF FileKept

LEMMA OrderStep == TypeInv /\ FileInv /\ OrderInv /\ [Next]_vars => OrderInv'
<1> SUFFICES ASSUME TypeInv, FileInv, OrderInv, [Next]_vars PROVE OrderInv'
  OBVIOUS
<1>0. KeptInv /\ \A t \in Threads : OrderOf(t) /\ thr[t].id \in Nat /\ kept[t] \subseteq Nat
  BY DEF OrderInv, KeptInv, TypeInv, Loggers
<1>1. ASSUME NEW u \in Threads, UNCHANGED <<file, cut>>, thr'[u] = thr[u], kept'[u] = kept[u]
      PROVE  OrderOf(u)'
  <2>1. FileKept(u) /\ (Pending(u)' <=> Pending(u))
    BY <1>1 DEF FileKept, WholeOf, Pending
  <2> QED
    BY <1>0, <1>1, <2>1, OrderQuiet
<1>2. ASSUME NEW t \in Threads, NEW level \in Levels, Log(t, level)
      PROVE  OrderInv'
  <2>1. /\ thr[t].pc = "idle" /\ thr'[t].pc \in {"idle", "stamp"} /\ thr'[t].id = thr[t].id + 1
        /\ Others(t) /\ UNCHANGED <<file, cut>>
    BY <1>2, LogFields
  <2>2. /\ KeptInv' /\ \A u \in Threads \ {t} : kept'[u] = kept[u]
        /\ kept'[t] = IF thr'[t].pc = "stamp" THEN kept[t] \cup {thr[t].id + 1} ELSE kept[t]
    BY <1>0, <1>2, LogKeeps
  <2>3. OrderOf(t)'
    <3>1. kept[t] \subseteq 1..thr[t].id /\ thr[t].id \in Nat /\ ~Pending(t)
      BY <1>0, <2>1 DEF OrderOf, Pending
    <3>2. Logged(t)' = kept[t] /\ Logged(t) = kept[t]
      <4>1. thr[t].id + 1 \notin kept[t]
        BY <3>1
      <4> QED
        BY <2>1, <2>2, <3>1, <4>1 DEF Logged, Pending
    <3>3. FileKept(t)
      BY <2>1 DEF FileKept, WholeOf
    <3>4. PICK n \in 0..thr[t].id : (~cut => n = 0) /\ WrittenBy(t) = {x \in kept[t] : x > n}
      BY <1>0, <3>2 DEF OrderOf
    <3>5. n \in 0..thr'[t].id /\ n < thr'[t].id /\ WrittenBy(t)' = {x \in Logged(t)' : x > n}
      BY <2>1, <3>1, <3>2, <3>3, <3>4, FileKeptSame
    <3>6. kept'[t] \subseteq 1..thr'[t].id /\ (Pending(t)' => thr'[t].id \in kept'[t])
      BY <2>1, <2>2, <3>1 DEF Pending
    <3>7. \A k, l \in WholeOf(t)' : k < l => file'[k].id < file'[l].id
      BY <1>0, <3>3, FileKeptSame DEF OrderOf
    <3>8. ~cut' => n = 0
      BY <2>1, <3>4
    <3> QED
      BY <3>5, <3>6, <3>7, <3>8 DEF OrderOf
  <2> QED
    BY <1>1, <2>1, <2>2, <2>3 DEF OrderInv, Others
<1>3. ASSUME NEW t \in Threads, Stamp(t) \/ Lock(t)
      PROVE  OrderInv'
  <2>1. /\ thr'[t].id = thr[t].id /\ Pending(t) /\ Pending(t)' /\ Others(t) /\ UNCHANGED <<file, cut>>
    BY <1>3, StampFields, LockFields DEF Pending
  <2>2. kept' = kept
    BY <1>3, KeptQuiet
  <2>3. FileKept(t)
    BY <2>1 DEF FileKept, WholeOf
  <2>4. OrderOf(t)'
    BY <1>0, <2>1, <2>2, <2>3, OrderQuiet
  <2> QED
    BY <1>0, <1>1, <2>1, <2>2, <2>4 DEF OrderInv, Others, KeptInv
<1>4. ASSUME NEW t \in Threads, WriteFails(t)
      PROVE  OrderInv'
  <2>1. /\ thr'[t].id = thr[t].id /\ Pending(t) /\ ~Pending(t)' /\ Others(t) /\ UNCHANGED <<file, cut>>
    BY <1>4, WriteFailsFields DEF Pending
  <2>2. /\ KeptInv' /\ \A u \in Threads \ {t} : kept'[u] = kept[u]
        /\ kept'[t] = kept[t] \ {thr[t].id}
    BY <1>0, <1>4, WriteFailsKeeps
  <2>3. FileKept(t)
    BY <2>1 DEF FileKept, WholeOf
  <2>4. OrderOf(t)'
    <3>1. Logged(t)' = Logged(t)
      BY <2>1, <2>2 DEF Logged
    <3>2. PICK n \in 0..thr[t].id : (~cut => n = 0) /\ WrittenBy(t) = {x \in Logged(t) : x > n}
      BY <1>0 DEF OrderOf
    <3>3. n \in 0..thr'[t].id /\ WrittenBy(t)' = {x \in Logged(t)' : x > n} /\ (~cut' => n = 0)
      BY <2>1, <2>3, <3>1, <3>2, FileKeptSame
    <3>4. kept'[t] \subseteq 1..thr'[t].id
      BY <1>0, <2>1, <2>2 DEF OrderOf
    <3>5. \A k, l \in WholeOf(t)' : k < l => file'[k].id < file'[l].id
      BY <1>0, <2>3, FileKeptSame DEF OrderOf
    <3> QED
      BY <2>1, <3>3, <3>4, <3>5 DEF OrderOf
  <2> QED
    BY <1>1, <2>1, <2>2, <2>4 DEF OrderInv, Others
<1>5. ASSUME NEW t \in Threads, Write(t)
      PROVE  OrderInv'
  <2>1. thr[t].pc = "write" /\ thr'[t].id = thr[t].id /\ Others(t) /\ UNCHANGED cut /\ Pending(t)
    BY <1>5, WriteFields DEF Pending
  <2>2. kept' = kept
    BY <1>5, KeptQuiet
  <2>3. ASSUME NEW u \in Threads \ {t}
        PROVE  OrderOf(u)'
    <3>1. FileKept(u)
      BY <1>5, WholeWritten
    <3>2. thr'[u] = thr[u] /\ (Pending(u)' <=> Pending(u))
      BY <2>1 DEF Others, Pending
    <3> QED
      BY <1>0, <2>1, <2>2, <3>1, <3>2, OrderQuiet
  <2>4. CASE thr[t].part = 1
    <3>1. FileKept(t) /\ Pending(t)'
      BY <1>5, <2>4, WholeWritten, WriteFields DEF Pending
    <3>2. OrderOf(t)'
      BY <1>0, <2>1, <2>2, <3>1, OrderQuiet
    <3> QED
      BY <1>0, <2>2, <2>3, <3>2 DEF OrderInv, KeptInv
  <2>5. CASE thr[t].part = 2
    <3> DEFINE id == thr[t].id
    <3>1. ~Pending(t)'
      BY <1>5, <2>5, WriteFields DEF Pending
    <3>2. /\ WholeOf(t)' = WholeOf(t) \cup {pos + 1} /\ file'[pos + 1].id = id
          /\ \A k \in WholeOf(t) : k \in Nat /\ k < pos + 1 /\ file'[k] = file[k]
      BY <1>5, <2>5, WholeWritten
    <3>3. WrittenBy(t)' = WrittenBy(t) \cup {id}
      <4>1. WrittenBy(t)' = {file'[k].id : k \in WholeOf(t) \cup {pos + 1}}
        BY <3>2 DEF WrittenBy
      <4> QED
        BY <3>2, <4>1 DEF WrittenBy
    <3>4. PICK n \in 0..id : n < id /\ (~cut => n = 0) /\ WrittenBy(t) = {x \in Logged(t) : x > n}
      BY <1>0, <2>1 DEF OrderOf
    <3>5. kept[t] \subseteq 1..id /\ id \in kept[t] /\ id \in Nat
      BY <1>0, <2>1 DEF OrderOf
    <3>6. Logged(t)' = Logged(t) \cup {id} /\ Logged(t) = kept[t] \ {id}
      BY <2>1, <2>2, <3>1, <3>5 DEF Logged
    <3>7. WrittenBy(t)' = {x \in Logged(t)' : x > n}
      BY <3>3, <3>4, <3>5, <3>6
    <3>8. \A k \in WholeOf(t) : file[k].id < id
      <4>1. \A x \in WrittenBy(t) : x < id
        BY <3>4, <3>5, <3>6
      <4> QED
        BY <4>1 DEF WrittenBy
    <3>9. \A k, l \in WholeOf(t)' : k < l => file'[k].id < file'[l].id
      <4> SUFFICES ASSUME NEW k \in WholeOf(t) \cup {pos + 1}, NEW l \in WholeOf(t) \cup {pos + 1}, k < l
                   PROVE  file'[k].id < file'[l].id
        BY <3>2
      <4>1. k # pos + 1
        BY <3>2 DEF TypeInv
      <4>2. CASE l \in WholeOf(t)
        BY <1>0, <3>2, <4>1, <4>2 DEF OrderOf
      <4>3. CASE l = pos + 1
        BY <3>2, <3>8, <4>1, <4>3
      <4> QED
        BY <4>2, <4>3
    <3>10. OrderOf(t)'
      BY <2>1, <2>2, <3>1, <3>4, <3>5, <3>7, <3>9 DEF OrderOf
    <3> QED
      BY <1>0, <2>2, <2>3, <3>10 DEF OrderInv, KeptInv
  <2> QED
    BY <2>4, <2>5 DEF TypeInv, Loggers, Parts
<1>6. ASSUME NEW i \in Inits, Create(i)
      PROVE  OrderInv'
  <2>1. UNCHANGED <<thr, kept>> /\ file' = <<>> /\ (cut' <=> cut \/ logger = "file")
    BY <1>6 DEF Create
  <2>2. CASE logger # "file"
    <3>1. file' = file /\ ~cut /\ ~cut' /\ cut' \in BOOLEAN /\ cut \in BOOLEAN
      BY <1>6, <2>1, <2>2 DEF FileInv, Create, TypeInv
    <3> QED
      BY <1>0, <1>1, <2>1, <3>1 DEF OrderInv, KeptInv
  <2>3. CASE logger = "file"
    <3> SUFFICES ASSUME NEW t \in Threads PROVE OrderOf(t)'
      BY <1>0, <2>1 DEF OrderInv, KeptInv
    <3>1. WholeOf(t)' = {}
      <4>1. DOMAIN file' = {}
        BY <2>1
      <4> QED
        BY <4>1 DEF WholeOf
    <3>2. WrittenBy(t)' = {}
      BY <3>1 DEF WrittenBy
    <3>3. Logged(t)' = Logged(t) /\ (Pending(t)' <=> Pending(t))
      BY <2>1 DEF Logged, Pending
    <3>4. kept[t] \subseteq 1..thr[t].id /\ (Pending(t) => thr[t].id \in kept[t]) /\ thr[t].id \in Nat
      BY <1>0 DEF OrderOf
    <3>5. PICK n \in 0..thr[t].id : (Pending(t) => n < thr[t].id) /\ \A x \in Logged(t) : ~(x > n)
      <4>1. CASE Pending(t)
        <5>1. thr[t].id - 1 \in 0..thr[t].id /\ thr[t].id - 1 < thr[t].id
          BY <3>4, <4>1
        <5>2. \A x \in Logged(t) : ~(x > thr[t].id - 1)
          BY <3>4, <4>1 DEF Logged
        <5> QED
          BY <5>1, <5>2
      <4>2. CASE ~Pending(t)
        <5>1. thr[t].id \in 0..thr[t].id /\ \A x \in Logged(t) : ~(x > thr[t].id)
          BY <3>4, <4>2 DEF Logged
        <5> QED
          BY <4>2, <5>1
      <4> QED
        BY <4>1, <4>2
    <3>6. WrittenBy(t)' = {x \in Logged(t)' : x > n}
      BY <3>2, <3>3, <3>5
    <3> QED
      BY <2>1, <2>3, <3>1, <3>3, <3>4, <3>5, <3>6 DEF OrderOf
  <2> QED
    BY <2>2, <2>3
<1>7. ASSUME NEW i \in Inits, Now(i) \/ InternalNow(i) \/ InitPanics(i) \/ SetLogger(i) \/ SetMaxLevel(i)
      PROVE  OrderInv'
  <2>1. UNCHANGED <<file, cut, thr, kept>>
    BY <1>7 DEF Now, InternalNow, InitPanics, SetLogger, SetMaxLevel, disk
  <2> QED
    BY <1>0, <1>1, <2>1 DEF OrderInv, KeptInv
<1>8. CASE Tick \/ SetClock \/ UNCHANGED vars
  <2>1. UNCHANGED <<file, cut, thr, kept>>
    BY <1>8 DEF Tick, SetClock, vars, disk
  <2> QED
    BY <1>0, <1>1, <2>1 DEF OrderInv, KeptInv
<1> QED
  BY <1>2, <1>3, <1>4, <1>5, <1>6, <1>7, <1>8 DEF Next, InitLogging, Logging

\* However the threads race for the file, it holds every record that was let through and
\* could be written, once and in order, but for the oldest ones if the file was created
\* again (logging.rs 55-57).
THEOREM RecordsStayInOrder == Spec => []InOrder
<1>1. Init => OrderInv
  <2> SUFFICES ASSUME Init PROVE OrderInv
    OBVIOUS
  <2>1. KeptInv
    BY DEF Init, KeptInv
  <2>2. ASSUME NEW t \in Threads PROVE OrderOf(t)
    <3>1. thr[t].id = 0 /\ thr[t].pc = "idle" /\ kept[t] = {}
      BY DEF Init
    <3>2. WholeOf(t) = {}
      BY DEF Init, WholeOf
    <3>3. WrittenBy(t) = {} /\ Logged(t) = {} /\ ~Pending(t)
      BY <3>1, <3>2 DEF WrittenBy, Logged, Pending
    <3>4. 0 \in 0..thr[t].id /\ WrittenBy(t) = {x \in Logged(t) : x > 0}
      BY <3>1, <3>3
    <3> QED
      BY <3>1, <3>2, <3>3, <3>4 DEF OrderOf
  <2> QED
    BY <2>1, <2>2 DEF OrderInv
<1>2. TypeInv /\ OrderInv => InOrder
  <2> SUFFICES ASSUME TypeInv, OrderInv, NEW t \in Threads
               PROVE  /\ \A k, l \in WholeOf(t) : k < l => file[k].id < file[l].id
                      /\ thr[t].pc \in {"idle", "panicked"} =>
                           IF cut THEN \E n \in 0..thr[t].id : WrittenBy(t) = {x \in Logged(t) : x > n}
                           ELSE WrittenBy(t) = Logged(t)
    BY DEF InOrder, Logged, Pending
  <2>1. PICK n \in 0..thr[t].id : (~cut => n = 0) /\ WrittenBy(t) = {x \in Logged(t) : x > n}
    BY DEF OrderInv, OrderOf
  <2>2. \A x \in Logged(t) : x > 0
    BY DEF OrderInv, OrderOf, Logged
  <2>3. ~cut => WrittenBy(t) = Logged(t)
    BY <2>1, <2>2
  <2> QED
    BY <2>1, <2>3 DEF OrderInv, OrderOf
<1> QED
  BY <1>1, <1>2, InitType, StepType, FileStep, OrderStep, PTL DEF Spec

-----------------------------------------------------------------------------
(* The path of the file.                                                   *)

\* Induction over the natural numbers, in the form of sets.
LEMMA LeastNumber ==
  ASSUME NEW T, T \subseteq Nat, T # {}
  PROVE  \E m \in T : \A k \in T : m <= k
<1>1. PICK m \in T : \A k \in T : ~(<<k, m>> \in OpToRel(<, Nat))
  BY NatLessThanWellFounded, WFMin
<1>2. ASSUME NEW k \in T
      PROVE  ~(k < m)
  <2>1. k \in Nat /\ m \in Nat
    OBVIOUS
  <2>2. k < m => <<k, m>> \in OpToRel(<, Nat)
    BY <2>1 DEF OpToRel
  <2> QED
    BY <1>1, <2>2
<1>3. \A k \in T : k \in Nat /\ m \in Nat
  OBVIOUS
<1> QED
  BY <1>2, <1>3

LEMMA GreatestPlace ==
  ASSUME NEW n \in Nat, NEW I, I \subseteq 1..n, I # {}
  PROVE  Max(I) \in I /\ \A i \in I : i <= Max(I)
<1> DEFINE T == {n - i : i \in I}
<1>0. \A i \in I : i \in 1..n
  OBVIOUS
<1>1. T \subseteq Nat /\ T # {}
  <2>1. \A i \in 1..n : n - i \in Nat
    OBVIOUS
  <2>2. T \subseteq Nat
    BY <1>0, <2>1
  <2> QED
    BY <2>2
<1>2. PICK m \in T : \A k \in T : m <= k
  BY <1>1, LeastNumber
<1>3. PICK x \in I : m = n - x
  OBVIOUS
<1>4. ASSUME NEW i \in I
      PROVE  x >= i
  <2>1. n - x <= n - i
    BY <1>2, <1>3
  <2>2. i \in Int /\ x \in Int
    OBVIOUS
  <2> QED
    BY <2>1, <2>2
<1>5. \E y \in I : \A i \in I : y >= i
  BY <1>4
<1>6. Max(I) \in I /\ \A i \in I : Max(I) >= i
  BY <1>5 DEF Max
<1>7. \A i \in I : i \in Int
  OBVIOUS
<1> QED
  BY <1>6, <1>7

\* RFind finds the last place of a component, or 0.
IsLast(s, c, r) ==
  /\ r \in 0..Len(s)
  /\ r # 0 => s[r] = c
  /\ \A i \in 1..Len(s) : s[i] = c => i <= r

LEMMA RFindIsLast ==
  ASSUME NEW S, NEW s \in Seq(S), NEW c
  PROVE  IsLast(s, c, RFind(s, c))
<1> DEFINE I == {i \in 1..Len(s) : s[i] = c}
<1>1. Len(s) \in Nat
  BY LenProperties
<1>2. RFind(s, c) = IF I # {} THEN Max(I) ELSE 0
  BY DEF RFind, SelectLastInSeq
<1>3. CASE I = {}
  BY <1>1, <1>2, <1>3 DEF IsLast
<1>4. CASE I # {}
  <2>1. I \subseteq 1..Len(s)
    OBVIOUS
  <2> HIDE DEF I
  <2>2. Max(I) \in I /\ \A i \in I : i <= Max(I)
    BY <1>1, <1>4, <2>1, GreatestPlace
  <2> QED
    BY <1>1, <1>2, <1>4, <2>2 DEF I, IsLast
<1> QED
  BY <1>3, <1>4

LEMMA RFindIs ==
  ASSUME NEW S, NEW s \in Seq(S), NEW c, NEW r, IsLast(s, c, r)
  PROVE  RFind(s, c) = r
<1>1. IsLast(s, c, RFind(s, c)) /\ Len(s) \in Nat
  BY RFindIsLast, LenProperties
<1> DEFINE q == RFind(s, c)
<1>2. q \in 0..Len(s) /\ r \in 0..Len(s) /\ Len(s) \in Nat
  BY <1>1 DEF IsLast
<1> HIDE DEF q
<1>3. r # 0 => r <= q
  <2> SUFFICES ASSUME r # 0 PROVE r <= q
    OBVIOUS
  <2>1. r \in 1..Len(s) /\ s[r] = c
    BY <1>2 DEF IsLast
  <2> QED
    BY <1>1, <2>1 DEF IsLast, q
<1>4. q # 0 => q <= r
  <2> SUFFICES ASSUME q # 0 PROVE q <= r
    OBVIOUS
  <2>1. q \in 1..Len(s) /\ s[q] = c
    BY <1>1, <1>2 DEF IsLast, q
  <2> QED
    BY <2>1 DEF IsLast
<1> QED
  BY <1>2, <1>3, <1>4 DEF q

\* A part of a path, place by place.
LEMMA PartIs ==
  ASSUME NEW S, NEW s \in Seq(S), NEW m \in 1..Len(s) + 1, NEW n \in 0..Len(s), m <= n + 1
  PROVE  /\ SubSeq(s, m, n) \in Seq(S)
         /\ Len(SubSeq(s, m, n)) = n + 1 - m
         /\ \A i \in 1..n + 1 - m : SubSeq(s, m, n)[i] = s[m + i - 1]
<1>1. Len(s) \in Nat /\ m \in Int /\ n \in Int
  BY LenProperties
<1>2. m..n \subseteq 1..Len(s)
  BY <1>1
<1>3. \A i \in m..n : s[i] \in S
  BY <1>2, ElementOfSeq
<1>4. /\ SubSeq(s, m, n) \in Seq(S)
      /\ Len(SubSeq(s, m, n)) = IF m <= n THEN n - m + 1 ELSE 0
      /\ \A i \in 1..n - m + 1 : SubSeq(s, m, n)[i] = s[m + i - 1]
  BY <1>1, <1>3, SubSeqProperties
<1>5. n - m + 1 = n + 1 - m /\ (m <= n \/ n + 1 - m = 0)
  BY <1>1
<1> QED
  BY <1>4, <1>5

\* A path with something put in at place d, place by place.
LEMMA InsertIs ==
  ASSUME NEW S, NEW s \in Seq(S), NEW d \in 1..Len(s), NEW e \in S
  PROVE  /\ InsertAt(s, d, e) \in Seq(S)
         /\ Len(InsertAt(s, d, e)) = Len(s) + 1
         /\ \A i \in 1..d - 1 : InsertAt(s, d, e)[i] = s[i]
         /\ InsertAt(s, d, e)[d] = e
         /\ \A i \in d + 1..Len(s) + 1 : InsertAt(s, d, e)[i] = s[i - 1]
<1>1. Len(s) \in Nat /\ d \in Nat /\ 1 <= d /\ d <= Len(s)
  BY LenProperties
<1> DEFINE n == Len(s)
           a == SubSeq(s, 1, d - 1)
           b == SubSeq(s, d, n)
<1>2. a \in Seq(S) /\ Len(a) = d - 1 /\ \A i \in 1..d - 1 : a[i] = s[i]
  <2>1. 1 \in 1..n + 1 /\ d - 1 \in 0..n /\ 1 <= (d - 1) + 1 /\ (d - 1) + 1 - 1 = d - 1
        /\ \A i \in 1..d - 1 : 1 + i - 1 = i
    BY <1>1
  <2>2. a \in Seq(S) /\ Len(a) = (d - 1) + 1 - 1 /\ \A i \in 1..(d - 1) + 1 - 1 : a[i] = s[1 + i - 1]
    BY <2>1, PartIs
  <2> HIDE DEF a
  <2> QED
    BY <2>1, <2>2
<1>3. b \in Seq(S) /\ Len(b) = n + 1 - d /\ \A i \in 1..n + 1 - d : b[i] = s[d + i - 1]
  <2>1. d \in 1..n + 1 /\ n \in 0..n /\ d <= n + 1
    BY <1>1
  <2> QED
    BY <2>1, PartIs
<1>4. <<e>> \in Seq(S) /\ Len(<<e>>) = 1 /\ <<e>>[1] = e
  OBVIOUS
<1> DEFINE ae == a \o <<e>>
<1>5. ae \in Seq(S) /\ Len(ae) = d /\ ae[d] = e /\ \A i \in 1..d - 1 : ae[i] = s[i]
  <2> HIDE DEF a
  <2>1. /\ ae \in Seq(S) /\ Len(ae) = Len(a) + 1
        /\ \A i \in 1..Len(a) + 1 : ae[i] = IF i <= Len(a) THEN a[i] ELSE <<e>>[i - Len(a)]
    BY <1>2, <1>4, ConcatProperties
  <2> HIDE DEF ae
  <2>2. Len(ae) = d
    BY <1>1, <1>2, <2>1
  <2>3. ae[d] = e
    <3>1. d \in 1..Len(a) + 1 /\ ~(d <= Len(a)) /\ d - Len(a) = 1
      BY <1>1, <1>2
    <3> QED
      BY <1>4, <2>1, <3>1
  <2>4. \A i \in 1..d - 1 : ae[i] = s[i]
    BY <1>1, <1>2, <2>1
  <2> QED
    BY <2>1, <2>2, <2>3, <2>4
<1> HIDE DEF ae, b
<1>6. /\ ae \o b \in Seq(S) /\ Len(ae \o b) = d + Len(b)
      /\ \A i \in 1..d + Len(b) : (ae \o b)[i] = IF i <= d THEN ae[i] ELSE b[i - d]
  BY <1>3, <1>5, ConcatProperties
<1>7. InsertAt(s, d, e) = ae \o b
  BY DEF InsertAt, ae, a, b
<1> DEFINE q == InsertAt(s, d, e)
<1> HIDE DEF a, q
<1>8. q \in Seq(S) /\ Len(q) = n + 1 /\ \A i \in 1..n + 1 : q[i] = IF i <= d THEN ae[i] ELSE b[i - d]
  <2>1. d + Len(b) = n + 1
    BY <1>1, <1>3
  <2> QED
    BY <1>6, <1>7, <2>1 DEF q
<1>9. \A i \in 1..d - 1 : q[i] = s[i]
  <2>1. \A i \in 1..d - 1 : i \in 1..n + 1 /\ i <= d
    BY <1>1
  <2> QED
    BY <1>5, <1>8, <2>1
<1>10. q[d] = e
  <2>1. d \in 1..n + 1 /\ d <= d
    BY <1>1
  <2> QED
    BY <1>5, <1>8, <2>1
<1>11. \A i \in d + 1..n + 1 : q[i] = s[i - 1]
  <2>1. \A i \in d + 1..n + 1 : i \in 1..n + 1 /\ ~(i <= d) /\ i - d \in 1..n + 1 - d /\ d + (i - d) - 1 = i - 1
    BY <1>1
  <2> QED
    BY <1>3, <1>8, <2>1
<1> QED
  BY <1>8, <1>9, <1>10, <1>11 DEF q


\* What follows the directory in a path, place by place.
LEMMA BaseIs ==
  ASSUME NEW S, NEW p \in Seq(S)
  PROVE  LET s == RFind(p, "/")
         IN /\ Base(p) \in Seq(S) /\ Len(Base(p)) = Len(p) - s
            /\ \A i \in 1..Len(p) - s : Base(p)[i] = p[s + i]
<1> DEFINE s == RFind(p, "/")
<1>1. s \in 0..Len(p) /\ Len(p) \in Nat
  BY RFindIsLast, LenProperties DEF IsLast
<1> HIDE DEF s
<1>2. /\ s + 1 \in 1..Len(p) + 1 /\ Len(p) \in 0..Len(p) /\ s + 1 <= Len(p) + 1
      /\ Len(p) + 1 - (s + 1) = Len(p) - s
      /\ \A i \in 1..Len(p) - s : (s + 1) + i - 1 = s + i
  BY <1>1
<1>3. /\ SubSeq(p, s + 1, Len(p)) \in Seq(S)
      /\ Len(SubSeq(p, s + 1, Len(p))) = Len(p) + 1 - (s + 1)
      /\ \A i \in 1..Len(p) + 1 - (s + 1) : SubSeq(p, s + 1, Len(p))[i] = p[(s + 1) + i - 1]
  BY <1>2, PartIs
<1> QED
  BY <1>2, <1>3 DEF Base, s

\* The path of the logger's file is mpv's with the suffix put in at one place, before the
\* last dot or at the end, and always after the directory.
LEMMA SuffixPlace ==
  ASSUME NEW S, Suffix \in S, NEW p \in Seq(S)
  PROVE  LET d == RFind(p, ".")
             s == RFind(p, "/")
             q == WithSuffix(p)
         IN \E e \in 1..Len(p) + 1 :
              /\ s < e
              /\ q \in Seq(S) /\ Len(q) = Len(p) + 1
              /\ \A i \in 1..e - 1 : q[i] = p[i]
              /\ q[e] = Suffix
              /\ \A i \in e + 1..Len(p) + 1 : q[i] = p[i - 1]
              /\ \/ (d = 0 \/ d < s) /\ e = Len(p) + 1
                 \/ d = e
<1> DEFINE d == RFind(p, ".")
           s == RFind(p, "/")
           q == WithSuffix(p)
<1>1. IsLast(p, ".", d) /\ IsLast(p, "/", s) /\ Len(p) \in Nat
  BY RFindIsLast, LenProperties
<1>2. q = IF d = 0 \/ d < s THEN Append(p, Suffix) ELSE InsertAt(p, d, Suffix)
  BY DEF WithSuffix
<1> HIDE DEF d, s, q
<1>3. d \in 0..Len(p) /\ s \in 0..Len(p) /\ Len(p) \in Nat
  BY <1>1 DEF IsLast
<1>4. CASE d = 0 \/ d < s
  <2>1. q = Append(p, Suffix)
    BY <1>2, <1>4
  <2>2. /\ q \in Seq(S) /\ Len(q) = Len(p) + 1
        /\ \A i \in 1..Len(p) : q[i] = p[i]
        /\ q[Len(p) + 1] = Suffix
    BY <2>1, AppendProperties
  <2> DEFINE e == Len(p) + 1
  <2>3. e \in 1..Len(p) + 1 /\ s < e /\ 1..e - 1 = 1..Len(p) /\ e + 1..Len(p) + 1 = {}
    BY <1>3
  <2> QED
    BY <1>4, <2>2, <2>3 DEF d, s, q
<1>5. CASE ~(d = 0 \/ d < s)
  <2>1. d # 0 /\ ~(d < s) /\ p[d] = "."
    BY <1>1, <1>5 DEF IsLast
  <2>2. s # 0 => p[s] = "/"
    BY <1>1 DEF IsLast
  <2>3. d # s
    BY <2>1, <2>2
  <2>4. d \in 1..Len(p) /\ s < d /\ d \in 1..Len(p) + 1
    BY <1>3, <2>1, <2>3
  <2>5. q = InsertAt(p, d, Suffix)
    BY <1>2, <1>5
  <2>6. /\ q \in Seq(S) /\ Len(q) = Len(p) + 1
        /\ \A i \in 1..d - 1 : q[i] = p[i]
        /\ q[d] = Suffix
        /\ \A i \in d + 1..Len(p) + 1 : q[i] = p[i - 1]
    <3> DEFINE w == InsertAt(p, d, Suffix)
    <3>1. /\ w \in Seq(S) /\ Len(w) = Len(p) + 1
          /\ \A i \in 1..d - 1 : w[i] = p[i]
          /\ w[d] = Suffix
          /\ \A i \in d + 1..Len(p) + 1 : w[i] = p[i - 1]
      BY <2>4, InsertIs
    <3> QED
      BY <2>5, <3>1
  <2> QED
    BY <2>4, <2>6 DEF d, s, q
<1> QED
  BY <1>4, <1>5

LEMMA BesideIs ==
  ASSUME NEW S, Suffix \in S, NEW p \in Seq(S)
  PROVE  /\ Dir(WithSuffix(p)) = Dir(p)
         /\ Ext(WithSuffix(p)) = Ext(p)
         /\ Contains(Base(WithSuffix(p)), Suffix)
<1> DEFINE d == RFind(p, ".")
           s == RFind(p, "/")
           q == WithSuffix(p)
           n == Len(p)
<1>1. PICK e \in 1..n + 1 :
              /\ s < e
              /\ q \in Seq(S) /\ Len(q) = n + 1
              /\ \A i \in 1..e - 1 : q[i] = p[i]
              /\ q[e] = Suffix
              /\ \A i \in e + 1..n + 1 : q[i] = p[i - 1]
              /\ \/ (d = 0 \/ d < s) /\ e = n + 1
                 \/ d = e
  BY SuffixPlace
<1>2. IsLast(p, ".", d) /\ IsLast(p, "/", s) /\ n \in Nat
  BY RFindIsLast, LenProperties
<1>3. d \in 0..n /\ s \in 0..n /\ n \in Nat /\ e \in 1..n + 1 /\ s < e
  BY <1>1, <1>2 DEF IsLast
<1>4. RFind(q, "/") = s
  <2> HIDE DEF d, s, q, n
  <2>1. s \in 0..Len(q)
    BY <1>1, <1>3
  <2>2. s # 0 => q[s] = "/"
    <3>1. s # 0 => s \in 1..e - 1
      BY <1>3
    <3> QED
      BY <1>1, <1>2, <3>1 DEF IsLast
  <2>3. ASSUME NEW i \in 1..Len(q), q[i] = "/"
        PROVE  i <= s
    <3>1. i \in 1..n + 1
      BY <1>1
    <3>2. i # e
      BY <1>1, <2>3 DEF Suffix
    <3>3. CASE i < e
      <4>1. i \in 1..e - 1 /\ i \in 1..n
        BY <1>3, <3>1, <3>3
      <4>2. p[i] = "/"
        BY <1>1, <2>3, <4>1
      <4> QED
        BY <1>2, <4>1, <4>2 DEF IsLast, n
    <3>4. CASE i > e
      <4>1. i \in e + 1..n + 1 /\ i - 1 \in 1..n
        BY <1>3, <3>1, <3>4
      <4>2. p[i - 1] = "/"
        BY <1>1, <2>3, <4>1
      <4>3. i - 1 <= s
        BY <1>2, <4>1, <4>2 DEF IsLast, n
      <4> QED
        BY <1>3, <3>1, <3>4, <4>3
    <3> QED
      BY <1>3, <3>1, <3>2, <3>3, <3>4
  <2>4. IsLast(q, "/", s)
    BY <2>1, <2>2, <2>3 DEF IsLast
  <2> QED
    BY <1>1, <2>4, RFindIs
<1> DEFINE bp == Base(p)
           bq == Base(q)
<1>5. bp \in Seq(S) /\ Len(bp) = n - s /\ \A i \in 1..n - s : bp[i] = p[s + i]
  BY BaseIs
<1>6. bq \in Seq(S) /\ Len(bq) = n + 1 - s /\ \A i \in 1..n + 1 - s : bq[i] = q[s + i]
  <2> HIDE DEF q, s, n
  <2>1. /\ bq \in Seq(S) /\ Len(bq) = Len(q) - RFind(q, "/")
        /\ \A i \in 1..Len(q) - RFind(q, "/") : bq[i] = q[RFind(q, "/") + i]
    BY <1>1, BaseIs
  <2> HIDE DEF bq
  <2>2. Len(q) - RFind(q, "/") = n + 1 - s /\ RFind(q, "/") = s
    BY <1>1, <1>3, <1>4
  <2> QED
    BY <2>1, <2>2
<1>7. /\ Dir(p) = SubSeq(p, 1, s) /\ Dir(q) = SubSeq(q, 1, s)
      /\ Ext(p) = IF RFind(bp, ".") = 0 THEN <<>> ELSE SubSeq(bp, RFind(bp, "."), Len(bp))
      /\ Ext(q) = IF RFind(bq, ".") = 0 THEN <<>> ELSE SubSeq(bq, RFind(bq, "."), Len(bq))
  BY <1>4 DEF Dir, Ext
<1> HIDE DEF d, s, q, n, bp, bq
<1>8. Dir(q) = Dir(p)
  <2>1. 1 \in 1..n + 1 /\ s \in 0..n /\ 1 <= s + 1 /\ s + 1 - 1 = s /\ (\A i \in 1..s : 1 + i - 1 = i)
        /\ 1 \in 1..(n + 1) + 1 /\ s \in 0..n + 1 /\ \A i \in 1..s : i \in 1..e - 1
    BY <1>3
  <2>2. /\ SubSeq(p, 1, s) \in Seq(S) /\ Len(SubSeq(p, 1, s)) = s + 1 - 1
        /\ \A i \in 1..s + 1 - 1 : SubSeq(p, 1, s)[i] = p[1 + i - 1]
    BY <2>1, PartIs DEF n
  <2>3. /\ SubSeq(q, 1, s) \in Seq(S) /\ Len(SubSeq(q, 1, s)) = s + 1 - 1
        /\ \A i \in 1..s + 1 - 1 : SubSeq(q, 1, s)[i] = q[1 + i - 1]
    BY <1>1, <2>1, PartIs
  <2>4. \A i \in 1..s : SubSeq(q, 1, s)[i] = SubSeq(p, 1, s)[i]
    BY <1>1, <2>1, <2>2, <2>3
  <2>5. SubSeq(q, 1, s) = SubSeq(p, 1, s)
    BY <2>1, <2>2, <2>3, <2>4, SeqEqual
  <2> QED
    BY <1>7, <2>5
<1>9. Contains(bq, Suffix)
  <2>1. e - s \in 1..n + 1 - s /\ s + (e - s) = e
    BY <1>3
  <2>2. bq[e - s] = Suffix
    BY <1>1, <1>6, <2>1
  <2> QED
    BY <1>6, <2>1, <2>2 DEF Contains
<1>10. Ext(q) = Ext(p)
  <2>1. CASE (d = 0 \/ d < s) /\ e = n + 1
    <3>1. ASSUME NEW i \in 1..n - s
          PROVE  bp[i] # "."
      <4>1. s + i \in 1..n /\ ~(s + i <= d)
        BY <1>3, <2>1
      <4>2. p[s + i] # "."
        BY <1>2, <4>1 DEF IsLast, n
      <4> QED
        BY <1>5, <4>2
    <3>2. ASSUME NEW i \in 1..n + 1 - s
          PROVE  bq[i] # "."
      <4>1. s + i \in 1..n + 1
        BY <1>3
      <4>2. CASE s + i = e
        BY <1>1, <1>6, <4>2 DEF Suffix
      <4>3. CASE s + i # e
        <5>1. i \in 1..n - s /\ s + i \in 1..e - 1
          BY <1>3, <2>1, <4>1, <4>3
        <5> QED
          BY <1>1, <1>5, <1>6, <3>1, <5>1
      <4> QED
        BY <4>2, <4>3
    <3>3. IsLast(bp, ".", 0) /\ IsLast(bq, ".", 0)
      <4>1. 0 \in 0..n - s /\ 0 \in 0..n + 1 - s
        BY <1>3
      <4> QED
        BY <1>5, <1>6, <3>1, <3>2, <4>1 DEF IsLast
    <3>4. RFind(bp, ".") = 0 /\ RFind(bq, ".") = 0
      BY <1>5, <1>6, <3>3, RFindIs
    <3> QED
      BY <1>7, <3>4
  <2>2. CASE d = e
    <3>1. d \in 1..n /\ s < d /\ d # 0
      BY <1>3, <2>2
    <3>2. IsLast(bp, ".", d - s)
      <4>1. d - s \in 0..n - s /\ d - s \in 1..n - s /\ s + (d - s) = d
        BY <1>3, <3>1
      <4>2. bp[d - s] = "."
        BY <1>2, <1>5, <3>1, <4>1 DEF IsLast
      <4>3. ASSUME NEW i \in 1..n - s, bp[i] = "."
            PROVE  i <= d - s
        <5>1. s + i \in 1..n
          BY <1>3
        <5>2. p[s + i] = "."
          BY <1>5, <4>3
        <5>3. s + i <= d
          BY <1>2, <5>1, <5>2 DEF IsLast, n
        <5> QED
          BY <1>3, <5>3
      <4> QED
        BY <1>5, <4>1, <4>2, <4>3 DEF IsLast
    <3>3. IsLast(bq, ".", d + 1 - s)
      <4>1. d + 1 - s \in 0..n + 1 - s /\ d + 1 - s \in 1..n + 1 - s /\ s + (d + 1 - s) = d + 1
            /\ d + 1 \in e + 1..n + 1 /\ (d + 1) - 1 = d
        BY <1>3, <2>2, <3>1
      <4>2. bq[d + 1 - s] = "."
        <5>1. p[d] = "."
          BY <1>2, <3>1 DEF IsLast
        <5>2. q[d + 1] = "."
          BY <1>1, <4>1, <5>1
        <5> QED
          BY <1>6, <4>1, <5>2
      <4>3. ASSUME NEW i \in 1..n + 1 - s, bq[i] = "."
            PROVE  i <= d + 1 - s
        <5>1. s + i \in 1..n + 1
          BY <1>3
        <5>2. CASE s + i <= d
          BY <1>3, <5>2
        <5>3. CASE ~(s + i <= d)
          <6>1. s + i \in e + 1..n + 1 /\ (s + i) - 1 \in 1..n
            BY <1>3, <2>2, <5>1, <5>3
          <6>2. p[(s + i) - 1] = "."
            BY <1>1, <1>6, <4>3, <6>1
          <6>3. (s + i) - 1 <= d
            BY <1>2, <6>1, <6>2 DEF IsLast, n
          <6> QED
            BY <1>3, <6>3
        <5> QED
          BY <5>2, <5>3
      <4> QED
        BY <1>6, <4>1, <4>2, <4>3 DEF IsLast
    <3>4. RFind(bp, ".") = d - s /\ RFind(bq, ".") = d + 1 - s
      BY <1>5, <1>6, <3>2, <3>3, RFindIs
    <3> DEFINE ep == SubSeq(bp, d - s, n - s)
               eq == SubSeq(bq, d + 1 - s, n + 1 - s)
    <3>5. Ext(p) = ep /\ Ext(q) = eq
      <4>1. d - s # 0 /\ d + 1 - s # 0
        BY <1>3, <3>1
      <4> QED
        BY <1>5, <1>6, <1>7, <3>4, <4>1
    <3>6. ep \in Seq(S) /\ Len(ep) = n + 1 - d /\ \A j \in 1..n + 1 - d : ep[j] = p[d + j - 1]
      <4>1. /\ d - s \in 1..(n - s) + 1 /\ n - s \in 0..n - s /\ d - s <= (n - s) + 1
            /\ (n - s) + 1 - (d - s) = n + 1 - d
            /\ \A j \in 1..n + 1 - d : /\ (d - s) + j - 1 \in 1..n - s
                                       /\ s + ((d - s) + j - 1) = d + j - 1
        BY <1>3, <3>1
      <4>0. d - s \in 1..Len(bp) + 1 /\ n - s \in 0..Len(bp) /\ d - s <= (n - s) + 1
        BY <1>5, <4>1
      <4>2. /\ ep \in Seq(S) /\ Len(ep) = (n - s) + 1 - (d - s)
            /\ \A j \in 1..(n - s) + 1 - (d - s) : ep[j] = bp[(d - s) + j - 1]
        BY <1>5, <4>0, PartIs
      <4> HIDE DEF ep
      <4> QED
        BY <1>5, <4>1, <4>2
    <3>7. eq \in Seq(S) /\ Len(eq) = n + 1 - d /\ \A j \in 1..n + 1 - d : eq[j] = p[d + j - 1]
      <4>1. /\ d + 1 - s \in 1..(n + 1 - s) + 1 /\ n + 1 - s \in 0..n + 1 - s
            /\ d + 1 - s <= (n + 1 - s) + 1
            /\ (n + 1 - s) + 1 - (d + 1 - s) = n + 1 - d
            /\ \A j \in 1..n + 1 - d : /\ (d + 1 - s) + j - 1 \in 1..n + 1 - s
                                       /\ s + ((d + 1 - s) + j - 1) = d + j
                                       /\ d + j \in e + 1..n + 1
                                       /\ (d + j) - 1 = d + j - 1
        BY <1>3, <2>2, <3>1
      <4>2. /\ eq \in Seq(S) /\ Len(eq) = (n + 1 - s) + 1 - (d + 1 - s)
            /\ \A j \in 1..(n + 1 - s) + 1 - (d + 1 - s) : eq[j] = bq[(d + 1 - s) + j - 1]
        BY <1>6, <4>1, PartIs
      <4> HIDE DEF eq
      <4>3. \A j \in 1..n + 1 - d : eq[j] = q[d + j]
        BY <1>6, <4>1, <4>2
      <4>4. \A i \in e + 1..n + 1 : q[i] = p[i - 1]
        BY <1>1
      <4>5. \A j \in 1..n + 1 - d : q[d + j] = p[d + j - 1]
        BY <4>1, <4>4
      <4>6. Len(eq) = n + 1 - d
        BY <4>1, <4>2
      <4> QED
        BY <4>2, <4>3, <4>5, <4>6
    <3> HIDE DEF ep, eq
    <3>8. eq = ep
      BY <3>6, <3>7, SeqEqual
    <3> QED
      BY <3>5, <3>8
  <2> QED
    BY <1>1, <2>1, <2>2
<1> QED
  BY <1>8, <1>9, <1>10 DEF q, bq

\* The strings a path is made of.
Names == STRING \cup {"home", Suffix}

LEMMA ExpandType ==
  ASSUME NEW p \in Paths
  PROVE  Expand(p) \in Seq(Names)
<1>1. p \in Seq(STRING)
  BY LoggingAssumption
<1>2. p \in Seq(Names) /\ <<"home">> \in Seq(Names)
  <2>1. "home" \in Names /\ STRING \subseteq Names
    BY DEF Names
  <2>2. Seq(STRING) \subseteq Seq(Names)
    BY <2>1, SeqMonotonic
  <2>3. <<"home">> \in Seq(Names)
    BY <2>1
  <2> QED
    BY <1>1, <2>2, <2>3
<1>3. CASE Len(p) > 0 /\ p[1] = "~"
  <2>1. p # <<>>
    BY <1>3, EmptySeq
  <2>2. Tail(p) \in Seq(Names)
    BY <1>2, <2>1, HeadTailProperties
  <2>3. <<"home">> \o Tail(p) \in Seq(Names)
    BY <1>2, <2>2, ConcatProperties
  <2> QED
    BY <1>3, <2>3 DEF Expand
<1>4. CASE ~(Len(p) > 0 /\ p[1] = "~")
  BY <1>2, <1>4 DEF Expand
<1> QED
  BY <1>3, <1>4

\* The file, once there is one, is named after mpv's, and mpv's never changes.
PathInv ==
  /\ option \in Paths
  /\ path # <<>> => path = WithSuffix(Expand(option))

LEMMA PathStep == PathInv /\ [Next]_vars => PathInv'
<1> SUFFICES ASSUME PathInv, [Next]_vars PROVE PathInv'
  OBVIOUS
<1>1. CASE UNCHANGED vars
  BY <1>1 DEF PathInv, vars, disk
<1>2. ASSUME NEW i \in Inits, InitLogging(i)
      PROVE  PathInv'
  <2>1. CASE Create(i)
    BY <2>1 DEF Create, PathInv
  <2>2. CASE ~Create(i)
    BY <1>2, <2>2 DEF InitLogging, Now, InternalNow, InitPanics, SetLogger, SetMaxLevel, disk, PathInv
  <2> QED
    BY <2>1, <2>2
<1>3. ASSUME NEW t \in Threads, Logging(t) \/ (\E level \in Levels : Log(t, level))
      PROVE  PathInv'
  BY <1>3 DEF Logging, Stamp, Lock, Write, WritePiece, WriteFails, Log, disk, PathInv
<1>4. CASE Tick \/ SetClock
  BY <1>4 DEF Tick, SetClock, disk, PathInv
<1> QED
  BY <1>1, <1>2, <1>3, <1>4 DEF Next

\* For every path that mpv may be given, with dots, separators and "~" anywhere, the
\* logger's file lies in the directory of mpv's and has its extension
\* (logging.rs 86-99).
THEOREM FileIsBesideMpvLog == Spec => []BesideMpvLog
<1>1. Init => PathInv
  BY DEF Init, PathInv
<1>2. PathInv => BesideMpvLog
  <2> SUFFICES ASSUME PathInv, path # <<>>
               PROVE  /\ Dir(path) = Dir(Expand(option))
                      /\ Ext(path) = Ext(Expand(option))
                      /\ Contains(Base(path), Suffix)
    BY DEF BesideMpvLog
  <2>1. Expand(option) \in Seq(Names) /\ path = WithSuffix(Expand(option))
    BY ExpandType DEF PathInv
  <2>2. Suffix \in Names
    BY DEF Names
  <2> QED
    BY <2>1, <2>2, BesideIs
<1> QED
  BY <1>1, <1>2, PathStep, PTL DEF Spec

=============================================================================
