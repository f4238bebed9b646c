------------------------------ MODULE Logging ------------------------------
(***************************************************************************)
(* The process-wide logger (logging.rs): initialize_logging names a log     *)
(* file after mpv's own, creates it and installs the logger; any thread     *)
(* then logs through it.  A record gets its timestamp before the lock of    *)
(* the file and reaches the file in pieces under it.  The wall clock that   *)
(* stamps the records may be set by somebody else; mpv's clock only runs,   *)
(* from a zero of its own, which nothing relates to that of mpv's log file. *)
(***************************************************************************)
EXTENDS Integers, SequencesExt

CONSTANTS
  Threads,     \* the threads that log
  Inits,       \* the calls of initialize_logging, in separate threads
  Paths,       \* mpv's log-file paths, sequences of "~", ".", names and "/",
               \* which stands for either separator
  MaxRecords,  \* bound on the records of each thread
  MaxTime,     \* bound on both clocks
  MaxSets      \* bound on how often the wall clock is set

VARIABLES
  wall, mono,  \* SystemTime and mpv's internal time
  sets, back,  \* how often the wall clock was set, and whether ever back
  option,      \* mpv's log-file option
  init,        \* the initialize_logging calls: pc, the time read, the start time
  logger,      \* the installed logger: "none", "stderr" or "file"
  start,       \* the start time of the installed logger
  maxLevel,    \* log::max_level()
  path, file,  \* the log file: its path and the pieces of records in it
  pos,         \* the position of the logger's descriptor in the file
  cut,         \* the file was created again under a running logger
  lock,        \* the thread inside the file's Mutex, or none
  thr,         \* the threads: pc, the record being logged
  kept         \* kept[t]: the records of t that enabled() let through and whose
               \* writing did not fail

clocks == <<wall, mono, sets, back>>
installed == <<logger, start, maxLevel>>
disk == <<path, file, pos, cut>>
vars == <<clocks, option, init, installed, disk, lock, thr, kept>>

None == "none"
Off == 0
Error == 1
Info == 3
Debug == 4
Levels == {Error, Debug}
Suffix == "-name"
Hole == [thread |-> None, id |-> 0, part |-> 0]   \* bytes that were never written
Wall0 == 10         \* the two clocks when the process starts
Mono0 == 1
Largest(a, b) == IF a > b THEN a ELSE b

ASSUME LoggingAssumption ==
  /\ MaxTime \in Nat /\ Mono0 <= MaxTime
  /\ MaxSets \in Nat
  /\ MaxRecords \in [Threads -> Nat]
  /\ None \notin Threads
  /\ \A p \in Paths : p \in Seq(STRING)

---------------------------------------------------------------------------
(* initialize_logging.                                                     *)

\* A path is expanded by mpv (external) when it starts with "~".
Expand(p) == IF Len(p) > 0 /\ p[1] = "~" THEN <<"home">> \o Tail(p) ELSE p

RFind(p, c) == SelectLastInSeq(p, LAMBDA x : x = c)

\* Mutant: a dot in a directory name is taken for the extension.
WithSuffixAtDot(p) ==
  IF RFind(p, ".") = 0 THEN Append(p, Suffix) ELSE InsertAt(p, RFind(p, "."), Suffix)

\* The suffix goes before the extension, or to the end when the last dot belongs
\* to a directory.
WithSuffix(p) ==
  IF RFind(p, ".") = 0 \/ RFind(p, ".") < RFind(p, "/")
  THEN Append(p, Suffix)
  ELSE InsertAt(p, RFind(p, "."), Suffix)

Goto(i, l) == init' = [init EXCEPT ![i].pc = l]

\* Read the log-file option, which never changes, and with one the system clock;
\* without one there is no file to open.
Now(i) ==
  /\ init[i].pc = "path"
  /\ init' = IF option = <<>> THEN [init EXCEPT ![i].pc = "set"]
             ELSE [init EXCEPT ![i].pc = "internal", ![i].now = wall]
  /\ UNCHANGED <<clocks, option, installed, disk, lock, thr, kept>>

\* Mutant: the start time is not shifted to mpv's zero.
StartUnshifted(now, internal) == now

\* Mutant: the time since mpv's zero is added.
StartAdded(now, internal) == now + internal

\* When mpv's clock was zero, on the wall clock.
StartTime(now, internal) == now - internal

InternalNow(i) ==
  /\ init[i].pc = "internal"
  /\ init' = [init EXCEPT ![i] = [pc |-> "create", now |-> 0, start |-> StartTime(@.now, mono)]]
  /\ UNCHANGED <<clocks, option, installed, disk, lock, thr, kept>>

\* File::create truncates a file that is there already.
Create(i) ==
  /\ init[i].pc = "create"
  /\ path' = WithSuffix(Expand(option))
  /\ file' = <<>>
  /\ cut' = (cut \/ logger = "file")
  /\ Goto(i, "set")
  /\ UNCHANGED <<clocks, option, installed, pos, lock, thr, kept>>

\* One of init's expects: mpv refuses the option, the path or the time, or the
\* file cannot be created.
InitPanics(i) ==
  /\ init[i].pc \in {"path", "internal", "create"}
  /\ init' = [init EXCEPT ![i] = [pc |-> "panicked", now |-> 0, start |-> 0]]
  /\ UNCHANGED <<clocks, option, installed, disk, lock, thr, kept>>

\* Mutant: the last logger is taken.
SetLoggerAnyway(i) ==
  /\ init[i].pc = "set"
  /\ Goto(i, "level")
  /\ logger' = IF option = <<>> THEN "stderr" ELSE "file"
  /\ start' = init[i].start
  /\ pos' = 0
  /\ UNCHANGED <<clocks, option, maxLevel, path, file, cut, lock, thr, kept>>

\* set_boxed_logger takes the first logger only.
SetLogger(i) ==
  /\ init[i].pc = "set"
  /\ IF logger # None
     THEN init' = [init EXCEPT ![i].pc = "err", ![i].start = 0] /\ UNCHANGED <<installed, pos>>
     ELSE /\ Goto(i, "level")
          /\ logger' = IF option = <<>> THEN "stderr" ELSE "file"
          /\ start' = init[i].start
          /\ pos' = 0
          /\ UNCHANGED maxLevel
  /\ UNCHANGED <<clocks, option, path, file, cut, lock, thr, kept>>

SetMaxLevel(i) ==
  /\ init[i].pc = "level"
  /\ maxLevel' = Info
  /\ Goto(i, "ok")
  /\ UNCHANGED <<clocks, option, logger, start, disk, lock, thr, kept>>

---------------------------------------------------------------------------
(* MpvLogger::log.                                                         *)

\* The thread is back from log().
Returned(t) == [thr EXCEPT ![t] = [pc |-> "idle", id |-> @.id, stamp |-> 0, at |-> 0, part |-> 1]]

Enabled(level) == logger # None /\ level <= maxLevel

\* A thread logs a record; below the level it is gone, without a file it is done.
Log(t, level) ==
  /\ thr[t].pc = "idle"
  /\ thr[t].id < MaxRecords[t]
  /\ IF Enabled(level)
     THEN /\ thr' = [thr EXCEPT ![t].id = @ + 1,
                                ![t].pc = IF logger = "file" THEN "stamp" ELSE "idle"]
          /\ kept' = IF logger = "file" THEN [kept EXCEPT ![t] = @ \cup {thr[t].id + 1}]
                     ELSE kept
     ELSE /\ thr' = [thr EXCEPT ![t].id = @ + 1]
          /\ UNCHANGED kept
  /\ UNCHANGED <<clocks, option, init, installed, disk, lock>>

\* Mutant: a signed difference, never an error.
StampSigned(t) ==
  /\ thr[t].pc = "stamp"
  /\ thr' = [thr EXCEPT ![t].pc = "lock", ![t].stamp = wall - start, ![t].at = mono]
  /\ UNCHANGED <<clocks, option, init, installed, disk, lock, kept>>

\* start_time.elapsed(): an error, here a panic, when the clock is before the start.
Stamp(t) ==
  /\ thr[t].pc = "stamp"
  /\ thr' = IF wall < start THEN [thr EXCEPT ![t].pc = "panicked"]
            ELSE [thr EXCEPT ![t].pc = "lock", ![t].stamp = wall - start, ![t].at = mono]
  /\ UNCHANGED <<clocks, option, init, installed, disk, lock, kept>>

\* Mutant: a file without a Mutex.
AcquireShared(t) == TRUE

\* Mutex::lock.
Acquire(t) == lock = None

\* Mutant: try_lock, which gives the record up when the file is busy.
TryLock(t) ==
  /\ thr[t].pc = "lock"
  /\ IF lock = None
     THEN lock' = t /\ thr' = [thr EXCEPT ![t].pc = "write", ![t].part = 1]
     ELSE thr' = Returned(t) /\ UNCHANGED lock
  /\ UNCHANGED <<clocks, option, init, installed, disk, kept>>

Lock(t) ==
  /\ thr[t].pc = "lock"
  /\ Acquire(t)
  /\ lock' = t
  /\ thr' = [thr EXCEPT ![t].pc = "write", ![t].part = 1]
  /\ UNCHANGED <<clocks, option, init, installed, disk, kept>>

\* write_all writes a record piece by piece at the descriptor's position, which
\* leaves a hole in a file truncated meanwhile.
WritePiece(t) ==
  LET piece == [thread |-> t, id |-> thr[t].id, part |-> thr[t].part]
  IN /\ thr[t].pc = "write"
     /\ file' = [k \in 1..Largest(Len(file), pos + 1) |->
                   IF k = pos + 1 THEN piece ELSE IF k <= Len(file) THEN file[k] ELSE Hole]
     /\ pos' = pos + 1
     /\ thr' = IF thr[t].part = 1 THEN [thr EXCEPT ![t].part = 2]
               ELSE Returned(t)
     /\ UNCHANGED <<clocks, option, init, installed, path, cut, kept>>

\* Mutant: the guard of the Mutex is leaked.
WriteForgetsGuard(t) == WritePiece(t) /\ UNCHANGED lock

\* The guard is dropped after the last piece.
Write(t) ==
  /\ WritePiece(t)
  /\ lock' = IF thr[t].part = 1 THEN lock ELSE None

\* write_all fails, after one piece or before it, and nobody is told.
WriteFails(t) ==
  /\ thr[t].pc = "write"
  /\ thr' = Returned(t)
  /\ kept' = [kept EXCEPT ![t] = @ \ {thr[t].id}]
  /\ lock' = None
  /\ UNCHANGED <<clocks, option, init, installed, disk>>

---------------------------------------------------------------------------
(* The clocks (external): both run, and the wall clock may be set.          *)

Tick ==
  /\ mono < MaxTime
  /\ mono' = mono + 1
  /\ wall' = wall + 1
  /\ UNCHANGED <<sets, back, option, init, installed, disk, lock, thr, kept>>

SetClock ==
  /\ sets < MaxSets
  /\ sets' = sets + 1
  /\ \E d \in {-2, 2} : wall' = wall + d /\ back' = (back \/ d < 0)
  /\ UNCHANGED <<mono, option, init, installed, disk, lock, thr, kept>>

---------------------------------------------------------------------------

Init ==
  /\ wall = Wall0
  /\ mono = Mono0
  /\ sets = 0 /\ back = FALSE
  /\ option \in Paths
  /\ init = [i \in Inits |-> [pc |-> "path", now |-> 0, start |-> 0]]
  /\ logger = None
  /\ start = 0
  /\ maxLevel = Off
  /\ path = <<>>
  /\ file = <<>>
  /\ pos = 0 /\ cut = FALSE
  /\ lock = None
  /\ thr = [t \in Threads |-> [pc |-> "idle", id |-> 0, stamp |-> 0, at |-> 0, part |-> 1]]
  /\ kept = [t \in Threads |-> {}]

InitLogging(i) == Now(i) \/ InternalNow(i) \/ Create(i) \/ InitPanics(i)
                  \/ SetLogger(i) \/ SetMaxLevel(i)
Logging(t) == Stamp(t) \/ Lock(t) \/ Write(t) \/ WriteFails(t)

Next ==
  \/ \E i \in Inits : InitLogging(i)
  \/ \E t \in Threads : Logging(t) \/ (\E level \in Levels : Log(t, level))
  \/ Tick
  \/ SetClock

Spec == Init /\ [][Next]_vars

\* A thread inside log() is scheduled, and gets a lock that stays free.
LiveSpec == Spec /\ \A t \in Threads : WF_vars(Logging(t))

---------------------------------------------------------------------------
(* What the logger promises.                                               *)

\* Every variable holds a value of its type; the seconds of a stamp are never negative.
TypeOK ==
  /\ wall \in Int /\ mono \in 0..MaxTime /\ sets \in 0..MaxSets /\ back \in BOOLEAN
  /\ option \in Paths
  /\ \A i \in Inits : init[i].pc \in
       {"path", "internal", "create", "set", "level", "ok", "err", "panicked"}
  /\ logger \in {None, "stderr", "file"}
  /\ maxLevel \in {Off, Info}
  /\ lock \in Threads \cup {None}
  /\ \A t \in Threads : /\ thr[t].pc \in {"idle", "stamp", "lock", "write", "panicked"}
                        /\ thr[t].stamp \in Nat
  /\ \A k \in DOMAIN file : file[k].thread \in Threads \cup {None}
  /\ pos \in Nat /\ cut \in BOOLEAN

\* Where the records of a thread end that are whole in the file, and their numbers.
WholeOf(t) == {k \in DOMAIN file : file[k].thread = t /\ file[k].part = 2}
WrittenBy(t) == {file[k].id : k \in WholeOf(t)}

\* Records of different threads never mix: in the file the second piece of a record
\* follows its first (the Mutex of logging.rs 55), which only another initialize_logging
\* can take away, by creating the file again (logging.rs 101).
LinesWhole ==
  \A k \in DOMAIN file : file[k].part = 2 =>
    /\ k > 1
    /\ file[k - 1] \in {[file[k] EXCEPT !.part = 1]} \cup (IF cut THEN {Hole} ELSE {})

\* Every record that enabled() lets through and that can be written is in the file once
\* log() has returned, once and in the order the thread logged them, however the threads
\* race for the file (logging.rs 55-57).  An initialize_logging that comes too late loses
\* the oldest records and no others.
InOrder == \A t \in Threads :
  /\ \A k, l \in WholeOf(t) : k < l => file[k].id < file[l].id
  /\ thr[t].pc \in {"idle", "panicked"} =>
       LET logged == IF thr[t].pc = "idle" THEN kept[t] ELSE kept[t] \ {thr[t].id}
       IN IF cut THEN \E n \in 0..thr[t].id : WrittenBy(t) = {x \in logged : x > n}
          ELSE WrittenBy(t) = logged

\* "Returns log::SetLoggerError if a logger is already set" (lib.rs 958), and only then:
\* of several initialize_logging calls that race, one at most installs its logger, and
\* none fails before one did.
OneLogger ==
  LET Winners == {i \in Inits : init[i].pc \in {"level", "ok"}}
  IN /\ \A i, j \in Winners : i = j
     /\ (\E i \in Inits : init[i].pc = "err") => Winners # {}

\* The file is found beside mpv's: in the same directory, with the same extension,
\* the suffix in the file name (logging.rs 86-99).
Dir(p) == SubSeq(p, 1, RFind(p, "/"))
Base(p) == SubSeq(p, RFind(p, "/") + 1, Len(p))
Ext(p) == IF RFind(Base(p), ".") = 0 THEN <<>>
          ELSE SubSeq(Base(p), RFind(Base(p), "."), Len(Base(p)))
BesideMpvLog == path # <<>> =>
  /\ Dir(path) = Dir(Expand(option))
  /\ Ext(path) = Ext(Expand(option))
  /\ Contains(Base(path), Suffix)

\* While nobody sets the wall clock, all stamps keep one distance to the internal time of
\* mpv, the time that passed between the two clock reads of init, and never fall behind
\* it (logging.rs 81-84 and 102).  The lines of mpv's --log-file need not count from the
\* zero of that time (lib.rs 713-716), so this is less than README.md 14 says.
StampsAligned == sets = 0 =>
  \A t \in Threads : thr[t].pc \in {"lock", "write"} =>
    \E i \in Inits : /\ init[i].pc \in {"level", "ok"}
                     /\ thr[t].stamp - thr[t].at = Wall0 - Mono0 - init[i].start
                     /\ thr[t].stamp >= thr[t].at

\* log() finds that "start_time is valid" (logging.rs 51).
StartTimeValid == \A t \in Threads : thr[t].pc # "panicked"

\* Nothing but a clock that is set back makes log() panic on the start time: a clock set
\* forward does not, between the two clock reads of init or at any time after, and neither
\* does the order in which init reads the clocks (logging.rs 48-51 and 81-84).
PanicsOnlyIfSetBack == back \/ StartTimeValid

\* A thread that logs a record gets out of log(), or panics on a clock set back: it never
\* waits for ever for the file (logging.rs 56).
LogReturns == \A t \in Threads : thr[t].pc = "stamp" ~> thr[t].pc \in {"idle", "panicked"}

===========================================================================
