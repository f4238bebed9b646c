------------------------------ MODULE PollLock ------------------------------
(***************************************************************************)
(* What EventQueueToken promises (mpv-client/src/lib.rs 94-96 and 219-234):*)
(* polling the event queue of a handle is a lock on that handle.  A thread *)
(* that entered wait_event holds the lock until it gives up the Event; a   *)
(* handle cannot be closed while somebody holds its lock.                  *)
(***************************************************************************)
CONSTANTS Threads, Ptrs

VARIABLES open,     \* handles a program can call methods on
          polling   \* pairs <<t, p>>: thread t holds the lock of handle p

lockVars == <<open, polling>>

Held(p) == \E t \in Threads : <<t, p>> \in polling
Holds(t) == \E p \in Ptrs : <<t, p>> \in polling

LockInit == open = {} /\ polling = {}

Open(p) == p \notin open /\ open' = open \cup {p} /\ UNCHANGED polling

Close(p) == p \in open /\ ~Held(p) /\ open' = open \ {p} /\ UNCHANGED polling

Acquire(t, p) ==
  /\ p \in open
  /\ ~Held(p)
  /\ ~Holds(t)
  /\ polling' = polling \cup {<<t, p>>}
  /\ UNCHANGED open

Release(t, p) ==
  /\ <<t, p>> \in polling
  /\ polling' = polling \ {<<t, p>>}
  /\ UNCHANGED open

\* The process is aborted: nobody polls any more.
Abort == polling' = {} /\ UNCHANGED open

LockNext ==
  \/ \E p \in Ptrs : Open(p) \/ Close(p)
  \/ \E t \in Threads, p \in Ptrs : Acquire(t, p) \/ Release(t, p)
  \/ Abort

Spec == LockInit /\ [][LockNext]_lockVars

=============================================================================
