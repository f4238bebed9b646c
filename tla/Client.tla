------------------------------- MODULE Client -------------------------------
(***************************************************************************)
(* Ownership of libmpv handles and of the right to poll their event queue: *)
(* the types Handle, Client, UninitializedClient, EventQueueToken and      *)
(* Event of mpv-client/src/lib.rs, used by any number of threads.          *)
(*                                                                         *)
(* A handle address p is a block of memory that libmpv allocates and       *)
(* frees, so an address comes back after it was freed.  A token is a Rust  *)
(* value that holds an id and nothing else; the field "core" of a token is *)
(* history that no action reads.  The borrow checker appears as guards: a  *)
(* method needs a live owner of its receiver, wait_event needs a token     *)
(* nobody else borrows, and a drop needs a value nobody borrows.  Nothing  *)
(* but the id test of wait_event ties a token to a handle.                 *)
(***************************************************************************)
EXTENDS Naturals, FiniteSets

CONSTANTS Threads,    \* threads of the process
          Ptrs,       \* addresses at which libmpv allocates an mpv_handle
          Slots,      \* places where a program keeps an EventQueueToken
          Cores,      \* player cores, one per mpv_create or per mpv process
          HostCores,  \* cores whose player is the mpv program itself
          MaxId,      \* bound: ids a core hands out
          StaticMain, \* the plugin's main takes a &'static Handle
          None        \* absence of a thread, handle, token or core

ASSUME ClientAssumption ==
  /\ HostCores \subseteq Cores
  /\ MaxId \in Nat
  /\ StaticMain \in BOOLEAN
  /\ None \notin Threads \cup Ptrs \cup Slots \cup Cores

VARIABLES core,    \* core[c]: "none", "running" or "shutdown"
          lastId,  \* lastId[c]: the last client id core c handed out
          mode,    \* mode[p]: which Rust value owns the handle at p
          birth,   \* birth[p]: facts fixed when the handle at p was allocated
          token,   \* token[k]: the EventQueueToken in slot k, or NoToken
          pc,      \* pc[t]: what thread t is doing
          at,      \* at[t]: the handle it is doing it to
          borrow,  \* borrow[t]: the slot of the token t has borrowed
          event    \* event[p]: thread whose Event reads the mpv_event of p

vars == <<core, lastId, mode, birth, token, pc, at, borrow, event>>

Modes == {"free", "Uninit", "Client", "Plugin", "dying", "terminating"}
Steps == {"idle", "init", "call", "wait", "event", "destroy", "panicked",
          "aborted"}

NoBirth == [core |-> None, id |-> 0, weak |-> FALSE, runner |-> None]
NoToken == [core |-> None, id |-> 0]

Births == [core : Cores, id : 1..MaxId, weak : BOOLEAN,
           runner : Threads \cup {None}]
Tokens == [core : Cores, id : 1..MaxId]

-----------------------------------------------------------------------------
(* What the type system lets a program name.                               *)

\* Code can hold a &Handle to p: a Client derefs to it, from_ptr made one.
Shared(p) == mode[p] \in {"Client", "Plugin"}

\* Some thread is inside a call on p, or holds an Event<'h> that borrows it.
Borrowed(p) == \E t \in Threads : at[t] = p

\* Mutant: EventQueueToken derives Copy, so a borrowed token is used again.
TokenBorrowedCopy(k) == FALSE

\* The &'h mut borrow of the token in slot k lasts as long as the Event.
TokenBorrowed(k) == \E t \in Threads : borrow[t] = k

SameCore(p, q) == mode[q] # "free" /\ birth[q].core = birth[p].core

\* p is the last strong reference to its core (lib.rs 981-985).
LastStrong(p) ==
  /\ ~birth[p].weak
  /\ birth[p].core \notin HostCores
  /\ \A q \in Ptrs \ {p} : SameCore(p, q) =>
       birth[q].weak \/ mode[q] \in {"dying", "terminating"}

\* libmpv allocates a handle at p with a fresh id; the caller puts the token
\* with that id, read back by mpv_client_id, in slot k.
Mint(p, k, c, m, weak, runner) ==
  /\ mode[p] = "free"
  /\ token[k] = NoToken
  /\ lastId[c] < MaxId
  /\ lastId' = [lastId EXCEPT ![c] = @ + 1]
  /\ mode' = [mode EXCEPT ![p] = m]
  /\ birth' = [birth EXCEPT ![p] = [core |-> c, id |-> lastId[c] + 1,
                                    weak |-> weak, runner |-> runner]]
  /\ token' = [token EXCEPT ![k] = [core |-> c, id |-> lastId[c] + 1]]

\* Mutant: wait_event without its assertion.
MatchesAny(p, k) == TRUE

\* The test of wait_event: ids are compared, nothing else.
Matches(p, k) == birth[p].id = token[k].id

-----------------------------------------------------------------------------
Init ==
  /\ core = [c \in Cores |-> IF c \in HostCores THEN "running" ELSE "none"]
  /\ lastId = [c \in Cores |-> 0]
  /\ mode = [p \in Ptrs |-> "free"]
  /\ birth = [p \in Ptrs |-> NoBirth]
  /\ token = [k \in Slots |-> NoToken]
  /\ pc = [t \in Threads |-> "idle"]
  /\ at = [t \in Threads |-> None]
  /\ borrow = [t \in Threads |-> None]
  /\ event = [p \in Ptrs |-> None]

\* Client::create.  A null handle is Err(Nomem) and changes nothing.
Create(t, p, k, c) ==
  /\ pc[t] = "idle"
  /\ core[c] = "none"
  /\ core' = [core EXCEPT ![c] = "running"]
  /\ Mint(p, k, c, "Uninit", FALSE, None)
  /\ UNCHANGED <<pc, at, borrow, event>>

\* Handle::create_client and create_weak_client through a &Handle of p0.  A
\* core that shuts down makes no more clients (a null handle: Err(Nomem)).
CreateClient(t, p0, p, k, weak) ==
  LET c == birth[p0].core
  IN  /\ pc[t] = "idle"
      /\ Shared(p0)
      /\ core[c] = "running"
      /\ Mint(p, k, c, "Client", weak, None)
      /\ UNCHANGED <<core, pc, at, borrow, event>>

\* mpv runs mpv_open_cplugin on a thread of its own with a weak handle; the
\* entry point calls Handle::from_ptr on it.
PluginOpen(t, p, k, c) ==
  /\ pc[t] = "idle"
  /\ core[c] = "running"
  /\ c \in HostCores
  /\ \A q \in Ptrs : birth[q].runner # t
  /\ Mint(p, k, c, "Plugin", TRUE, t)
  /\ UNCHANGED <<core, pc, at, borrow, event>>

\* UninitializedClient::initialize enters mpv_initialize, owning self.
InitializeCall(t, p) ==
  /\ pc[t] = "idle"
  /\ mode[p] = "Uninit"
  /\ ~Borrowed(p)
  /\ pc' = [pc EXCEPT ![t] = "init"]
  /\ at' = [at EXCEPT ![t] = p]
  /\ UNCHANGED <<core, lastId, mode, birth, token, borrow, event>>

\* mpv_initialize succeeded: self is forgotten, a Client owns the handle.
InitializeOk(t) ==
  /\ pc[t] = "init"
  /\ mode' = [mode EXCEPT ![at[t]] = "Client"]
  /\ pc' = [pc EXCEPT ![t] = "idle"]
  /\ at' = [at EXCEPT ![t] = None]
  /\ UNCHANGED <<core, lastId, birth, token, borrow, event>>

\* Handle::destroy enters mpv_destroy.  The last strong handle takes the core
\* down; the content of the handle's mpv_event goes with the handle.
Destroy(t, p) ==
  /\ mode' = [mode EXCEPT ![p] = IF LastStrong(p) THEN "terminating" ELSE "dying"]
  /\ core' = IF LastStrong(p) THEN [core EXCEPT ![birth[p].core] = "shutdown"]
             ELSE core
  /\ pc' = [pc EXCEPT ![t] = "destroy"]
  /\ at' = [at EXCEPT ![t] = p]
  /\ event' = [event EXCEPT ![p] = None]
  /\ UNCHANGED <<lastId, birth, token, borrow>>

\* mpv_initialize failed: self is dropped on the way out.
InitializeErr(t) ==
  /\ pc[t] = "init"
  /\ Destroy(t, at[t])

\* Mutant: a Client that is dropped while it is borrowed.
DropClientBorrowed(t, p) ==
  /\ pc[t] = "idle"
  /\ mode[p] \in {"Uninit", "Client"}
  /\ Destroy(t, p)

\* Drop of a Client or of an UninitializedClient that nothing borrows.
DropClient(t, p) ==
  /\ pc[t] = "idle"
  /\ mode[p] \in {"Uninit", "Client"}
  /\ ~Borrowed(p)
  /\ Destroy(t, p)

\* The plugin's main returns on its own thread and mpv destroys its handle.
\* from_ptr<'a> lets its caller choose 'a, and the entry point that the macro
\* generates leaves the choice to main: with &'a Handle every other thread has
\* given its borrow back, with &'static Handle nothing makes it.
PluginReturn(t, p) ==
  /\ pc[t] = "idle"
  /\ mode[p] = "Plugin"
  /\ birth[p].runner = t
  /\ StaticMain \/ ~Borrowed(p)
  /\ Destroy(t, p)

\* mpv_destroy returns, for a terminating handle once no other handle of the
\* core is left, and the address is free again.
DestroyReturn(t) ==
  LET p == at[t]
  IN  /\ pc[t] = "destroy"
      /\ mode[p] = "terminating" => \A q \in Ptrs \ {p} : ~SameCore(p, q)
      /\ mode' = [mode EXCEPT ![p] = "free"]
      /\ birth' = [birth EXCEPT ![p] = NoBirth]
      /\ pc' = [pc EXCEPT ![t] = "idle"]
      /\ at' = [at EXCEPT ![t] = None]
      /\ UNCHANGED <<core, lastId, token, borrow, event>>

\* Mutant: a method that empties the event queue without the token.
CallBeginPolls(t, p) ==
  /\ pc[t] = "idle"
  /\ Shared(p)
  /\ pc' = [pc EXCEPT ![t] = "call"]
  /\ at' = [at EXCEPT ![t] = p]
  /\ event' = [event EXCEPT ![p] = None]
  /\ UNCHANGED <<core, lastId, mode, birth, token, borrow>>

\* Any method that takes &self and returns no borrow: thread-safe in libmpv.
CallBegin(t, p) ==
  /\ pc[t] = "idle"
  /\ Shared(p)
  /\ pc' = [pc EXCEPT ![t] = "call"]
  /\ at' = [at EXCEPT ![t] = p]
  /\ UNCHANGED <<core, lastId, mode, birth, token, borrow, event>>

CallReturn(t) ==
  /\ pc[t] = "call"
  /\ pc' = [pc EXCEPT ![t] = "idle"]
  /\ at' = [at EXCEPT ![t] = None]
  /\ UNCHANGED <<core, lastId, mode, birth, token, borrow, event>>

\* wait_event passes its id test and enters mpv_wait_event, which drops what
\* the previous event of this handle pointed to.
WaitCall(t, p, k) ==
  /\ pc[t] = "idle"
  /\ Shared(p)
  /\ token[k] # NoToken
  /\ ~TokenBorrowed(k)
  /\ Matches(p, k)
  /\ pc' = [pc EXCEPT ![t] = "wait"]
  /\ at' = [at EXCEPT ![t] = p]
  /\ borrow' = [borrow EXCEPT ![t] = k]
  /\ event' = [event EXCEPT ![p] = None]
  /\ UNCHANGED <<core, lastId, mode, birth, token>>

\* The id test fails.  The panic ends the thread; in the thread of a plugin it
\* reaches the extern "C" entry point and aborts the process.
WaitMismatch(t, p, k) ==
  /\ pc[t] = "idle"
  /\ Shared(p)
  /\ token[k] # NoToken
  /\ ~TokenBorrowed(k)
  /\ ~Matches(p, k)
  /\ pc' = IF \E q \in Ptrs : birth[q].runner = t
           THEN [u \in Threads |-> "aborted"]
           ELSE [pc EXCEPT ![t] = "panicked"]
  /\ UNCHANGED <<core, lastId, mode, birth, token, at, borrow, event>>

\* Mutant: the lifetime of the Event is that of the handle alone.
WaitReturnReleases(t) ==
  /\ pc[t] = "wait"
  /\ pc' = [pc EXCEPT ![t] = "event"]
  /\ event' = [event EXCEPT ![at[t]] = t]
  /\ borrow' = [borrow EXCEPT ![t] = None]
  /\ UNCHANGED <<core, lastId, mode, birth, token, at>>

\* mpv_wait_event returns: an event, a timeout or a wakeup.  The Event<'h>
\* built from it points into the mpv_event of the handle.
WaitReturn(t) ==
  /\ pc[t] = "wait"
  /\ pc' = [pc EXCEPT ![t] = "event"]
  /\ event' = [event EXCEPT ![at[t]] = t]
  /\ UNCHANGED <<core, lastId, mode, birth, token, at, borrow>>

\* The Event goes out of scope and both of its borrows end.
DropEvent(t) ==
  /\ pc[t] = "event"
  /\ pc' = [pc EXCEPT ![t] = "idle"]
  /\ at' = [at EXCEPT ![t] = None]
  /\ borrow' = [borrow EXCEPT ![t] = None]
  /\ UNCHANGED <<core, lastId, mode, birth, token, event>>

\* A token may be dropped before, after or without its handle.
DropToken(t, k) ==
  /\ pc[t] = "idle"
  /\ token[k] # NoToken
  /\ ~TokenBorrowed(k)
  /\ token' = [token EXCEPT ![k] = NoToken]
  /\ UNCHANGED <<core, lastId, mode, birth, pc, at, borrow, event>>

\* The player quits, by the user or by a command: its clients see SHUTDOWN.
Quit(c) ==
  /\ core[c] = "running"
  /\ \A t \in Threads : pc[t] # "aborted"
  /\ core' = [core EXCEPT ![c] = "shutdown"]
  /\ UNCHANGED <<lastId, mode, birth, token, pc, at, borrow, event>>

ThreadStep(t) ==
  \/ InitializeOk(t) \/ InitializeErr(t)
  \/ DestroyReturn(t) \/ CallReturn(t) \/ WaitReturn(t) \/ DropEvent(t)
  \/ \E p \in Ptrs : \/ InitializeCall(t, p) \/ DropClient(t, p)
                     \/ PluginReturn(t, p) \/ CallBegin(t, p)
  \/ \E k \in Slots : DropToken(t, k)
  \/ \E p \in Ptrs, k \in Slots : WaitCall(t, p, k) \/ WaitMismatch(t, p, k)
  \/ \E p \in Ptrs, k \in Slots, c \in Cores : Create(t, p, k, c) \/ PluginOpen(t, p, k, c)
  \/ \E p0, p \in Ptrs, k \in Slots, weak \in BOOLEAN : CreateClient(t, p0, p, k, weak)

Next == (\E t \in Threads : ThreadStep(t)) \/ (\E c \in Cores : Quit(c))

Spec == Init /\ [][Next]_vars

-----------------------------------------------------------------------------
Polling(t) == pc[t] \in {"wait", "event"}

Typed ==
  /\ core \in [Cores -> {"none", "running", "shutdown"}]
  /\ lastId \in [Cores -> 0..MaxId]
  /\ mode \in [Ptrs -> Modes]
  /\ birth \in [Ptrs -> Births \cup {NoBirth}]
  /\ token \in [Slots -> Tokens \cup {NoToken}]
  /\ pc \in [Threads -> Steps]
  /\ at \in [Threads -> Ptrs \cup {None}]
  /\ borrow \in [Threads -> Slots \cup {None}]
  /\ event \in [Ptrs -> Threads \cup {None}]

\* Every variable holds a value of its type, and the borrows are those of the
\* signatures: a thread has a handle while it is in a call or holds an Event, and a
\* token that exists from the test of wait_event until the Event is gone, through
\* whatever other threads do (lib.rs 240-248).
TypeOK ==
  /\ Typed
  /\ \A t \in Threads : pc[t] # "aborted" =>
       /\ at[t] # None <=> pc[t] \in {"init", "call", "wait", "event", "destroy"}
       /\ borrow[t] # None <=> Polling(t)
       /\ Polling(t) => token[borrow[t]] # NoToken

\* No two threads poll the event queue of one handle: while a thread is inside
\* mpv_wait_event or still reads the Event it got, no other one polls the same
\* handle, whatever tokens are moved, kept after their handle or mixed up
\* (lib.rs 226-230).
ExclusivePolling ==
  \A t, u \in Threads : t # u /\ Polling(t) /\ Polling(u) => at[t] # at[u]

\* Wherever wait_event got past its test, the token it borrows is the one that
\* was minted for this very handle: a kept token never fits a handle that
\* libmpv allocated later, at the same address or not (lib.rs 238-239).
TokenFitsHandle ==
  \A t \in Threads : Polling(t) =>
    token[borrow[t]] = [core |-> birth[at[t]].core, id |-> birth[at[t]].id]

\* The data an Event<'h> points to is still in the handle's mpv_event: neither
\* a later wait_event nor a destroy dropped it while the Event lives.
EventFresh == \A t \in Threads : pc[t] = "event" => event[at[t]] = t

\* A thread inside libmpv works on a handle that is allocated and in the state
\* the call needs, and no two threads destroy or initialize the same handle:
\* no use after free, no double mpv_destroy, no drop under a running call.
HandleAlive ==
  \A t \in Threads :
    /\ Polling(t) \/ pc[t] = "call" => Shared(at[t])
    /\ pc[t] = "init" => mode[at[t]] = "Uninit"
    /\ pc[t] = "destroy" => mode[at[t]] \in {"dying", "terminating"}
    /\ pc[t] \in {"init", "destroy"} =>
         \A u \in Threads \ {t} : at[u] # at[t]

\* While a thread is busy with a handle, the handle at that address stays the
\* one the thread found there: it is not freed and allocated anew under it.
NoReuseUnderCall ==
  [][\A t \in Threads : at[t] # None /\ at'[t] = at[t] => birth'[at[t]] = birth[at[t]]]_vars

-----------------------------------------------------------------------------
(* The exclusive right to poll, as module PollLock states it.              *)
polling == {e \in Threads \X Ptrs : Polling(e[1]) /\ at[e[1]] = e[2]}
open == {p \in Ptrs : Shared(p)}

Lock == INSTANCE PollLock

\* The token protocol implements a lock per handle (lib.rs 94-96, 226-230).
ImplementsLock == Lock!Spec

=============================================================================
