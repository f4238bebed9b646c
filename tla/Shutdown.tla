------------------------------ MODULE Shutdown ------------------------------
(***************************************************************************)
(* How a player core goes down: threads that make clients of one core,     *)
(* pass them on, run the event loop of the README and drop what they own   *)
(* (create_client, create_weak_client, Handle::destroy and Drop for Client *)
(* of mpv-client/src/lib.rs).                                              *)
(*                                                                         *)
(* mpv_destroy on the last strong handle of a core blocks until every weak *)
(* handle is gone, and a weak handle goes when the thread that owns it has *)
(* got Event::Shutdown.  A thread owns its clients as local variables:     *)
(* Rust drops them in the reverse order in which it got them.  Nothing in  *)
(* the types keeps a thread from getting a strong client after a weak one, *)
(* and then from waiting for its own weak client: the properties say that  *)
(* nothing else goes wrong.                                                *)
(***************************************************************************)
EXTENDS Naturals, Sequences, SequencesExt

CONSTANTS Threads,   \* threads that own a client
          StrongAt,  \* the threads whose first client is a strong one
          MaxOwned   \* bound: clients a thread owns

ASSUME ShutdownAssumption ==
  /\ StrongAt \subseteq Threads
  /\ MaxOwned \in Nat \ {0}

VARIABLES owned,  \* owned[t]: the clients of t, "strong" or "weak", oldest first
          pc,     \* pc[t]: "loop", "leaving" or "done"
          dying,  \* dying[t]: what t has given to mpv_destroy: "none", "last" or "other"
          core,   \* "running" or "shutdown"
          mixed   \* history: the threads that got a strong client while they had a weak one

vars == <<owned, pc, dying, core, mixed>>

Owns(t, kind) == \E i \in 1..Len(owned[t]) : owned[t][i] = kind

\* Clients of the core that are not yet in mpv_destroy.
StrongLeft == \E t \in Threads : Owns(t, "strong")
ClientsLeft == \E t \in Threads : owned[t] # <<>>

\* t runs its loop; it is not held up in mpv_destroy.
InLoop(t) == pc[t] = "loop" /\ dying[t] = "none"

\* t gets one more client of this kind.
Takes(t, kind) ==
  /\ InLoop(t)
  /\ Len(owned[t]) < MaxOwned
  /\ mixed' = mixed \cup {u \in {t} : kind = "strong" /\ Owns(u, "weak")}

Init ==
  /\ owned = [t \in Threads |-> IF t \in StrongAt THEN <<"strong">> ELSE <<"weak">>]
  /\ pc = [t \in Threads |-> "loop"]
  /\ dying = [t \in Threads |-> "none"]
  /\ core = "running"
  /\ mixed = {}

\* mpv_create_client and mpv_create_weak_client: a core that shuts down has no
\* handle for a new client.
MpvCreate(kind) == IF core = "running" THEN kind ELSE "null"

\* Mutant: the handle is not tested for null.
CreateUnchecked(t, kind) ==
  /\ Takes(t, kind)
  /\ owned' = [owned EXCEPT ![t] = Append(@, MpvCreate(kind))]
  /\ UNCHANGED <<pc, dying, core>>

\* create_client and create_weak_client, through any handle of the core: no
\* handle is Err(Nomem) and no Client.
Create(t, kind) ==
  /\ Takes(t, kind)
  /\ MpvCreate(kind) # "null"
  /\ owned' = [owned EXCEPT ![t] = Append(@, MpvCreate(kind))]
  /\ UNCHANGED <<pc, dying, core>>

CreateStrong(t) == Create(t, "strong")
CreateWeak(t) == Create(t, "weak")

\* A Client is Send: t, which keeps one to poll, gives client number i to u.
Give(t, i, u) ==
  /\ t # u /\ InLoop(t) /\ Len(owned[t]) > 1
  /\ Takes(u, owned[t][i])
  /\ owned' = [owned EXCEPT ![t] = RemoveAt(@, i), ![u] = Append(@, owned[t][i])]
  /\ UNCHANGED <<pc, dying, core>>

\* The player quits, by the user or by a command.
Quit ==
  /\ core = "running"
  /\ core' = "shutdown"
  /\ UNCHANGED <<owned, pc, dying, mixed>>

\* Leaving the loop, for a reason of the program's own.
Leave(t) ==
  /\ InLoop(t)
  /\ pc' = [pc EXCEPT ![t] = "leaving"]
  /\ UNCHANGED <<owned, dying, core, mixed>>

\* Mutant: the loop does not break on Event::Shutdown.
SeeShutdownIgnored(t) ==
  /\ InLoop(t)
  /\ core = "shutdown"
  /\ UNCHANGED vars

\* The loop gets Event::Shutdown and breaks.
SeeShutdown(t) == core = "shutdown" /\ Leave(t)

\* mpv_destroy on client number i of t: the last strong one takes the core down.
Destroy(t, i) ==
  /\ dying[t] = "none"
  /\ i \in 1..Len(owned[t])
  /\ owned' = [owned EXCEPT ![t] = RemoveAt(@, i)]
  /\ UNCHANGED <<pc, mixed>>
  /\ LET last == owned[t][i] = "strong" /\ ~StrongLeft'
     IN  /\ dying' = [dying EXCEPT ![t] = IF last THEN "last" ELSE "other"]
         /\ core' = IF last THEN "shutdown" ELSE core

\* Mutant: the clients are fields of a struct, dropped oldest first.
DropOldest(t) == pc[t] = "leaving" /\ Destroy(t, 1)

\* A thread that has left its loop drops the youngest of its clients.
DropClient(t) == pc[t] = "leaving" /\ Destroy(t, Len(owned[t]))

\* A scope inside the loop ends and drops the client it made.
EndScope(t) == pc[t] = "loop" /\ Len(owned[t]) > 1 /\ Destroy(t, Len(owned[t]))

\* mpv_destroy waits for the other handles only if it took down the core.
DestroyReturn(t) ==
  /\ dying[t] # "none"
  /\ dying[t] = "last" => ~ClientsLeft
  /\ dying' = [dying EXCEPT ![t] = "none"]
  /\ UNCHANGED <<owned, pc, core, mixed>>

Finish(t) ==
  /\ pc[t] = "leaving" /\ dying[t] = "none"
  /\ owned[t] = <<>>
  /\ pc' = [pc EXCEPT ![t] = "done"]
  /\ UNCHANGED <<owned, dying, core, mixed>>

Next ==
  \/ Quit
  \/ \E t \in Threads :
       \/ CreateStrong(t) \/ CreateWeak(t)
       \/ \E u \in Threads : \E i \in 1..Len(owned[t]) : Give(t, i, u)
       \/ Leave(t) \/ SeeShutdown(t) \/ EndScope(t)
       \/ DropClient(t) \/ DestroyReturn(t) \/ Finish(t)

Spec == Init /\ [][Next]_vars

\* A thread runs on until it blocks, a loop that is polled gets Event::Shutdown,
\* and mpv_destroy returns when it can.  Nobody has to leave, to quit, to end a
\* scope or to pass a client on.
LiveSpec ==
  /\ Spec
  /\ \A t \in Threads :
       /\ WF_vars(SeeShutdown(t))
       /\ WF_vars(DropClient(t))
       /\ WF_vars(DestroyReturn(t))
       /\ WF_vars(Finish(t))

-----------------------------------------------------------------------------
\* Every variable holds a value of its type; in particular no thread has a Client
\* without a handle, whoever took the core down while it was made (lib.rs 159-160).
TypeOK ==
  /\ owned \in [Threads -> BoundedSeq({"strong", "weak"}, MaxOwned)]
  /\ pc \in [Threads -> {"loop", "leaving", "done"}]
  /\ dying \in [Threads -> {"none", "last", "other"}]
  /\ core \in {"running", "shutdown"}
  /\ mixed \subseteq Threads

\* A thread that waits in mpv_destroy for the other clients of its core waits neither
\* for a strong one, nor for a thread that waits like it, nor, unless it got a strong
\* client while it had a weak one, for one of its own: each client it waits for is weak
\* and told to go (lib.rs 978-984).
WaitsForOthers ==
  \A t \in Threads : dying[t] = "last" =>
    /\ core = "shutdown"
    /\ t \in mixed \/ owned[t] = <<>>
    /\ ~StrongLeft
    /\ \A u \in Threads \ {t} : dying[u] # "last"

\* A drop that blocks in mpv_destroy returns, unless its own thread got a strong client
\* while it had a weak one; it does not matter what the other threads did (lib.rs
\* 993-997).
DropsReturn == \A t \in Threads : (dying[t] # "none" /\ t \notin mixed) ~> dying[t] = "none"

\* Once a core goes down, because the player quits or because its last strong client is
\* dropped, every client of it is dropped (lib.rs 168-172), or a thread that got a
\* strong client while it had a weak one waits in mpv_destroy for a client of its own.
WaitsForItself(t) == dying[t] = "last" /\ t \in mixed /\ owned[t] # <<>>
ClientsDisconnect ==
  core = "shutdown" ~> (~ClientsLeft \/ \E t \in Threads : WaitsForItself(t))

=============================================================================
