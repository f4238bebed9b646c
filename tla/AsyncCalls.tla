----------------------------- MODULE AsyncCalls -----------------------------
(***************************************************************************)
(* What the *_async calls of a handle promise (mpv-client/src/lib.rs       *)
(* 327-342, 746-776): a call either fails, and then no event comes, or the *)
(* program gets exactly one reply, unless it stops polling its event queue *)
(* first.  A command that may run forever has to be aborted for that.      *)
(***************************************************************************)
CONSTANTS Requests,
          Endless    \* commands that need not end before they are aborted

VARIABLES call,     \* call[r]: "unsent", "failed", "pending" or "answered"
          aborted,  \* requests that were aborted while they were pending
          over      \* the program left its event loop

callVars == <<call, aborted, over>>

CallsInit == call = [r \in Requests |-> "unsent"] /\ aborted = {} /\ over = FALSE

Move(r, from, to) ==
  /\ ~over
  /\ call[r] = from
  /\ call' = [call EXCEPT ![r] = to]
  /\ UNCHANGED <<aborted, over>>

Fail(r) == Move(r, "unsent", "failed")
Send(r) == Move(r, "unsent", "pending")
Answer(r) == Move(r, "pending", "answered")

\* An abort ends nothing by itself, and one that comes too early or too late does
\* nothing at all.
Abort(r) ==
  /\ call[r] = "pending"
  /\ aborted' = aborted \cup {r}
  /\ UNCHANGED <<call, over>>

Leave == over' = TRUE /\ UNCHANGED <<call, aborted>>

CallsNext ==
  \/ \E r \in Requests : Fail(r) \/ Send(r) \/ Answer(r) \/ Abort(r)
  \/ Leave

SafeSpec == CallsInit /\ [][CallsNext]_callVars

Spec ==
  /\ SafeSpec
  /\ \A r \in Requests : WF_callVars((r \in Endless => r \in aborted) /\ Answer(r))

=============================================================================
