---------------------------- MODULE MCEventLoop ----------------------------
(* Instances of EventLoop for TLC.                                         *)
EXTENDS EventLoop, TLC

CONSTANTS r1, r2

TwoRequests == {r1, r2}

\* A request that ends by itself and a command.
MCReplyOf == [r \in Requests |->
  CASE r = r1 -> "SET_PROPERTY_REPLY"
    [] r = r2 -> "COMMAND_REPLY"]

\* The command, like one that runs a subprocess.
OneEndless == {r2}

\* An observation each of two properties under one number, and another of the
\* second property under another number.
MCUserOf == [o1 |-> "u1", o2 |-> "u1", o3 |-> "u2"]
MCNameOf == [o1 |-> "pause", o2 |-> "volume", o3 |-> "volume"]

\* Success and MPV_ERROR_COMMAND.
TwoOutcomes == {0, -12}

Blocking == {"forever"}
Polling == {"zero", "forever"}

SomeNotices == {"SEEK"}

\* The file ends, or fails with MPV_ERROR_LOADING_FAILED.
TwoEndings == {[reason |-> 0, error |-> 0], [reason |-> 4, error |-> -13]}

=============================================================================
