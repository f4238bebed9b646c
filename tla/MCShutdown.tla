----------------------------- MODULE MCShutdown -----------------------------
(* Instances of Shutdown for TLC.                                          *)
EXTENDS Shutdown

CONSTANTS t1, t2, t3

ThreeThreads == {t1, t2, t3}
TwoStrong == {t1, t2}

=============================================================================
