----------------------------- MODULE MCLogging -----------------------------
(* Instances of Logging: threads, clocks and the kinds of path that differ in  *)
(* where the last dot is.                                                      *)
EXTENDS Logging

CONSTANTS t1, t2

\* No log file, a dot in the directory only, a home directory and an extension.
SomePaths == {<<>>, <<".", "dir", "/", "mpv">>, <<"~", "/", "mpv", ".", "log">>}

\* The first thread logs twice, so that its records have an order.
Records == [t \in Threads |-> IF t = t1 THEN 2 ELSE 1]
=============================================================================
