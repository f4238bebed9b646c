----------------------------- MODULE MCMarshal -----------------------------
(* Small trees for the model checker: every kind of leaf, lists shorter than,  *)
(* as long as and longer than MaxLen, nested lists, and strings and keys with  *)
(* a NUL before and after other allocations.                                   *)
EXTENDS Marshal, SequencesExt

Str(s)   == [kind |-> "String", text |-> s]
Int64(i) == [kind |-> "Int", val |-> i]
Arr(s)   == [kind |-> "Array", items |-> s]
Pairs(s) == [kind |-> "Map", entries |-> s]
Entry(k, n) == [key |-> k, node |-> n]
Ba(s)    == [kind |-> "Bytes", bytes |-> s]

MCNul == {"nul"}
MCTypes == {"String", "Int", "Node", "Array", "Map", "Bytes"}

\* Int64(0) is a null word, Int64(1) is not.
MCLeaves == {NoneNode, Str("a"), Str("nul"), Int64(0), Int64(1), Ba(<<>>), Ba(<<1, 2>>)}
Few == {Str("a"), Str("nul"), Ba(<<1>>)}

MCArrays == {Arr(s) : s \in BoundedSeq(Few, 3)}
MCMaps == {Pairs(<<>>)}
        \cup {Pairs(<<Entry(k, n)>>) : k \in {"a", "nul"}, n \in Few}
        \cup {Pairs(<<Entry(k, n), Entry("b", o)>>) : k \in {"a", "nul"}, n \in Few, o \in Few}
        \cup {Pairs(<<Entry("a", n), Entry("b", o), Entry("nul", n)>>) : n \in Few, o \in Few}
        \cup {Pairs(<<Entry("a", n), Entry("nul", n)>>) : n \in Few}

Lists == {Arr(<<>>), Arr(<<Str("a"), Str("nul")>>), Arr(<<Str("a"), Int64(1), Str("nul")>>),
          Pairs(<<>>), Pairs(<<Entry("a", Str("a")), Entry("nul", Str("a"))>>),
          Pairs(<<Entry("a", Str("a")), Entry("b", Int64(1)), Entry("c", Str("a"))>>)}
Nested == {Arr(<<l, k>>) : l \in Lists, k \in Lists}
          \cup {Pairs(<<Entry("a", l), Entry("b", k)>>) : l \in Lists, k \in Lists}

MCInputs == MCLeaves \cup MCArrays \cup MCMaps \cup Nested
=============================================================================
