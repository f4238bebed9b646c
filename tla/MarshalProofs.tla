--------------------------- MODULE MarshalProofs ---------------------------
(***************************************************************************)
(* Proofs about the conversion of nodes (Marshal) for every set of inputs,  *)
(* every depth and every MaxLen.  The library's induction theorems take an  *)
(* operator, which the provers cannot instantiate; induction over the       *)
(* levels of a tree is done here with sets of levels, from the fact that a  *)
(* non-empty set of naturals has a least element.                          *)
(***************************************************************************)
EXTENDS Marshal, SequenceTheorems, WellFoundedInduction, TLAPS

---------------------------------------------------------------------------
(* Induction over the levels.                                              *)

Below == OpToRel(<, Nat)

\* A set of naturals that holds 0 and the successor of each of its members holds
\* them all.
LEMMA SetInduction ==
  ASSUME NEW T, 0 \in T, \A k \in Nat : k \in T => k+1 \in T
  PROVE  Nat \subseteq T
<1> DEFINE Rest == {k \in Nat : k \notin T}
<1> SUFFICES ASSUME Rest # {} PROVE FALSE
  OBVIOUS
<1>1. IsWellFoundedOn(Below, Nat)
  BY NatLessThanWellFounded DEF Below
<1>2. PICK x \in Rest : \A y \in Rest : ~(<<y, x>> \in Below)
  BY <1>1, WFMin
<1>3. x-1 \in Nat /\ x = (x-1)+1
  OBVIOUS
<1>4. <<x-1, x>> \in Below
  BY <1>3 DEF Below, OpToRel
<1>5. x-1 \in T
  BY <1>2, <1>3, <1>4
<1> QED
  BY <1>3, <1>5

\* A set of levels that holds 0 and the level after each of its members holds them all.
LEMMA Levels ==
  ASSUME NEW T, 0 \in T, \A d \in 1..MaxDepth : d-1 \in T => d \in T
  PROVE  0..MaxDepth \subseteq T
<1> DEFINE U == {k \in Nat : k \in 0..MaxDepth => k \in T}
<1>1. 0 \in U
  OBVIOUS
<1>2. ASSUME NEW k \in Nat, k \in U PROVE k+1 \in U
  BY <1>2, MarshalAssumption
<1>3. Nat \subseteq U
  <2> HIDE DEF U
  <2> QED
    BY <1>1, <1>2, SetInduction
<1> QED
  BY <1>3, MarshalAssumption

---------------------------------------------------------------------------
(* The recursive functions of the model are the ones their definitions      *)
(* describe: each level is made from the level below.                      *)

\* Nodes of d levels have lists of nodes of d-1 levels.
LEMMA NodesAre ==
  \A d \in 0..MaxDepth :
    Nodes[d] = IF d = 0 THEN {}
               ELSE Leaves \cup Arrays(Nodes[d-1]) \cup Maps(Nodes[d-1])
<1> DEFINE Base == {}
           Level(d, sub) == Leaves \cup Arrays(sub) \cup Maps(sub)
           Is(g, k) == g = [d \in 0..k |-> IF d = 0 THEN Base ELSE Level(d, g[d-1])]
           T == {k \in Nat : \E g : Is(g, k)}
<1>0. ASSUME Is(Nodes, MaxDepth)
      PROVE  \A d \in 0..MaxDepth : Nodes[d] = IF d = 0 THEN Base ELSE Level(d, Nodes[d-1])
  <2> HIDE DEF Base, Level
  <2> QED
    BY <1>0
<1>1. 0 \in T
  <2> HIDE DEF Base, Level
  <2> DEFINE g == [d \in 0..0 |-> Base]
  <2>1. Is(g, 0)
    OBVIOUS
  <2> HIDE DEF g
  <2> QED
    BY <2>1
<1>2. ASSUME NEW k \in Nat, k \in T PROVE k+1 \in T
  <2> HIDE DEF Base, Level
  <2>1. PICK g : Is(g, k)
    BY <1>2
  <2> DEFINE h == [d \in 0..(k+1) |-> IF d = k+1 THEN Level(k+1, g[k]) ELSE g[d]]
  <2>2. ASSUME NEW d \in 0..(k+1)
        PROVE  h[d] = IF d = 0 THEN Base ELSE Level(d, h[d-1])
    <3>1. CASE d = 0
      BY <2>1, <3>1
    <3>2. CASE d = k+1
      BY <3>2
    <3>3. CASE d \in 1..k
      BY <2>1, <3>3
    <3> QED
      BY <3>1, <3>2, <3>3
  <2>3. Is(h, k+1)
    BY <2>2
  <2> HIDE DEF h
  <2> QED
    BY <2>3
<1>3. MaxDepth \in T
  <2> HIDE DEF T
  <2>1. Nat \subseteq T
    BY <1>1, <1>2, SetInduction
  <2> QED
    BY <2>1, MarshalAssumption
<1>4. Is(Nodes, MaxDepth)
  BY <1>3, Zenon DEF Nodes
<1> QED
  BY <1>0, <1>4

\* Cutting a node cuts the nodes one level down.
LEMMA CutsAre ==
  \A d \in 0..MaxDepth :
    Cuts[d] = IF d = 0 THEN <<>>
              ELSE [n \in Nodes[d] |-> CutBy(n, Cuts[d-1])]
<1> DEFINE Base == <<>>
           Level(d, sub) == [n \in Nodes[d] |-> CutBy(n, sub)]
           Is(g, k) == g = [d \in 0..k |-> IF d = 0 THEN Base ELSE Level(d, g[d-1])]
           T == {k \in Nat : \E g : Is(g, k)}
<1>0. ASSUME Is(Cuts, MaxDepth)
      PROVE  \A d \in 0..MaxDepth : Cuts[d] = IF d = 0 THEN Base ELSE Level(d, Cuts[d-1])
  <2> HIDE DEF Base, Level
  <2> QED
    BY <1>0
<1>1. 0 \in T
  <2> HIDE DEF Base, Level
  <2> DEFINE g == [d \in 0..0 |-> Base]
  <2>1. Is(g, 0)
    OBVIOUS
  <2> HIDE DEF g
  <2> QED
    BY <2>1
<1>2. ASSUME NEW k \in Nat, k \in T PROVE k+1 \in T
  <2> HIDE DEF Base, Level
  <2>1. PICK g : Is(g, k)
    BY <1>2
  <2> DEFINE h == [d \in 0..(k+1) |-> IF d = k+1 THEN Level(k+1, g[k]) ELSE g[d]]
  <2>2. ASSUME NEW d \in 0..(k+1)
        PROVE  h[d] = IF d = 0 THEN Base ELSE Level(d, h[d-1])
    <3>1. CASE d = 0
      BY <2>1, <3>1
    <3>2. CASE d = k+1
      BY <3>2
    <3>3. CASE d \in 1..k
      BY <2>1, <3>3
    <3> QED
      BY <3>1, <3>2, <3>3
  <2>3. Is(h, k+1)
    BY <2>2
  <2> HIDE DEF h
  <2> QED
    BY <2>3
<1>3. MaxDepth \in T
  <2> HIDE DEF T
  <2>1. Nat \subseteq T
    BY <1>1, <1>2, SetInduction
  <2> QED
    BY <2>1, MarshalAssumption
<1>4. Is(Cuts, MaxDepth)
  BY <1>3, Zenon DEF Cuts
<1> QED
  BY <1>0, <1>4

\* Dropping a node drops the nodes one level down.
LEMMA DropsAre ==
  ASSUME NEW m
  PROVE  \A d \in 0..MaxDepth :
           Drops(m)[d] = IF d = 0 THEN [r \in Raw |-> Part({}, FALSE)]
                         ELSE [r \in Raw |-> DropBy(r, m, Drops(m)[d-1])]
<1> DEFINE Base == [r \in Raw |-> Part({}, FALSE)]
           Level(d, sub) == [r \in Raw |-> DropBy(r, m, sub)]
           Is(g, k) == g = [d \in 0..k |-> IF d = 0 THEN Base ELSE Level(d, g[d-1])]
           T == {k \in Nat : \E g : Is(g, k)}
<1>0. ASSUME Is(Drops(m), MaxDepth)
      PROVE  \A d \in 0..MaxDepth : Drops(m)[d] = IF d = 0 THEN Base ELSE Level(d, Drops(m)[d-1])
  <2> HIDE DEF Base, Level
  <2> QED
    BY <1>0
<1>1. 0 \in T
  <2> HIDE DEF Base, Level
  <2> DEFINE g == [d \in 0..0 |-> Base]
  <2>1. Is(g, 0)
    OBVIOUS
  <2> HIDE DEF g
  <2> QED
    BY <2>1
<1>2. ASSUME NEW k \in Nat, k \in T PROVE k+1 \in T
  <2> HIDE DEF Base, Level
  <2>1. PICK g : Is(g, k)
    BY <1>2
  <2> DEFINE h == [d \in 0..(k+1) |-> IF d = k+1 THEN Level(k+1, g[k]) ELSE g[d]]
  <2>2. ASSUME NEW d \in 0..(k+1)
        PROVE  h[d] = IF d = 0 THEN Base ELSE Level(d, h[d-1])
    <3>1. CASE d = 0
      BY <2>1, <3>1
    <3>2. CASE d = k+1
      BY <3>2
    <3>3. CASE d \in 1..k
      BY <2>1, <3>3
    <3> QED
      BY <3>1, <3>2, <3>3
  <2>3. Is(h, k+1)
    BY <2>2
  <2> HIDE DEF h
  <2> QED
    BY <2>3
<1>3. MaxDepth \in T
  <2> HIDE DEF T
  <2>1. Nat \subseteq T
    BY <1>1, <1>2, SetInduction
  <2> QED
    BY <2>1, MarshalAssumption
<1>4. Is(Drops(m), MaxDepth)
  BY <1>3, Zenon DEF Drops
<1> QED
  BY <1>0, <1>4

\* Converting a node converts the nodes one level down.
LEMMA FromIs ==
  \A d \in 0..MaxDepth :
    From[d] = IF d = 0 THEN <<>>
              ELSE [n \in Nodes[d] |-> [p \in Paths |-> FromBy(n, p, From[d-1])]]
<1> DEFINE Base == <<>>
           Level(d, sub) == [n \in Nodes[d] |-> [p \in Paths |-> FromBy(n, p, sub)]]
           Is(g, k) == g = [d \in 0..k |-> IF d = 0 THEN Base ELSE Level(d, g[d-1])]
           T == {k \in Nat : \E g : Is(g, k)}
<1>0. ASSUME Is(From, MaxDepth)
      PROVE  \A d \in 0..MaxDepth : From[d] = IF d = 0 THEN Base ELSE Level(d, From[d-1])
  <2> HIDE DEF Base, Level
  <2> QED
    BY <1>0
<1>1. 0 \in T
  <2> HIDE DEF Base, Level
  <2> DEFINE g == [d \in 0..0 |-> Base]
  <2>1. Is(g, 0)
    OBVIOUS
  <2> HIDE DEF g
  <2> QED
    BY <2>1
<1>2. ASSUME NEW k \in Nat, k \in T PROVE k+1 \in T
  <2> HIDE DEF Base, Level
  <2>1. PICK g : Is(g, k)
    BY <1>2
  <2> DEFINE h == [d \in 0..(k+1) |-> IF d = k+1 THEN Level(k+1, g[k]) ELSE g[d]]
  <2>2. ASSUME NEW d \in 0..(k+1)
        PROVE  h[d] = IF d = 0 THEN Base ELSE Level(d, h[d-1])
    <3>1. CASE d = 0
      BY <2>1, <3>1
    <3>2. CASE d = k+1
      BY <3>2
    <3>3. CASE d \in 1..k
      BY <2>1, <3>3
    <3> QED
      BY <3>1, <3>2, <3>3
  <2>3. Is(h, k+1)
    BY <2>2
  <2> HIDE DEF h
  <2> QED
    BY <2>3
<1>3. MaxDepth \in T
  <2> HIDE DEF T
  <2>1. Nat \subseteq T
    BY <1>1, <1>2, SetInduction
  <2> QED
    BY <2>1, MarshalAssumption
<1>4. Is(From, MaxDepth)
  BY <1>3, Zenon DEF From
<1> QED
  BY <1>0, <1>4

\* Reading a node reads the nodes one level down.
LEMMA ReadsAre ==
  ASSUME NEW m
  PROVE  \A d \in 0..MaxDepth :
           Reads(m)[d] = IF d = 0 THEN [r \in Raw |-> Wild]
                         ELSE [r \in Raw |-> ToBy(r, m, Reads(m)[d-1])]
<1> DEFINE Base == [r \in Raw |-> Wild]
           Level(d, sub) == [r \in Raw |-> ToBy(r, m, sub)]
           Is(g, k) == g = [d \in 0..k |-> IF d = 0 THEN Base ELSE Level(d, g[d-1])]
           T == {k \in Nat : \E g : Is(g, k)}
<1>0. ASSUME Is(Reads(m), MaxDepth)
      PROVE  \A d \in 0..MaxDepth : Reads(m)[d] = IF d = 0 THEN Base ELSE Level(d, Reads(m)[d-1])
  <2> HIDE DEF Base, Level
  <2> QED
    BY <1>0
<1>1. 0 \in T
  <2> HIDE DEF Base, Level
  <2> DEFINE g == [d \in 0..0 |-> Base]
  <2>1. Is(g, 0)
    OBVIOUS
  <2> HIDE DEF g
  <2> QED
    BY <2>1
<1>2. ASSUME NEW k \in Nat, k \in T PROVE k+1 \in T
  <2> HIDE DEF Base, Level
  <2>1. PICK g : Is(g, k)
    BY <1>2
  <2> DEFINE h == [d \in 0..(k+1) |-> IF d = k+1 THEN Level(k+1, g[k]) ELSE g[d]]
  <2>2. ASSUME NEW d \in 0..(k+1)
        PROVE  h[d] = IF d = 0 THEN Base ELSE Level(d, h[d-1])
    <3>1. CASE d = 0
      BY <2>1, <3>1
    <3>2. CASE d = k+1
      BY <3>2
    <3>3. CASE d \in 1..k
      BY <2>1, <3>3
    <3> QED
      BY <3>1, <3>2, <3>3
  <2>3. Is(h, k+1)
    BY <2>2
  <2> HIDE DEF h
  <2> QED
    BY <2>3
<1>3. MaxDepth \in T
  <2> HIDE DEF T
  <2>1. Nat \subseteq T
    BY <1>1, <1>2, SetInduction
  <2> QED
    BY <2>1, MarshalAssumption
<1>4. Is(Reads(m), MaxDepth)
  BY <1>3, Zenon DEF Reads
<1> QED
  BY <1>0, <1>4

\* The same for the value that mpv reads.
LEMMA ValuesAre ==
  ASSUME NEW m
  PROVE  \A d \in 0..MaxDepth :
           ValuesOf(m)[d] = IF d = 0 THEN [r \in Raw |-> Wild]
                            ELSE [r \in Raw |-> ValueBy(r, m, ValuesOf(m)[d-1])]
<1> DEFINE Base == [r \in Raw |-> Wild]
           Level(d, sub) == [r \in Raw |-> ValueBy(r, m, sub)]
           Is(g, k) == g = [d \in 0..k |-> IF d = 0 THEN Base ELSE Level(d, g[d-1])]
           T == {k \in Nat : \E g : Is(g, k)}
<1>0. ASSUME Is(ValuesOf(m), MaxDepth)
      PROVE  \A d \in 0..MaxDepth : ValuesOf(m)[d] = IF d = 0 THEN Base ELSE Level(d, ValuesOf(m)[d-1])
  <2> HIDE DEF Base, Level
  <2> QED
    BY <1>0
<1>1. 0 \in T
  <2> HIDE DEF Base, Level
  <2> DEFINE g == [d \in 0..0 |-> Base]
  <2>1. Is(g, 0)
    OBVIOUS
  <2> HIDE DEF g
  <2> QED
    BY <2>1
<1>2. ASSUME NEW k \in Nat, k \in T PROVE k+1 \in T
  <2> HIDE DEF Base, Level
  <2>1. PICK g : Is(g, k)
    BY <1>2
  <2> DEFINE h == [d \in 0..(k+1) |-> IF d = k+1 THEN Level(k+1, g[k]) ELSE g[d]]
  <2>2. ASSUME NEW d \in 0..(k+1)
        PROVE  h[d] = IF d = 0 THEN Base ELSE Level(d, h[d-1])
    <3>1. CASE d = 0
      BY <2>1, <3>1
    <3>2. CASE d = k+1
      BY <3>2
    <3>3. CASE d \in 1..k
      BY <2>1, <3>3
    <3> QED
      BY <3>1, <3>2, <3>3
  <2>3. Is(h, k+1)
    BY <2>2
  <2> HIDE DEF h
  <2> QED
    BY <2>3
<1>3. MaxDepth \in T
  <2> HIDE DEF T
  <2>1. Nat \subseteq T
    BY <1>1, <1>2, SetInduction
  <2> QED
    BY <2>1, MarshalAssumption
<1>4. Is(ValuesOf(m), MaxDepth)
  BY <1>3, Zenon DEF ValuesOf
<1> QED
  BY <1>0, <1>4

---------------------------------------------------------------------------
(* Nodes, paths and lists.                                                 *)

\* The nodes of a level are the leaves and the lists of nodes one level down.
LEMMA NodeCases ==
  ASSUME NEW d \in 0..MaxDepth, NEW n \in Nodes[d]
  PROVE  /\ d \in 1..MaxDepth /\ d-1 \in 0..MaxDepth
         /\ n \in Leaves \/ n \in Arrays(Nodes[d-1]) \/ n \in Maps(Nodes[d-1])
<1>1. Nodes[d] = IF d = 0 THEN {} ELSE Leaves \cup Arrays(Nodes[d-1]) \cup Maps(Nodes[d-1])
  BY NodesAre
<1>2. d # 0 /\ n \in Leaves \cup Arrays(Nodes[d-1]) \cup Maps(Nodes[d-1])
  BY <1>1
<1>3. d \in 1..MaxDepth /\ d-1 \in 0..MaxDepth
  BY <1>2, MarshalAssumption
<1> QED
  BY <1>2, <1>3

\* There are no nodes without a level.
LEMMA NoNodes == 0 \in 0..MaxDepth /\ Nodes[0] = {}
<1>1. 0 \in 0..MaxDepth
  BY MarshalAssumption
<1> QED
  BY <1>1, NodesAre

\* The kinds tell leaves, arrays and maps apart.
LEMMA Kinds ==
  ASSUME NEW n, NEW S
  PROVE  /\ n \in Leaves => n.kind \in {"None", "Int", "String", "Bytes"}
         /\ n \in Arrays(S) => n.kind = "Array" /\ n.items \in Seq(S)
         /\ n \in Maps(S) => n.kind = "Map" /\ n.entries \in Seq([key : STRING, node : S])
BY DEF Leaves, Arrays, Maps

\* The first entries of a list are as many as an mpv_node_list holds, or all.
LEMMA TakenIs ==
  ASSUME NEW S, NEW s \in Seq(S)
  PROVE  \E k \in 0..MaxLen :
           /\ k <= Len(s) /\ (k = MaxLen \/ k = Len(s))
           /\ Taken(s) = [i \in 1..k |-> s[i]]
           /\ DOMAIN Taken(s) = 1..k
           /\ \A i \in 1..k : s[i] \in S
<1> DEFINE k == IF Len(s) < MaxLen THEN Len(s) ELSE MaxLen
<1>1. Len(s) \in Nat /\ MaxLen \in Nat
  BY MarshalAssumption
<1>2. k \in 0..MaxLen /\ k <= Len(s) /\ (k = MaxLen \/ k = Len(s))
  BY <1>1
<1>3. \A i \in 1..k : s[i] \in S
  BY <1>1, <1>2, ElementOfSeq
<1>4. Taken(s) = [i \in 1..k |-> s[i]]
  BY DEF Taken
<1> QED
  BY <1>2, <1>3, <1>4

\* Place q is in the part of the tree at path p.
Under(p, q) == Len(p) <= Len(q) /\ \A k \in 1..Len(p) : q[k] = p[k]

\* A path is under itself; what is under a child is under its parent, one level down
\* at least, where it shows which child.
LEMMA PathsAre ==
  ASSUME NEW p \in Paths, NEW i \in Int
  PROVE  /\ <<>> \in Paths
         /\ Append(p, i) \in Paths
         /\ Len(Append(p, i)) = Len(p) + 1
         /\ Append(p, i)[Len(p) + 1] = i
         /\ Under(p, p)
         /\ \A q \in Paths : Under(Append(p, i), q) =>
              Under(p, q) /\ Len(q) > Len(p) /\ q[Len(p) + 1] = i
         /\ Under(p, Append(p, i))
<1>1. p \in Seq(Int) /\ Len(p) \in Nat
  BY DEF Paths
<1> DEFINE c == Append(p, i)
<1>2. c \in Seq(Int) /\ Len(c) = Len(p) + 1 /\ c[Len(p) + 1] = i
  BY <1>1
<1>3. \A k \in 1..Len(p) : c[k] = p[k]
  BY <1>1
<1>4. <<>> \in Paths
  BY DEF Paths
<1> HIDE DEF c
<1>5. Under(p, p) /\ Under(p, c)
  BY <1>1, <1>2, <1>3 DEF Under
<1>6. ASSUME NEW q \in Paths, Under(c, q)
      PROVE  Under(p, q) /\ Len(q) > Len(p) /\ q[Len(p) + 1] = i
  <2>1. Len(q) \in Nat
    BY DEF Paths
  <2>2. Len(p) + 1 \in 1..Len(c) /\ \A k \in 1..Len(p) : k \in 1..Len(c)
    BY <1>1, <1>2
  <2> QED
    BY <1>1, <1>2, <1>3, <1>6, <2>1, <2>2 DEF Under
<1> QED
  BY <1>2, <1>4, <1>5, <1>6 DEF c, Paths

\* The child of the node at p that a place is in, 0 for the node itself.
Child(p, q) == IF Len(q) > Len(p) THEN q[Len(p) + 1] ELSE 0

Ats(bs) == {b.at : b \in bs}

\* Blocks that Rust made for the node at path p.
Rusts(bs, p) ==
  \A b \in bs :
    /\ b = [at |-> b.at, own |-> "rust", body |-> b.body]
    /\ b.at[2] \in Paths
    /\ b.at = <<b.at[1], b.at[2]>>
    /\ b.at[1] \in {"cstr", "data", "ba", "list", "values", "keys"}
    /\ Under(p, b.at[2])

\* No two blocks have the same address.
Distinct(bs) == \A b, c \in bs : b.at = c.at => b = c

---------------------------------------------------------------------------
(* Lists.                                                                  *)

\* The blocks and the nodes of the first k entries of a list.
Mems(kids, k) == UNION {kids[i].mem : i \in 1..k}
Raws(kids, k) == [i \in 1..k |-> kids[i].raw]

\* A conversion of a list that does not panic converts every entry.
LEMMA ListBuilt ==
  ASSUME NEW format, NEW kids, NEW keys, NEW p, NEW k \in Nat,
         DOMAIN kids = 1..k, ~FromList(format, kids, keys, p).panic
  PROVE  /\ \A i \in 1..k : ~kids[i].panic
         /\ FromList(format, kids, keys, p) =
              Built(RawNode(format, Addr("list", p)),
                    Mems(kids, k) \cup PutList(Raws(kids, k), keys, p))
BY DEF FromList, Unwound, Panicked, Stops, Mems, Raws

\* Its node holds the address of its list block.
LEMMA ListRaw ==
  ASSUME NEW format, NEW kids, NEW keys, NEW p, NEW k \in Nat,
         DOMAIN kids = 1..k, ~FromList(format, kids, keys, p).panic
  PROVE  FromList(format, kids, keys, p).raw = RawNode(format, Addr("list", p))
<1>1. FromList(format, kids, keys, p) =
        Built(RawNode(format, Addr("list", p)), Mems(kids, k) \cup PutList(Raws(kids, k), keys, p))
  BY ListBuilt
<1> QED
  BY <1>1 DEF Built

\* A list that is built keeps the blocks of its entries.
LEMMA EntriesKept ==
  ASSUME NEW format, NEW kids, NEW keys, NEW p, NEW k \in Nat,
         DOMAIN kids = 1..k, ~FromList(format, kids, keys, p).panic
  PROVE  \A i \in 1..k : kids[i].mem \subseteq FromList(format, kids, keys, p).mem
<1>1. FromList(format, kids, keys, p) =
        Built(RawNode(format, Addr("list", p)), Mems(kids, k) \cup PutList(Raws(kids, k), keys, p))
  BY ListBuilt
<1> QED
  BY <1>1 DEF Built, Mems

\* The blocks of a list itself.
EmptyList(p) == Block(Addr("list", p), <<[num |-> 0, values |-> Null, keys |-> Null]>>)
ListBlock(keys, p, k) ==
  Block(Addr("list", p), <<[num |-> k, values |-> Addr("values", p),
                            keys |-> IF keys = <<>> THEN Null ELSE Addr("keys", p)]>>)
ValuesBlock(raws, p) == Block(Addr("values", p), raws)
KeysBlock(p, k) == Block(Addr("keys", p), [i \in 1..k |-> KeyAt(p, i)])
KeyBlock(keys, p, i) == Block(KeyAt(p, i), <<keys[i]>>)
FullList(raws, keys, p, k) ==
  {ValuesBlock(raws, p), ListBlock(keys, p, k)}
    \cup (IF keys = <<>> THEN {} ELSE {KeysBlock(p, k)} \cup {KeyBlock(keys, p, i) : i \in 1..k})

\* An empty list has a list block only.
LEMMA PutListIs ==
  ASSUME NEW raws, NEW keys, NEW p, NEW k \in Nat, DOMAIN raws = 1..k, raws \in Seq(Raw),
         keys = <<>> \/ DOMAIN keys = 1..k
  PROVE  /\ k = 0 => PutList(raws, keys, p) = {EmptyList(p)}
         /\ k # 0 => PutList(raws, keys, p) = FullList(raws, keys, p, k)
<1> USE DEF EmptyList, FullList, ListBlock, ValuesBlock, KeysBlock, KeyBlock
<1>1. Len(raws) = k
  BY LenProperties
<1>2. CASE k = 0
  BY <1>1, <1>2 DEF PutList
<1>3. CASE k # 0
  <2>1. raws # <<>>
    BY <1>1, <1>3
  <2>2. CASE keys = <<>>
    BY <1>1, <1>3, <2>1, <2>2 DEF PutList
  <2>3. CASE keys # <<>>
    <3>1. DOMAIN keys = 1..k
      BY <2>3
    <3>2. KeyBlocks(keys, DOMAIN keys, p) = {Block(KeyAt(p, i), <<keys[i]>>) : i \in 1..k}
      BY <3>1 DEF KeyBlocks
    <3> QED
      BY <1>1, <1>3, <2>1, <2>3, <3>1, <3>2 DEF PutList
  <2> QED
    BY <2>2, <2>3
<1> QED
  BY <1>2, <1>3

\* The nodes in a list that are converted, and their keys.
Kids(n) ==
  IF n.kind = "Array" THEN [i \in DOMAIN Taken(n.items) |-> n.items[i]]
  ELSE [i \in DOMAIN Taken(n.entries) |-> n.entries[i].node]
Keys(n) ==
  IF n.kind = "Array" THEN <<>>
  ELSE [i \in DOMAIN Taken(n.entries) |-> n.entries[i].key]

\* The conversion and the cut of a list of k nodes of which the last is at level d.
ListOf(d, n, k) ==
  /\ DOMAIN Kids(n) = 1..k
  /\ \A i \in 1..k : Kids(n)[i] \in Nodes[d-1]
  /\ n.kind = "Array" => Keys(n) = <<>>
  /\ n.kind = "Map" => DOMAIN Keys(n) = 1..k
  /\ \A p \in Paths :
       From[d][n][p] =
         FromList(n.kind, [i \in 1..k |-> From[d-1][Kids(n)[i]][Append(p, i)]], Keys(n), p)
  /\ n.kind = "Array" => Cuts[d][n] =
       [kind |-> "Array", items |-> [i \in 1..k |-> Cuts[d-1][Kids(n)[i]]]]
  /\ n.kind = "Map" => Cuts[d][n] =
       [kind |-> "Map", entries |-> [i \in 1..k |->
          [key |-> Keys(n)[i], node |-> Cuts[d-1][Kids(n)[i]]]]]

\* A node is converted and cut as its level says.
LEMMA OneLevel ==
  ASSUME NEW d \in 1..MaxDepth, NEW n \in Nodes[d]
  PROVE  /\ \A p \in Paths : From[d][n][p] = FromBy(n, p, From[d-1])
         /\ Cuts[d][n] = CutBy(n, Cuts[d-1])
<1>1. d \in 0..MaxDepth /\ d # 0
  BY MarshalAssumption
<1>2. From[d] = [x \in Nodes[d] |-> [p \in Paths |-> FromBy(x, p, From[d-1])]]
  BY <1>1, FromIs
<1>3. Cuts[d] = [x \in Nodes[d] |-> CutBy(x, Cuts[d-1])]
  BY <1>1, CutsAre
<1> QED
  BY <1>2, <1>3

\* A list is converted from, and cut to, the conversion of its first nodes.
LEMMA ListIs ==
  ASSUME NEW d \in 1..MaxDepth, NEW n \in Nodes[d], n.kind \in {"Array", "Map"}
  PROVE  \E k \in 0..MaxLen : ListOf(d, n, k)
<1>0. d \in 0..MaxDepth /\ d # 0
  BY MarshalAssumption
<1>1. /\ \A p \in Paths : From[d][n][p] = FromBy(n, p, From[d-1])
      /\ Cuts[d][n] = CutBy(n, Cuts[d-1])
  BY OneLevel
<1>2. CASE n.kind = "Array"
  <2>1. n.items \in Seq(Nodes[d-1])
    BY <1>0, <1>2, NodeCases, Kinds
  <2>2. PICK k \in 0..MaxLen : /\ DOMAIN Taken(n.items) = 1..k
                               /\ \A i \in 1..k : n.items[i] \in Nodes[d-1]
    BY <2>1, TakenIs
  <2>3. Kids(n) = [i \in 1..k |-> n.items[i]] /\ Keys(n) = <<>>
    BY <1>2, <2>2 DEF Kids, Keys
  <2>4. \A p \in Paths : From[d][n][p] =
          FromList("Array", [i \in 1..k |-> From[d-1][n.items[i]][Append(p, i)]], <<>>, p)
    BY <1>1, <1>2, <2>2 DEF FromBy, FromArray
  <2>5. Cuts[d][n] = [kind |-> "Array", items |-> [i \in 1..k |-> Cuts[d-1][n.items[i]]]]
    BY <1>1, <1>2, <2>2 DEF CutBy
  <2>6. /\ \A p : [i \in 1..k |-> From[d-1][n.items[i]][Append(p, i)]]
                   = [i \in 1..k |-> From[d-1][Kids(n)[i]][Append(p, i)]]
        /\ [i \in 1..k |-> Cuts[d-1][n.items[i]]] = [i \in 1..k |-> Cuts[d-1][Kids(n)[i]]]
    BY <2>3
  <2>7. ListOf(d, n, k)
    BY <1>2, <2>2, <2>3, <2>4, <2>5, <2>6 DEF ListOf
  <2> QED
    BY <2>7
<1>3. CASE n.kind = "Map"
  <2> DEFINE S == [key : STRING, node : Nodes[d-1]]
  <2>1. n.entries \in Seq(S)
    BY <1>0, <1>3, NodeCases, Kinds
  <2>2. PICK k \in 0..MaxLen : /\ DOMAIN Taken(n.entries) = 1..k
                               /\ \A i \in 1..k : n.entries[i] \in S
    BY <2>1, TakenIs
  <2>3. /\ Kids(n) = [i \in 1..k |-> n.entries[i].node]
        /\ Keys(n) = [i \in 1..k |-> n.entries[i].key]
    BY <1>3, <2>2 DEF Kids, Keys
  <2>4. \A p \in Paths : From[d][n][p] =
          FromList("Map", [i \in 1..k |-> From[d-1][n.entries[i].node][Append(p, i)]],
                   [i \in 1..k |-> n.entries[i].key], p)
    BY <1>1, <1>3, <2>2 DEF FromBy, FromMap
  <2>5. Cuts[d][n] =
          [kind |-> "Map", entries |-> [i \in 1..k |->
             [key |-> n.entries[i].key, node |-> Cuts[d-1][n.entries[i].node]]]]
    BY <1>1, <1>3, <2>2 DEF CutBy
  <2>6. /\ \A p : [i \in 1..k |-> From[d-1][n.entries[i].node][Append(p, i)]]
                   = [i \in 1..k |-> From[d-1][Kids(n)[i]][Append(p, i)]]
        /\ [i \in 1..k |-> [key |-> n.entries[i].key, node |-> Cuts[d-1][n.entries[i].node]]]
             = [i \in 1..k |-> [key |-> Keys(n)[i], node |-> Cuts[d-1][Kids(n)[i]]]]
    BY <2>3
  <2>7. \A i \in 1..k : Kids(n)[i] \in Nodes[d-1]
    BY <2>2, <2>3
  <2>8. ListOf(d, n, k)
    <3>1. DOMAIN Kids(n) = 1..k /\ DOMAIN Keys(n) = 1..k
      BY <2>3
    <3>2. \A p \in Paths : From[d][n][p] =
            FromList("Map", [i \in 1..k |-> From[d-1][Kids(n)[i]][Append(p, i)]], Keys(n), p)
      BY <2>3, <2>4, <2>6
    <3>3. Cuts[d][n] = [kind |-> "Map", entries |-> [i \in 1..k |->
                          [key |-> Keys(n)[i], node |-> Cuts[d-1][Kids(n)[i]]]]]
      BY <2>5, <2>6
    <3> QED
      BY <1>3, <2>7, <3>1, <3>2, <3>3, ZenonT(30) DEF ListOf
  <2> QED
    BY <2>8
<1> QED
  BY <1>2, <1>3

\* What a conversion that does not panic makes.
Shape(b, p) ==
  /\ b.panic \in BOOLEAN
  /\ b.raw \in Raw
  /\ ~b.panic => Rusts(b.mem, p) /\ Distinct(b.mem)

LEMMA NoneIsRaw == NoneRaw \in Raw
<1>1. <<>> \in Paths
  BY DEF Paths
<1> QED
  BY <1>1 DEF NoneRaw, RawNode, Raw, Words, Null

\* The blocks of a list: those of its nodes, the keys, and its own.
LEMMA ListShape ==
  ASSUME NEW format \in {"Array", "Map"}, NEW p \in Paths, NEW k \in Nat, NEW kids, NEW keys,
         DOMAIN kids = 1..k, keys = <<>> \/ DOMAIN keys = 1..k,
         \A i \in 1..k : Shape(kids[i], Append(p, i))
  PROVE  Shape(FromList(format, kids, keys, p), p)
<1> DEFINE b == FromList(format, kids, keys, p)
           raws == Raws(kids, k)
           own == PutList(raws, keys, p)
           theirs == Mems(kids, k)
<1>1. b.panic \in BOOLEAN
  BY DEF FromList, Unwound, Built, Panicked
<1>20. b.panic => b.raw \in Raw
  <2>1. b.panic => b.raw = NoneRaw
    BY DEF FromList, Unwound, Built, Panicked
  <2> QED
    BY <2>1, NoneIsRaw
<1>2. SUFFICES ASSUME ~b.panic PROVE b.raw \in Raw /\ Rusts(b.mem, p) /\ Distinct(b.mem)
  BY <1>1, <1>20 DEF Shape
<1>3. /\ \A i \in 1..k : ~kids[i].panic
      /\ b.raw = RawNode(format, Addr("list", p)) /\ b.mem = theirs \cup own
  <2>1. FromList(format, kids, keys, p) =
          Built(RawNode(format, Addr("list", p)), theirs \cup own)
    <3>1. k \in Nat /\ DOMAIN kids = 1..k /\ ~FromList(format, kids, keys, p).panic
      BY <1>2
    <3> QED
      BY ONLY <3>1, ListBuilt
  <2>2. \A i \in 1..k : ~kids[i].panic
    BY <1>2, ListBuilt
  <2> QED
    BY <2>1, <2>2 DEF Built
<1>4. b.raw \in Raw
  BY <1>3 DEF RawNode, Addr, Raw, Words
<1>5. ASSUME NEW i \in 1..k
      PROVE  /\ Append(p, i) \in Paths /\ kids[i].raw \in Raw
             /\ Rusts(kids[i].mem, p) /\ Distinct(kids[i].mem)
             /\ \A x \in kids[i].mem : Child(p, x.at[2]) = i
  <2>1. Shape(kids[i], Append(p, i)) /\ ~kids[i].panic
    BY <1>3
  <2>2. Rusts(kids[i].mem, Append(p, i)) /\ kids[i].raw \in Raw /\ Distinct(kids[i].mem)
    BY <2>1 DEF Shape
  <2>3. i \in Int
    OBVIOUS
  <2>4. \A q \in Paths : Under(Append(p, i), q) =>
           Under(p, q) /\ Len(q) > Len(p) /\ q[Len(p) + 1] = i
    BY <2>3, PathsAre
  <2>5. \A x \in kids[i].mem : x.at[2] \in Paths /\ Under(Append(p, i), x.at[2])
    BY <2>2 DEF Rusts
  <2>6. \A x \in kids[i].mem : Under(p, x.at[2]) /\ Child(p, x.at[2]) = i
    BY <2>4, <2>5 DEF Child
  <2>7. Rusts(kids[i].mem, p)
    BY <2>2, <2>6 DEF Rusts
  <2>8. Append(p, i) \in Paths
    BY <2>3, PathsAre
  <2> QED
    BY <2>2, <2>6, <2>7, <2>8
<1>6. raws \in Seq(Raw) /\ DOMAIN raws = 1..k
  BY <1>5 DEF Raws
<1> HIDE DEF raws
<1>7. \A x \in own :
        /\ x = [at |-> x.at, own |-> "rust", body |-> x.body]
        /\ \/ x.at \in {Addr("values", p), Addr("list", p), Addr("keys", p)}
           \/ \E i \in 1..k : x = KeyBlock(keys, p, i)
  <2>1. CASE k = 0
    <3>1. own = {EmptyList(p)}
      BY <1>6, <2>1, PutListIs
    <3> QED
      BY <3>1 DEF EmptyList, Block
  <2>2. CASE k # 0
    <3>1. own = FullList(raws, keys, p, k)
      BY <1>6, <2>2, PutListIs
    <3> HIDE DEF own
    <3> QED
      BY <3>1 DEF FullList, ListBlock, ValuesBlock, KeysBlock, KeyBlock, Block
  <2> QED
    BY <2>1, <2>2
<1>8. \A x, y \in own : x.at \in {Addr("values", p), Addr("list", p), Addr("keys", p)}
                        /\ x.at = y.at => x = y
  <2> SUFFICES ASSUME NEW x \in own, NEW y \in own, x.at = y.at,
                      x.at \in {Addr("values", p), Addr("list", p), Addr("keys", p)}
               PROVE  x = y
    OBVIOUS
  <2>1. \A i : KeyBlock(keys, p, i).at \notin {Addr("values", p), Addr("list", p), Addr("keys", p)}
    BY DEF KeyBlock, Block, KeyAt, Addr
  <2>2. CASE k = 0
    <3>1. own = {EmptyList(p)}
      BY <1>6, <2>2, PutListIs
    <3> QED
      BY <3>1
  <2>3. CASE k # 0
    <3>1. own = FullList(raws, keys, p, k)
      BY <1>6, <2>3, PutListIs
    <3>2. {x, y} \subseteq {ValuesBlock(raws, p), ListBlock(keys, p, k), KeysBlock(p, k)}
      BY <2>1, <3>1 DEF FullList
    <3> QED
      BY <3>2 DEF ValuesBlock, ListBlock, KeysBlock, Block, Addr
  <2> QED
    BY <2>2, <2>3
<1> HIDE DEF own, theirs, raws, b
<1>9. \A i \in 1..k : /\ Append(p, -i) \in Paths /\ Under(p, Append(p, -i))
                      /\ Child(p, Append(p, -i)) = -i
  BY PathsAre DEF Child, Paths
<1>10. p \in Paths /\ Under(p, p) /\ Child(p, p) = 0
  BY PathsAre DEF Child, Paths
<1>11. \A x \in own :
         /\ x.at = <<x.at[1], x.at[2]>>
         /\ x.at[1] \in {"cstr", "values", "list", "keys"}
         /\ x.at[2] = p \/ \E i \in 1..k : x.at[2] = Append(p, -i)
  <2> SUFFICES ASSUME NEW x \in own
               PROVE  \E a \in {"cstr", "values", "list", "keys"} :
                        \E q : x.at = <<a, q>> /\ (q = p \/ \E i \in 1..k : q = Append(p, -i))
    OBVIOUS
  <2>1. CASE x.at \in {Addr("values", p), Addr("list", p), Addr("keys", p)}
    BY <2>1 DEF Addr
  <2>2. CASE \E i \in 1..k : x = KeyBlock(keys, p, i)
    <3>1. PICK i \in 1..k : x = KeyBlock(keys, p, i)
      BY <2>2
    <3>2. x.at = <<"cstr", Append(p, -i)>>
      BY <3>1 DEF KeyBlock, Block, KeyAt, Addr
    <3> QED
      BY <3>2
  <2> QED
    BY <1>7, <2>1, <2>2
<1>19. Rusts(own, p)
  BY <1>7, <1>9, <1>10, <1>11 DEF Rusts
<1>12. \A x \in own : \/ Child(p, x.at[2]) = 0
                      \/ \E i \in 1..k : Child(p, x.at[2]) = -i
  BY <1>9, <1>10, <1>11
<1>13. Rusts(theirs, p)
  BY <1>5 DEF Rusts, theirs, Mems
<1>14. Rusts(b.mem, p)
  BY <1>3, <1>13, <1>19 DEF Rusts
<1>15. \A x \in theirs : \E i \in 1..k : x \in kids[i].mem /\ Child(p, x.at[2]) = i
  BY <1>5 DEF theirs, Mems
<1>16. Distinct(theirs)
  BY <1>5, <1>15 DEF Distinct
<1>17. Distinct(own)
  <2> SUFFICES ASSUME NEW x \in own, NEW y \in own, x.at = y.at PROVE x = y
    BY DEF Distinct
  <2>1. CASE x.at \in {Addr("values", p), Addr("list", p), Addr("keys", p)}
    BY <1>8, <2>1
  <2>2. CASE x.at \notin {Addr("values", p), Addr("list", p), Addr("keys", p)}
    <3>1. PICK i \in 1..k, j \in 1..k : x = KeyBlock(keys, p, i)
                                     /\ y = KeyBlock(keys, p, j)
      BY <1>7, <2>2
    <3>2. Append(p, -i) = Append(p, -j)
      BY <3>1 DEF KeyBlock, Block, KeyAt, Addr
    <3>3. i = j
      BY <1>9, <3>2
    <3> QED
      BY <3>1, <3>3
  <2> QED
    BY <2>1, <2>2
<1>18. Distinct(b.mem)
  <2> SUFFICES ASSUME NEW x \in theirs, NEW y \in own, x.at = y.at PROVE FALSE
    BY <1>3, <1>16, <1>17 DEF Distinct
  <2> QED
    BY <1>12, <1>15
<1> QED
  BY <1>4, <1>14, <1>18

\* The conversion of a leaf.
LEMMA LeafIs ==
  ASSUME NEW d \in 1..MaxDepth, NEW n \in Nodes[d], NEW p \in Paths,
         n.kind \notin {"Array", "Map"}
  PROVE  /\ Cuts[d][n] = n
         /\ \/ n = NoneNode /\ From[d][n][p] = Built(NoneRaw, {})
            \/ /\ n.val \in Int /\ n = [kind |-> "Int", val |-> n.val]
               /\ From[d][n][p] = Built(RawNode("Int", Scalar(n.val)), {})
            \/ /\ n = [kind |-> "String", text |-> n.text]
               /\ From[d][n][p] = FromString(n.text, p)
            \/ /\ n.bytes \in Seq(Int) /\ n = [kind |-> "Bytes", bytes |-> n.bytes]
               /\ From[d][n][p] = FromBytes(n.bytes, p)
<1>1. From[d][n][p] = FromBy(n, p, From[d-1]) /\ Cuts[d][n] = CutBy(n, Cuts[d-1])
  BY OneLevel
<1>2. n \in Leaves
  <2>1. d \in 0..MaxDepth
    BY MarshalAssumption
  <2>2. n \in Leaves \/ n \in Arrays(Nodes[d-1]) \/ n \in Maps(Nodes[d-1])
    BY <2>1, NodeCases
  <2> QED
    BY <2>2, Kinds
<1>3. CASE n \in [kind : {"None"}]
  BY <1>1, <1>3 DEF FromBy, CutBy, NoneNode
<1>4. CASE n \in [kind : {"Int"}, val : Int]
  BY <1>1, <1>4 DEF FromBy, CutBy
<1>5. CASE n \in [kind : {"String"}, text : STRING]
  BY <1>1, <1>5 DEF FromBy, CutBy
<1>6. CASE n \in [kind : {"Bytes"}, bytes : Seq(Int)]
  BY <1>1, <1>6 DEF FromBy, CutBy
<1> QED
  BY <1>2, <1>3, <1>4, <1>5, <1>6 DEF Leaves

\* The blocks of bytes: none for the bytes when there are none.
BaBlock(bytes, p) ==
  Block(Addr("ba", p), <<[data |-> IF bytes = <<>> THEN Null ELSE Addr("data", p),
                          size |-> Len(bytes)]>>)
DataBlock(bytes, p) == Block(Addr("data", p), bytes)

LEMMA BytesAre ==
  ASSUME NEW bytes, NEW p
  PROVE  FromBytes(bytes, p) =
           Built(RawNode("Bytes", Addr("ba", p)),
                 {BaBlock(bytes, p)} \cup (IF bytes = <<>> THEN {} ELSE {DataBlock(bytes, p)}))
BY DEF FromBytes, BaBlock, DataBlock

\* A leaf is made of a block or two, or of none.
LEMMA LeafShape ==
  ASSUME NEW d \in 1..MaxDepth, NEW n \in Nodes[d], NEW p \in Paths,
         n.kind \notin {"Array", "Map"}
  PROVE  Shape(From[d][n][p], p)
<1> DEFINE b == From[d][n][p]
<1>1. Under(p, p) /\ <<>> \in Paths
  BY PathsAre
<1>2. CASE b = Built(NoneRaw, {})
  BY <1>1, <1>2 DEF Shape, Built, NoneRaw, RawNode, Raw, Words, Null, Rusts, Distinct
<1>3. CASE n.val \in Int /\ b = Built(RawNode("Int", Scalar(n.val)), {})
  <2>1. <<n.val>> \in Paths
    BY <1>3 DEF Paths
  <2>2. Scalar(n.val) \in Words
    BY <1>1, <2>1 DEF Scalar, Words, Null
  <2> QED
    BY <1>3, <2>2 DEF Shape, Built, RawNode, Raw, Rusts, Distinct
<1>4. CASE b = FromString(n.text, p)
  BY <1>1, <1>4, NoneIsRaw DEF FromString, Panicked, Shape, Built, RawNode, Raw, Words, Addr, Block, Rusts, Distinct
<1>5. CASE b = FromBytes(n.bytes, p)
  <2>1. /\ b.panic = FALSE /\ b.raw = RawNode("Bytes", Addr("ba", p))
        /\ b.mem \subseteq {BaBlock(n.bytes, p), DataBlock(n.bytes, p)}
    BY <1>5, BytesAre DEF Built
  <2>2. b.raw \in Raw
    BY <2>1 DEF RawNode, Raw, Words, Addr
  <2>3. Rusts(b.mem, p) /\ Distinct(b.mem)
    BY <1>1, <2>1 DEF Rusts, Distinct, BaBlock, DataBlock, Block, Addr
  <2> QED
    BY <2>1, <2>2, <2>3 DEF Shape
<1> QED
  BY <1>2, <1>3, <1>4, <1>5, LeafIs

\* Every conversion that does not panic makes a raw node and live blocks of its own,
\* each under the path of the node and no two at one address.
LEMMA Shapes == \A d \in 0..MaxDepth : \A n \in Nodes[d], p \in Paths : Shape(From[d][n][p], p)
<1> DEFINE T == {d \in 0..MaxDepth : \A n \in Nodes[d], p \in Paths : Shape(From[d][n][p], p)}
<1>1. 0 \in T
  BY NoNodes
<1>2. ASSUME NEW d \in 1..MaxDepth, d-1 \in T PROVE d \in T
  <2> SUFFICES ASSUME NEW n \in Nodes[d], NEW p \in Paths PROVE Shape(From[d][n][p], p)
    BY MarshalAssumption
  <2>1. CASE n.kind \notin {"Array", "Map"}
    BY <2>1, LeafShape
  <2>2. CASE n.kind \in {"Array", "Map"}
    <3>1. PICK k \in 0..MaxLen : ListOf(d, n, k)
      BY <2>2, ListIs
    <3> DEFINE kids == [i \in 1..k |-> From[d-1][Kids(n)[i]][Append(p, i)]]
    <3>2. From[d][n][p] = FromList(n.kind, kids, Keys(n), p)
      BY <3>1 DEF ListOf
    <3>3. ASSUME NEW i \in 1..k PROVE Shape(kids[i], Append(p, i))
      <4>1. Kids(n)[i] \in Nodes[d-1]
        BY <3>1 DEF ListOf
      <4>2. Append(p, i) \in Paths
        BY PathsAre
      <4> QED
        BY <1>2, <4>1, <4>2
    <3>4. k \in Nat /\ (Keys(n) = <<>> \/ DOMAIN Keys(n) = 1..k) /\ DOMAIN kids = 1..k
      BY <2>2, <3>1, MarshalAssumption DEF ListOf
    <3> HIDE DEF kids
    <3> QED
      BY <2>2, <3>2, <3>3, <3>4, ListShape
  <2> QED
    BY <2>1, <2>2
<1> HIDE DEF T
<1>3. 0..MaxDepth \subseteq T
  BY <1>1, <1>2, Levels
<1> QED
  BY <1>3 DEF T

\* The conversions of the entries of list n.
KidsOf(d, n, p, k) == [i \in 1..k |-> From[d-1][Kids(n)[i]][Append(p, i)]]

\* A list is made of the conversions of its entries, one level down.
LEMMA ListStep ==
  ASSUME NEW d \in 1..MaxDepth, NEW n \in Nodes[d], NEW p \in Paths, n.kind \in {"Array", "Map"}
  PROVE  /\ d \in 0..MaxDepth /\ d-1 \in 0..MaxDepth
         /\ \E k \in 0..MaxLen :
              /\ k \in Nat /\ ListOf(d, n, k)
              /\ From[d][n][p] = FromList(n.kind, KidsOf(d, n, p, k), Keys(n), p)
              /\ DOMAIN KidsOf(d, n, p, k) = 1..k
              /\ Keys(n) = <<>> \/ DOMAIN Keys(n) = 1..k
              /\ \A i \in 1..k :
                   /\ Kids(n)[i] \in Nodes[d-1]
                   /\ Append(p, i) \in Paths
                   /\ KidsOf(d, n, p, k)[i] = From[d-1][Kids(n)[i]][Append(p, i)]
                   /\ Shape(KidsOf(d, n, p, k)[i], Append(p, i))
<1>1. d \in 0..MaxDepth /\ d-1 \in 0..MaxDepth
  BY MarshalAssumption
<1>2. PICK k \in 0..MaxLen : ListOf(d, n, k)
  BY ListIs
<1> DEFINE kids == KidsOf(d, n, p, k)
<1>3. From[d][n][p] = FromList(n.kind, kids, Keys(n), p)
  BY <1>2 DEF ListOf, KidsOf
<1>4. k \in Nat /\ (Keys(n) = <<>> \/ DOMAIN Keys(n) = 1..k)
  BY <1>2, MarshalAssumption DEF ListOf
<1>5. DOMAIN kids = 1..k /\ \A i \in 1..k : kids[i] = From[d-1][Kids(n)[i]][Append(p, i)]
  BY DEF KidsOf
<1>6. \A i \in 1..k : Kids(n)[i] \in Nodes[d-1]
  BY <1>2 DEF ListOf
<1>7. \A i \in 1..k : Append(p, i) \in Paths
  BY PathsAre
<1>8. \A i \in 1..k : Shape(kids[i], Append(p, i))
  BY <1>1, <1>5, <1>6, <1>7, Shapes
<1> QED
  BY <1>1, <1>2, <1>3, <1>4, <1>5, <1>6, <1>7, <1>8

---------------------------------------------------------------------------
(* Giving back.                                                            *)

\* A drop gives back the addresses A, and rightly.
Gives(part, A) == part.ats = A /\ part.ok = TRUE

Joined(A, I) == UNION {A[i] : i \in I}

\* Parts that are right and have no address in common are right together.
LEMMA TogetherAll ==
  ASSUME NEW I, NEW parts, DOMAIN parts = I, NEW A,
         \A i \in I : Gives(parts[i], A[i]),
         \A i, j \in I : i # j => A[i] \cap A[j] = {}
  PROVE  Gives(Together(parts), Joined(A, I))
<1>1. \A i \in I : parts[i].ats = A[i] /\ parts[i].ok = TRUE
  BY DEF Gives
<1>2. UNION {parts[i].ats : i \in I} = UNION {A[i] : i \in I}
  BY <1>1
<1>3. (/\ \A i \in I : parts[i].ok
       /\ \A i, j \in I : i # j => parts[i].ats \cap parts[j].ats = {}) = TRUE
  BY <1>1
<1> QED
  BY <1>2, <1>3 DEF Together, Gives, Part, Joined

LEMMA TogetherTwo ==
  ASSUME NEW a, NEW b, NEW A, NEW B, Gives(a, A), Gives(b, B), A \cap B = {}
  PROVE  Gives(Together(<<a, b>>), A \cup B)
<1> DEFINE parts == <<a, b>>
<1>1. /\ DOMAIN parts = {1, 2}
      /\ parts[1].ats = A /\ parts[1].ok = TRUE
      /\ parts[2].ats = B /\ parts[2].ok = TRUE
  BY DEF Gives
<1> HIDE DEF parts
<1>2. UNION {parts[i].ats : i \in DOMAIN parts} = A \cup B
  BY <1>1
<1>3. (/\ \A i \in DOMAIN parts : parts[i].ok
       /\ \A i, j \in DOMAIN parts : i # j => parts[i].ats \cap parts[j].ats = {}) = TRUE
  BY <1>1
<1>4. Gives(Together(parts), A \cup B)
  BY <1>2, <1>3 DEF Together, Gives, Part
<1> QED
  BY <1>4 DEF parts

LEMMA TogetherThree ==
  ASSUME NEW a, NEW b, NEW c, NEW A, NEW B, NEW C, Gives(a, A), Gives(b, B), Gives(c, C),
         A \cap B = {}, A \cap C = {}, B \cap C = {}
  PROVE  Gives(Together(<<a, b, c>>), A \cup B \cup C)
<1> DEFINE parts == <<a, b, c>>
<1>1. /\ DOMAIN parts = {1, 2, 3}
      /\ parts[1].ats = A /\ parts[1].ok = TRUE
      /\ parts[2].ats = B /\ parts[2].ok = TRUE
      /\ parts[3].ats = C /\ parts[3].ok = TRUE
  BY DEF Gives
<1> HIDE DEF parts
<1>2. UNION {parts[i].ats : i \in DOMAIN parts} = A \cup B \cup C
  BY <1>1
<1>3. (/\ \A i \in DOMAIN parts : parts[i].ok
       /\ \A i, j \in DOMAIN parts : i # j => parts[i].ats \cap parts[j].ats = {}) = TRUE
  BY <1>1
<1>4. Gives(Together(parts), A \cup B \cup C)
  BY <1>2, <1>3 DEF Together, Gives, Part
<1> QED
  BY <1>4 DEF parts

LEMMA NothingGiven == Gives(Nothing, {})
BY DEF Gives, Nothing, Part

\* The blocks bs are in memory m, each alone at its address and owned as they are.
HoldsOwn(m, bs) == \A x \in bs : x \in m /\ At(m, x.at) = x

LEMMA FreeOwn ==
  ASSUME NEW m, NEW a, NEW body, HoldsOwn(m, {Block(a, body)})
  PROVE  /\ Body(m, a) = body
         /\ Gives(FreeRust(m, a, a[1], Len(body)), {a})
<1> DEFINE x == Block(a, body)
<1>1. x \in m /\ At(m, x.at) = x /\ x.at = a /\ x.own = "rust" /\ x.body = body
  BY DEF HoldsOwn, Block
<1> HIDE DEF x
<1>2. Body(m, a) = body /\ At(m, a).own = "rust" /\ \E y \in m : y.at = a
  BY <1>1 DEF Body
<1> QED
  BY <1>2 DEF FreeRust, Gives, Held, Part

\* Keys are at addresses of their own.
LEMMA KeysApart ==
  ASSUME NEW p \in Paths, NEW k \in Nat
  PROVE  \A i, j \in 1..k : i # j => KeyAt(p, i) # KeyAt(p, j)
<1>1. \A i \in 1..k : -i \in Int /\ Append(p, -i)[Len(p) + 1] = -i
  BY PathsAre
<1> QED
  BY <1>1 DEF KeyAt, Addr

\* The keys and their array are given back once each.
LEMMA KeysDropped ==
  ASSUME NEW m, NEW p \in Paths, NEW k \in Nat, NEW keys, NEW l, l.keys = Addr("keys", p),
         l.num = k,
         HoldsOwn(m, {KeysBlock(p, k)} \cup {KeyBlock(keys, p, i) : i \in 1..k})
  PROVE  Gives(DropKeys(l, m), {Addr("keys", p)} \cup {KeyAt(p, i) : i \in 1..k})
<1> DEFINE ats == [i \in 1..k |-> KeyAt(p, i)]
           each == [i \in 1..k |-> FreeRust(m, KeyAt(p, i), "cstr", 1)]
           A == [i \in 1..k |-> {KeyAt(p, i)}]
<1>1. Body(m, Addr("keys", p)) = ats /\ Gives(FreeRust(m, Addr("keys", p), "keys", k), {Addr("keys", p)})
  <2>1. HoldsOwn(m, {Block(Addr("keys", p), ats)})
    BY DEF HoldsOwn, KeysBlock
  <2>2. Len(ats) = k
    BY DEF KeyAt
  <2>3. Addr("keys", p)[1] = "keys"
    BY DEF Addr
  <2> HIDE DEF ats
  <2> QED
    BY <2>1, <2>2, <2>3, FreeOwn
<1>2. \A i \in 1..k : Gives(each[i], A[i])
  <2> SUFFICES ASSUME NEW i \in 1..k PROVE Gives(FreeRust(m, KeyAt(p, i), "cstr", 1), {KeyAt(p, i)})
    OBVIOUS
  <2>1. HoldsOwn(m, {Block(KeyAt(p, i), <<keys[i]>>)})
    BY DEF HoldsOwn, KeyBlock
  <2>2. KeyAt(p, i)[1] = "cstr" /\ Len(<<keys[i]>>) = 1
    BY DEF KeyAt, Addr
  <2> QED
    BY <2>1, <2>2, FreeOwn
<1>3. \A i, j \in 1..k : i # j => A[i] \cap A[j] = {}
  BY KeysApart
<1>4. DOMAIN each = 1..k
  OBVIOUS
<1>5. Gives(Together(each), {KeyAt(p, i) : i \in 1..k})
  <2>1. Joined(A, 1..k) = {KeyAt(p, i) : i \in 1..k}
    BY DEF Joined
  <2> HIDE DEF each, A
  <2>2. Gives(Together(each), Joined(A, 1..k))
    BY <1>2, <1>3, <1>4, TogetherAll
  <2> QED
    BY <2>1, <2>2
<1>6. DropKeys(l, m) = Together(<<FreeRust(m, Addr("keys", p), "keys", k), Together(each)>>)
  <2>1. Addr("keys", p) # Null
    BY DEF Addr, Null
  <2>2. [i \in DOMAIN Body(m, l.keys) |-> FreeRust(m, Body(m, l.keys)[i], "cstr", 1)] = each
    BY <1>1
  <2> HIDE DEF each
  <2> QED
    BY <2>1, <2>2 DEF DropKeys
<1>7. {Addr("keys", p)} \cap {KeyAt(p, i) : i \in 1..k} = {}
  BY DEF Addr, KeyAt
<1> HIDE DEF each
<1> QED
  BY <1>1, <1>5, <1>6, <1>7, TogetherTwo

\* The values and their array are given back once each when the values are.
LEMMA ValuesDropped ==
  ASSUME NEW m, NEW p \in Paths, NEW k \in Nat, NEW raws \in Seq(Raw), DOMAIN raws = 1..k, NEW l,
         l.values = Addr("values", p), l.num = k, HoldsOwn(m, {ValuesBlock(raws, p)}),
         NEW sub, NEW A, \A i \in 1..k : Gives(sub[raws[i]], A[i]),
         \A i, j \in 1..k : i # j => A[i] \cap A[j] = {},
         \A i \in 1..k : Addr("values", p) \notin A[i]
  PROVE  Gives(DropValues(l, m, sub), {Addr("values", p)} \cup Joined(A, 1..k))
<1> DEFINE each == [i \in 1..k |-> sub[raws[i]]]
           theirs == Joined(A, 1..k)
<1>1. Body(m, Addr("values", p)) = raws /\ Gives(FreeRust(m, Addr("values", p), "values", k), {Addr("values", p)})
  <2>1. HoldsOwn(m, {Block(Addr("values", p), raws)})
    BY DEF HoldsOwn, ValuesBlock
  <2>2. Len(raws) = k
    BY LenProperties
  <2>3. Addr("values", p)[1] = "values"
    BY DEF Addr
  <2> QED
    BY <2>1, <2>2, <2>3, FreeOwn
<1>2. Gives(Together(each), theirs)
  <2>1. DOMAIN each = 1..k /\ \A i \in 1..k : Gives(each[i], A[i])
    OBVIOUS
  <2> HIDE DEF each
  <2> QED
    BY <2>1, TogetherAll
<1>3. DropValues(l, m, sub) = Together(<<FreeRust(m, Addr("values", p), "values", k), Together(each)>>)
  <2>1. Addr("values", p) # Null
    BY DEF Addr, Null
  <2> QED
    BY <1>1, <2>1 DEF DropValues, DropNodes
<1>4. {Addr("values", p)} \cap theirs = {}
  BY DEF Joined
<1> HIDE DEF each, theirs
<1>5. Gives(DropValues(l, m, sub), {Addr("values", p)} \cup theirs)
  BY <1>1, <1>2, <1>3, <1>4, TogetherTwo
<1> QED
  BY <1>5 DEF theirs


\* The places of an entry's blocks show which entry it is; those of the list's own
\* blocks show none.
LEMMA KidPlaces ==
  ASSUME NEW p \in Paths, NEW k \in Nat, NEW kids,
         \A i \in 1..k : Rusts(kids[i].mem, Append(p, i))
  PROVE  /\ \A i \in 1..k : \A a \in Ats(kids[i].mem) : Child(p, a[2]) = i
         /\ \A what : Child(p, Addr(what, p)[2]) = 0
         /\ \A i \in 1..k : Child(p, KeyAt(p, i)[2]) = -i
<1>1. ASSUME NEW i \in 1..k, NEW x \in kids[i].mem PROVE Child(p, x.at[2]) = i
  <2>1. x.at[2] \in Paths /\ Under(Append(p, i), x.at[2])
    BY DEF Rusts
  <2>2. \A q \in Paths : Under(Append(p, i), q) => Len(q) > Len(p) /\ q[Len(p) + 1] = i
    <3>1. i \in Int
      OBVIOUS
    <3> QED
      BY <3>1, PathsAre
  <2> QED
    BY <2>1, <2>2 DEF Child
<1>2. Len(p) \in Nat
  BY DEF Paths
<1>3. \A i \in 1..k : -i \in Int
  OBVIOUS
<1>4. \A i \in 1..k : Child(p, KeyAt(p, i)[2]) = -i
  BY <1>2, <1>3, PathsAre DEF Child, KeyAt, Addr
<1>5. \A what : Child(p, Addr(what, p)[2]) = 0
  BY <1>2 DEF Child, Addr
<1> QED
  BY <1>1, <1>4, <1>5 DEF Ats

\* Dropping a list gives back its blocks when dropping its nodes gives back theirs.
LEMMA ListDropped ==
  ASSUME NEW m, NEW format \in {"Array", "Map"}, NEW p \in Paths, NEW k \in Nat, NEW kids, NEW keys,
         DOMAIN kids = 1..k, keys = <<>> \/ DOMAIN keys = 1..k,
         \A i \in 1..k : Shape(kids[i], Append(p, i)),
         ~FromList(format, kids, keys, p).panic,
         HoldsOwn(m, FromList(format, kids, keys, p).mem),
         NEW sub, \A i \in 1..k : Gives(sub[kids[i].raw], Ats(kids[i].mem))
  PROVE  Gives(DropBy(FromList(format, kids, keys, p).raw, m, sub),
               Ats(FromList(format, kids, keys, p).mem))
<1> DEFINE b == FromList(format, kids, keys, p)
           raws == Raws(kids, k)
           own == PutList(raws, keys, p)
           theirs == Mems(kids, k)
           A == [i \in 1..k |-> Ats(kids[i].mem)]
           l == Body(m, Addr("list", p))[1]
<1>1. /\ \A i \in 1..k : ~kids[i].panic
      /\ b.raw = RawNode(format, Addr("list", p)) /\ b.mem = theirs \cup own
  <2>1. FromList(format, kids, keys, p) =
          Built(RawNode(format, Addr("list", p)), theirs \cup own)
    <3>1. ~FromList(format, kids, keys, p).panic /\ DOMAIN kids = 1..k /\ k \in Nat
      OBVIOUS
    <3> QED
      BY ONLY <3>1, ListBuilt
  <2>2. \A i \in 1..k : ~kids[i].panic
    BY ListBuilt
  <2> QED
    BY <2>1, <2>2 DEF Built
<1>2. \A i \in 1..k : Rusts(kids[i].mem, Append(p, i)) /\ kids[i].raw \in Raw
  BY <1>1 DEF Shape
<1>3. raws \in Seq(Raw) /\ DOMAIN raws = 1..k
  BY <1>2 DEF Raws
<1>4. \A i \in 1..k : \A a \in A[i] : Child(p, a[2]) = i
  BY <1>2, KidPlaces
<1>5. /\ \A i, j \in 1..k : i # j => A[i] \cap A[j] = {}
      /\ \A i \in 1..k : \A what : Addr(what, p) \notin A[i]
      /\ \A i, j \in 1..k : KeyAt(p, j) \notin A[i]
  <2>1. /\ \A what : Child(p, Addr(what, p)[2]) = 0
        /\ \A i \in 1..k : Child(p, KeyAt(p, i)[2]) = -i
    BY <1>2, KidPlaces
  <2> HIDE DEF A
  <2> QED
    BY <1>4, <2>1
<1>6. Ats(b.mem) = Joined(A, 1..k) \cup Ats(own)
  <2>1. Ats(b.mem) = Ats(theirs) \cup Ats(own)
    <3> HIDE DEF b, theirs, own
    <3> QED
      BY <1>1 DEF Ats
  <2>2. Ats(theirs) = Joined(A, 1..k)
    BY DEF Ats, Joined, Mems
  <2> QED
    BY <2>1, <2>2
<1>7. HoldsOwn(m, own)
  BY <1>1 DEF HoldsOwn
<1>8. DropBy(b.raw, m, sub) =
        Together(<<FreeRust(m, Addr("list", p), "list", 1), DropKeys(l, m), DropValues(l, m, sub)>>)
  <2>1. b.raw.format \in {"Array", "Map"} /\ b.raw.u = Addr("list", p) /\ Addr("list", p) # Null
    BY <1>1 DEF RawNode, Addr, Null
  <2> QED
    BY <2>1 DEF DropBy, DropList
<1>9. \A i \in 1..k : Gives(sub[raws[i]], A[i])
  BY DEF Raws
<1> HIDE DEF b, own, A, raws
<1>10. ASSUME NEW num, HoldsOwn(m, {Block(Addr("list", p), <<num>>)})
       PROVE  l = num /\ Gives(FreeRust(m, Addr("list", p), "list", 1), {Addr("list", p)})
  <2>1. Addr("list", p)[1] = "list" /\ Len(<<num>>) = 1 /\ <<num>>[1] = num
    BY DEF Addr
  <2>2. /\ Body(m, Addr("list", p)) = <<num>>
        /\ Gives(FreeRust(m, Addr("list", p), Addr("list", p)[1], Len(<<num>>)), {Addr("list", p)})
    BY <1>10, FreeOwn
  <2> QED
    BY <2>1, <2>2
<1>11. CASE k = 0
  <2>1. own = {EmptyList(p)}
    BY <1>3, <1>11, PutListIs DEF own
  <2>2. /\ l = [num |-> 0, values |-> Null, keys |-> Null]
        /\ Gives(FreeRust(m, Addr("list", p), "list", 1), {Addr("list", p)})
    BY <1>7, <1>10, <2>1 DEF EmptyList
  <2>3. DropKeys(l, m) = Nothing /\ DropValues(l, m, sub) = Nothing
    BY <2>2 DEF DropKeys, DropValues
  <2>4. Gives(DropBy(b.raw, m, sub), {Addr("list", p)} \cup {} \cup {})
    BY <1>8, <2>2, <2>3, NothingGiven, TogetherThree
  <2>5. Ats(own) = {Addr("list", p)}
    BY <2>1 DEF EmptyList, Ats, Block
  <2>6. Ats(b.mem) = {Addr("list", p)} \cup {} \cup {}
    BY <1>6, <1>11, <2>5 DEF Joined
  <2> QED
    BY <2>4, <2>6 DEF b
<1>12. CASE k # 0
  <2> DEFINE K == IF keys = <<>> THEN {} ELSE {Addr("keys", p)} \cup {KeyAt(p, i) : i \in 1..k}
             V == {Addr("values", p)} \cup Joined(A, 1..k)
  <2>1. own = FullList(raws, keys, p, k)
    BY <1>3, <1>12, PutListIs DEF own
  <2>2. /\ l = [num |-> k, values |-> Addr("values", p),
                keys |-> IF keys = <<>> THEN Null ELSE Addr("keys", p)]
        /\ Gives(FreeRust(m, Addr("list", p), "list", 1), {Addr("list", p)})
    <3>1. HoldsOwn(m, {ListBlock(keys, p, k)})
      BY <1>7, <2>1 DEF FullList, HoldsOwn
    <3> DEFINE L == [num |-> k, values |-> Addr("values", p),
                     keys |-> IF keys = <<>> THEN Null ELSE Addr("keys", p)]
    <3>2. HoldsOwn(m, {Block(Addr("list", p), <<L>>)})
      BY <3>1 DEF ListBlock
    <3> HIDE DEF l, L
    <3>3. l = L /\ Gives(FreeRust(m, Addr("list", p), "list", 1), {Addr("list", p)})
      BY <1>10, <3>2
    <3> QED
      BY <3>3 DEF L
  <2>3. Gives(DropValues(l, m, sub), V)
    <3>1. HoldsOwn(m, {ValuesBlock(raws, p)})
      BY <1>7, <2>1 DEF FullList, HoldsOwn
    <3>2. l.values = Addr("values", p) /\ l.num = k
      BY <2>2
    <3>4. \A i \in 1..k : Addr("values", p) \notin A[i]
      BY <1>5
    <3>5. \A i, j \in 1..k : i # j => A[i] \cap A[j] = {}
      BY <1>5
    <3> HIDE DEF l
    <3> QED
      BY <1>3, <1>9, <3>1, <3>2, <3>4, <3>5, ValuesDropped
  <2>4. Gives(DropKeys(l, m), K)
    <3>1. CASE keys = <<>>
      BY <2>2, <3>1, NothingGiven DEF DropKeys
    <3>2. CASE keys # <<>>
      <4>1. HoldsOwn(m, {KeysBlock(p, k)} \cup {KeyBlock(keys, p, i) : i \in 1..k})
        BY <1>7, <2>1, <3>2 DEF FullList, HoldsOwn
      <4>2. l.keys = Addr("keys", p) /\ l.num = k
        BY <2>2, <3>2
      <4> HIDE DEF l
      <4>3. Gives(DropKeys(l, m), {Addr("keys", p)} \cup {KeyAt(p, i) : i \in 1..k})
        BY <4>1, <4>2, KeysDropped
      <4> QED
        BY <3>2, <4>3
    <3> QED
      BY <3>1, <3>2
  <2>5. /\ {Addr("list", p)} \cap K = {} /\ {Addr("list", p)} \cap V = {} /\ K \cap V = {}
    BY <1>5 DEF Addr, KeyAt, Joined
  <2> HIDE DEF K, V, l
  <2>6. Gives(DropBy(b.raw, m, sub), {Addr("list", p)} \cup K \cup V)
    BY <1>8, <2>2, <2>3, <2>4, <2>5, TogetherThree
  <2>7. Ats(own) = {Addr("values", p), Addr("list", p)} \cup K
    <3>1. /\ ValuesBlock(raws, p).at = Addr("values", p) /\ ListBlock(keys, p, k).at = Addr("list", p)
          /\ KeysBlock(p, k).at = Addr("keys", p)
          /\ \A i \in 1..k : KeyBlock(keys, p, i).at = KeyAt(p, i)
      BY DEF ValuesBlock, ListBlock, KeysBlock, KeyBlock, Block
    <3> QED
      BY <2>1, <3>1 DEF FullList, Ats, K
  <2>8. Ats(b.mem) = {Addr("list", p)} \cup K \cup V
    BY <1>6, <2>7 DEF V
  <2> QED
    BY <2>6, <2>8 DEF b
<1> QED
  BY <1>11, <1>12


\* Dropping a leaf gives back its blocks.
LEMMA LeafDropped ==
  ASSUME NEW m, NEW sub, NEW d \in 1..MaxDepth, NEW n \in Nodes[d], NEW p \in Paths,
         n.kind \notin {"Array", "Map"}, ~From[d][n][p].panic, HoldsOwn(m, From[d][n][p].mem)
  PROVE  Gives(DropBy(From[d][n][p].raw, m, sub), Ats(From[d][n][p].mem))
<1> DEFINE b == From[d][n][p]
<1>1. ASSUME NEW what, NEW body, HoldsOwn(m, {Block(Addr(what, p), body)})
      PROVE  /\ Body(m, Addr(what, p)) = body
             /\ Gives(FreeRust(m, Addr(what, p), what, Len(body)), {Addr(what, p)})
  <2>1. Addr(what, p)[1] = what
    BY DEF Addr
  <2> QED
    BY <1>1, <2>1, FreeOwn
<1>2. ASSUME NEW u, b = Built(RawNode("Int", u), {}) \/ b = Built(NoneRaw, {})
      PROVE  Gives(DropBy(b.raw, m, sub), Ats(b.mem))
  <2>1. b.raw.format \in {"None", "Int"} /\ b.mem = {}
    BY <1>2 DEF Built, RawNode, NoneRaw
  <2>2. DropBy(b.raw, m, sub) = Nothing /\ Ats(b.mem) = {}
    BY <2>1 DEF DropBy, Ats
  <2> QED
    BY <2>2, NothingGiven
<1>3. CASE b = FromString(n.text, p)
  <2>1. b = Built(RawNode("String", Addr("cstr", p)), {Block(Addr("cstr", p), <<n.text>>)})
    BY <1>3 DEF FromString, Panicked
  <2>2. /\ b.raw.format = "String" /\ b.raw.u = Addr("cstr", p)
        /\ b.mem = {Block(Addr("cstr", p), <<n.text>>)} /\ Addr("cstr", p) # Null
    BY <2>1 DEF Built, RawNode, Addr, Null
  <2>3. DropBy(b.raw, m, sub) = FreeRust(m, Addr("cstr", p), "cstr", 1)
    BY <2>2 DEF DropBy
  <2>4. Ats(b.mem) = {Addr("cstr", p)} /\ Len(<<n.text>>) = 1
    BY <2>2 DEF Ats, Block
  <2>5. HoldsOwn(m, {Block(Addr("cstr", p), <<n.text>>)})
    BY <2>2
  <2>6. Gives(FreeRust(m, Addr("cstr", p), "cstr", Len(<<n.text>>)), {Addr("cstr", p)})
    BY <1>1, <2>5
  <2> QED
    BY <2>3, <2>4, <2>6
<1>4. CASE n.bytes \in Seq(Int) /\ b = FromBytes(n.bytes, p)
  <2> DEFINE ba == [data |-> IF n.bytes = <<>> THEN Null ELSE Addr("data", p),
                    size |-> Len(n.bytes)]
             data == IF n.bytes = <<>> THEN {} ELSE {DataBlock(n.bytes, p)}
  <2>1. /\ b.raw.format = "Bytes" /\ b.raw.u = Addr("ba", p) /\ Addr("ba", p) # Null
        /\ b.mem = {BaBlock(n.bytes, p)} \cup data
    BY <1>4, BytesAre DEF Built, RawNode, Addr, Null
  <2>2. HoldsOwn(m, {Block(Addr("ba", p), <<ba>>)}) /\ HoldsOwn(m, data)
    BY <2>1 DEF HoldsOwn, BaBlock
  <2> DEFINE part == IF ba.data = Null THEN Nothing ELSE FreeRust(m, ba.data, "data", ba.size)
  <2>3. Gives(part, Ats(data))
    <3>1. CASE n.bytes = <<>>
      <4>1. ba.data = Null /\ Ats(data) = {}
        BY <3>1 DEF Ats
      <4> QED
        BY <4>1, NothingGiven
    <3>2. CASE n.bytes # <<>>
      <4>1. ba.data = Addr("data", p) /\ Addr("data", p) # Null /\ Ats(data) = {Addr("data", p)}
            /\ ba.size = Len(n.bytes)
        BY <3>2 DEF Ats, DataBlock, Block, Addr, Null
      <4>2. HoldsOwn(m, {Block(Addr("data", p), n.bytes)})
        BY <2>2, <3>2 DEF DataBlock
      <4> HIDE DEF ba, data
      <4> QED
        BY <1>1, <4>1, <4>2
    <3> QED
      BY <3>1, <3>2
  <2>4. {Addr("ba", p)} \cap Ats(data) = {}
    BY DEF Ats, DataBlock, Block, Addr
  <2>5. Ats(b.mem) = {Addr("ba", p)} \cup Ats(data)
    <3>1. BaBlock(n.bytes, p).at = Addr("ba", p)
      BY DEF BaBlock, Block
    <3> HIDE DEF b, data
    <3> QED
      BY <2>1, <3>1 DEF Ats
  <2> HIDE DEF ba, data
  <2>6. /\ Body(m, Addr("ba", p)) = <<ba>> /\ <<ba>>[1] = ba /\ Len(<<ba>>) = 1
        /\ Gives(FreeRust(m, Addr("ba", p), "ba", Len(<<ba>>)), {Addr("ba", p)})
    BY <1>1, <2>2
  <2>7. DropBy(b.raw, m, sub) = DropBytes(Addr("ba", p), m)
    BY <2>1 DEF DropBy
  <2>8. DropBytes(Addr("ba", p), m) = Together(<<FreeRust(m, Addr("ba", p), "ba", 1), part>>)
    BY <2>6 DEF DropBytes
  <2> HIDE DEF part
  <2> QED
    BY <2>3, <2>4, <2>5, <2>6, <2>7, <2>8, TogetherTwo
<1> QED
  BY <1>2, <1>3, <1>4, LeafIs

\* Dropping a node that was converted gives back each of its blocks once and rightly,
\* read with the levels of any node as deep.
LEMMA Dropped ==
  ASSUME NEW m
  PROVE  \A d \in 0..MaxDepth : \A n \in Nodes[d], p \in Paths, e \in d..MaxDepth :
           ~From[d][n][p].panic /\ HoldsOwn(m, From[d][n][p].mem)
             => Gives(Drops(m)[e][From[d][n][p].raw], Ats(From[d][n][p].mem))
<1> DEFINE Good(d) ==
             \A n \in Nodes[d], p \in Paths, e \in d..MaxDepth :
               ~From[d][n][p].panic /\ HoldsOwn(m, From[d][n][p].mem)
                 => Gives(Drops(m)[e][From[d][n][p].raw], Ats(From[d][n][p].mem))
           T == {d \in 0..MaxDepth : Good(d)}
<1>1. 0 \in T
  BY NoNodes
<1>2. ASSUME NEW d \in 1..MaxDepth, d-1 \in T PROVE d \in T
  <2> SUFFICES ASSUME NEW n \in Nodes[d], NEW p \in Paths, NEW e \in d..MaxDepth,
                      ~From[d][n][p].panic, HoldsOwn(m, From[d][n][p].mem)
               PROVE  Gives(Drops(m)[e][From[d][n][p].raw], Ats(From[d][n][p].mem))
    BY MarshalAssumption
  <2> DEFINE sub == Drops(m)[e-1]
             b == From[d][n][p]
  <2>1. e \in 0..MaxDepth /\ e # 0 /\ e-1 \in (d-1)..MaxDepth /\ d \in 0..MaxDepth
    BY MarshalAssumption
  <2>2. b.raw \in Raw
    BY <2>1, Shapes DEF Shape
  <2>3. Drops(m)[e][b.raw] = DropBy(b.raw, m, sub)
    <3>1. Drops(m)[e] = [r \in Raw |-> DropBy(r, m, sub)]
      BY <2>1, DropsAre
    <3> QED
      BY <2>2, <3>1
  <2>4. CASE n.kind \notin {"Array", "Map"}
    BY <2>3, <2>4, LeafDropped
  <2>5. CASE n.kind \in {"Array", "Map"}
    <3>1. PICK k \in 0..MaxLen :
            /\ k \in Nat
            /\ From[d][n][p] = FromList(n.kind, KidsOf(d, n, p, k), Keys(n), p)
            /\ DOMAIN KidsOf(d, n, p, k) = 1..k
            /\ Keys(n) = <<>> \/ DOMAIN Keys(n) = 1..k
            /\ \A i \in 1..k :
                 /\ Kids(n)[i] \in Nodes[d-1] /\ Append(p, i) \in Paths
                 /\ KidsOf(d, n, p, k)[i] = From[d-1][Kids(n)[i]][Append(p, i)]
                 /\ Shape(KidsOf(d, n, p, k)[i], Append(p, i))
      BY <2>5, ListStep
    <3> DEFINE kids == KidsOf(d, n, p, k)
    <3> HIDE DEF kids
    <3>2. b = FromList(n.kind, kids, Keys(n), p)
      BY <3>1 DEF kids
    <3>3. k \in Nat /\ (Keys(n) = <<>> \/ DOMAIN Keys(n) = 1..k) /\ DOMAIN kids = 1..k
      BY <3>1 DEF kids
    <3>4. \A i \in 1..k : /\ Kids(n)[i] \in Nodes[d-1] /\ Append(p, i) \in Paths
                         /\ kids[i] = From[d-1][Kids(n)[i]][Append(p, i)]
      BY <3>1 DEF kids
    <3>5. \A i \in 1..k : Shape(kids[i], Append(p, i))
      BY <3>1 DEF kids
    <3>6. \A i \in 1..k : ~kids[i].panic /\ HoldsOwn(m, kids[i].mem)
      <4>1. ~FromList(n.kind, kids, Keys(n), p).panic
        BY <3>2
      <4>2. \A i \in 1..k : ~kids[i].panic
        BY <3>3, <4>1, ListBuilt
      <4>3. \A i \in 1..k : kids[i].mem \subseteq b.mem
        BY <3>2, <3>3, <4>1, EntriesKept
      <4> QED
        BY <4>2, <4>3 DEF HoldsOwn
    <3>7. \A i \in 1..k : Gives(sub[kids[i].raw], Ats(kids[i].mem))
      <4> SUFFICES ASSUME NEW i \in 1..k PROVE Gives(sub[kids[i].raw], Ats(kids[i].mem))
        OBVIOUS
      <4>1. Good(d-1)
        BY <1>2
      <4>2. ~From[d-1][Kids(n)[i]][Append(p, i)].panic
            /\ HoldsOwn(m, From[d-1][Kids(n)[i]][Append(p, i)].mem)
        BY <3>4, <3>6
      <4> QED
        BY <2>1, <3>4, <4>1, <4>2
    <3> HIDE DEF sub, b
    <3>8. ~FromList(n.kind, kids, Keys(n), p).panic
          /\ HoldsOwn(m, FromList(n.kind, kids, Keys(n), p).mem)
      BY <3>2 DEF b
    <3>9. Gives(DropBy(b.raw, m, sub), Ats(b.mem))
      BY <2>5, <3>2, <3>3, <3>5, <3>7, <3>8, ListDropped
    <3> QED
      BY <2>3, <3>9 DEF b
  <2> QED
    BY <2>4, <2>5
<1> HIDE DEF T
<1>3. 0..MaxDepth \subseteq T
  BY <1>1, <1>2, Levels
<1> QED
  BY <1>3 DEF T


---------------------------------------------------------------------------
(* A panic.                                                                *)

LEMMA FirstIs ==
  ASSUME NEW I, I \subseteq Nat, I # {}
  PROVE  First(I) \in I /\ \A j \in I : First(I) <= j
<1>1. IsWellFoundedOn(Below, Nat)
  BY NatLessThanWellFounded DEF Below
<1>2. PICK x \in I : \A y \in I : ~(<<y, x>> \in Below)
  BY <1>1, WFMin
<1>3. ASSUME NEW j \in I PROVE x <= j
  <2>1. x \in Nat /\ j \in Nat /\ ~(<<j, x>> \in Below)
    BY <1>2
  <2>2. ~(j < x)
    BY <2>1 DEF Below, OpToRel
  <2> QED
    BY <2>1, <2>2
<1>4. \E i \in I : \A j \in I : i <= j
  BY <1>2, <1>3
<1> QED
  BY <1>4 DEF First

\* The blocks of the first entries of a list are at addresses of their own.
LEMMA MemsDistinct ==
  ASSUME NEW p \in Paths, NEW k \in Nat, NEW kids,
         \A i \in 1..k : Rusts(kids[i].mem, Append(p, i)) /\ Distinct(kids[i].mem)
  PROVE  Distinct(Mems(kids, k))
<1>1. \A i \in 1..k : \A a \in Ats(kids[i].mem) : Child(p, a[2]) = i
  BY KidPlaces
<1>2. \A i \in 1..k : \A x \in kids[i].mem : Child(p, x.at[2]) = i
  BY <1>1 DEF Ats
<1>3. ASSUME NEW x \in Mems(kids, k), NEW y \in Mems(kids, k), x.at = y.at PROVE x = y
  <2>1. PICK i \in 1..k, j \in 1..k : x \in kids[i].mem /\ y \in kids[j].mem
    BY DEF Mems
  <2>2. i = j
    BY <1>2, <1>3, <2>1
  <2> QED
    BY <1>3, <2>1, <2>2 DEF Distinct
<1> QED
  BY <1>3 DEF Distinct

\* Where no two blocks share an address, each is held as it is.
LEMMA DistinctHolds ==
  ASSUME NEW m, NEW bs, Distinct(m), bs \subseteq m
  PROVE  HoldsOwn(m, bs)
BY DEF Distinct, HoldsOwn, At

\* A list that panics gives back the entries before the panic rightly.
LEMMA ListUnwinds ==
  ASSUME NEW format, NEW p \in Paths, NEW k \in Nat, NEW kids, NEW keys, DOMAIN kids = 1..k,
         \A i \in 1..k : Shape(kids[i], Append(p, i)),
         \A i \in 1..k : kids[i].bad = FALSE,
         \A i \in 1..k : \A m : ~kids[i].panic /\ HoldsOwn(m, kids[i].mem)
                              => Gives(DropNode(kids[i].raw, m), Ats(kids[i].mem))
  PROVE  FromList(format, kids, keys, p).bad = FALSE
<1>1. CASE Stops(kids, keys) = {}
  BY <1>1 DEF FromList, Built
<1>2. CASE Stops(kids, keys) # {}
  <2> DEFINE s == First(Stops(kids, keys))
             before == Mems(kids, s-1)
             each == [i \in 1..(s-1) |-> DropNode(kids[i].raw, before)]
             A == [i \in 1..(s-1) |-> Ats(kids[i].mem)]
             last == IF BadKey(keys, s) THEN Panicked({}, FALSE) ELSE kids[s]
  <2>1. Stops(kids, keys) \subseteq 1..k
    BY DEF Stops
  <2>2. s \in Stops(kids, keys) /\ \A j \in Stops(kids, keys) : s <= j
    BY <1>2, <2>1, FirstIs
  <2>3. s \in 1..k /\ s-1 \in Nat /\ \A i \in 1..(s-1) : i \in 1..k /\ i \notin Stops(kids, keys)
    BY <2>1, <2>2
  <2>4. \A i \in 1..(s-1) : ~kids[i].panic
    BY <2>3 DEF Stops
  <2>5. \A i \in 1..(s-1) : Rusts(kids[i].mem, Append(p, i)) /\ Distinct(kids[i].mem)
    BY <2>3, <2>4 DEF Shape
  <2>6. FromList(format, kids, keys, p).bad = (~Together(each).ok \/ last.bad)
    BY <1>2 DEF FromList, Unwound, Panicked, Mems
  <2>7. last.bad = FALSE
    BY <2>3 DEF Panicked
  <2> HIDE DEF s, last
  <2>8. Distinct(before)
    BY <2>3, <2>5, MemsDistinct
  <2>9. \A i \in 1..(s-1) : kids[i].mem \subseteq before
    BY DEF Mems
  <2>10. \A i \in 1..(s-1) : HoldsOwn(before, kids[i].mem)
    BY <2>8, <2>9, DistinctHolds
  <2>11. \A i \in 1..(s-1) : Gives(each[i], A[i])
    BY <2>3, <2>4, <2>10
  <2>12. \A i, j \in 1..(s-1) : i # j => A[i] \cap A[j] = {}
    <3>1. \A i \in 1..(s-1) : \A a \in A[i] : Child(p, a[2]) = i
      BY <2>3, <2>5, KidPlaces
    <3> HIDE DEF A
    <3> QED
      BY <3>1
  <2>13. DOMAIN each = 1..(s-1)
    OBVIOUS
  <2> HIDE DEF each, A
  <2>14. Gives(Together(each), Joined(A, 1..(s-1)))
    BY <2>11, <2>12, <2>13, TogetherAll
  <2> QED
    BY <2>6, <2>7, <2>14 DEF Gives
<1> QED
  BY <1>1, <1>2

\* No memory was given back wrongly.
Clean(b) == b.bad = FALSE

LEMMA CleanResults ==
  /\ \A r, m : Clean(Built(r, m))
  /\ \A m : Clean(Panicked(m, FALSE))
BY DEF Clean, Built, Panicked

\* No conversion gives memory back wrongly.
LEMMA NeverBad == \A d \in 0..MaxDepth : \A n \in Nodes[d], p \in Paths : Clean(From[d][n][p])
<1> DEFINE T == {d \in 0..MaxDepth : \A n \in Nodes[d], p \in Paths : Clean(From[d][n][p])}
<1>1. 0 \in T
  BY NoNodes
<1>2. ASSUME NEW d \in 1..MaxDepth, d-1 \in T PROVE d \in T
  <2> SUFFICES ASSUME NEW n \in Nodes[d], NEW p \in Paths PROVE Clean(From[d][n][p])
    BY MarshalAssumption
  <2>1. d \in 0..MaxDepth /\ d-1 \in 0..MaxDepth /\ MaxDepth \in (d-1)..MaxDepth
    BY MarshalAssumption
  <2>2. CASE n.kind \notin {"Array", "Map"}
    <3>1. Clean(FromString(n.text, p)) /\ Clean(FromBytes(n.bytes, p))
      BY CleanResults DEF FromString, FromBytes
    <3> QED
      BY <2>2, <3>1, LeafIs, CleanResults
  <2>3. CASE n.kind \in {"Array", "Map"}
    <3>1. PICK k \in 0..MaxLen :
            /\ k \in Nat
            /\ From[d][n][p] = FromList(n.kind, KidsOf(d, n, p, k), Keys(n), p)
            /\ DOMAIN KidsOf(d, n, p, k) = 1..k
            /\ Keys(n) = <<>> \/ DOMAIN Keys(n) = 1..k
            /\ \A i \in 1..k :
                 /\ Kids(n)[i] \in Nodes[d-1] /\ Append(p, i) \in Paths
                 /\ KidsOf(d, n, p, k)[i] = From[d-1][Kids(n)[i]][Append(p, i)]
                 /\ Shape(KidsOf(d, n, p, k)[i], Append(p, i))
      BY <2>3, ListStep
    <3> DEFINE kids == KidsOf(d, n, p, k)
    <3> HIDE DEF kids
    <3>2. From[d][n][p] = FromList(n.kind, kids, Keys(n), p)
      BY <3>1 DEF kids
    <3>3. k \in Nat /\ (Keys(n) = <<>> \/ DOMAIN Keys(n) = 1..k) /\ DOMAIN kids = 1..k
      BY <3>1 DEF kids
    <3>4. \A i \in 1..k : /\ Kids(n)[i] \in Nodes[d-1] /\ Append(p, i) \in Paths
                         /\ kids[i] = From[d-1][Kids(n)[i]][Append(p, i)]
      BY <3>1 DEF kids
    <3>5. \A i \in 1..k : Shape(kids[i], Append(p, i))
      BY <3>1 DEF kids
    <3>6. \A i \in 1..k : Clean(kids[i])
      BY <1>2, <3>4
    <3>7. \A i \in 1..k : \A m : ~kids[i].panic /\ HoldsOwn(m, kids[i].mem)
                               => Gives(DropNode(kids[i].raw, m), Ats(kids[i].mem))
      BY <2>1, <3>4, Dropped DEF DropNode
    <3>8. Clean(FromList(n.kind, kids, Keys(n), p))
      BY <3>3, <3>5, <3>6, <3>7, ListUnwinds DEF Clean
    <3> QED
      BY <3>2, <3>8
  <2> QED
    BY <2>2, <2>3
<1> HIDE DEF T
<1>3. 0..MaxDepth \subseteq T
  BY <1>1, <1>2, Levels
<1> QED
  BY <1>3 DEF T


---------------------------------------------------------------------------
(* The length of the lists.                                                *)

NumsFit(bs) == \A b \in bs : b.at[1] = "list" => b.body[1].num \in 0..MaxLen

LEMMA ListNums ==
  ASSUME NEW format, NEW p \in Paths, NEW k \in 0..MaxLen, NEW kids, NEW keys, DOMAIN kids = 1..k,
         keys = <<>> \/ DOMAIN keys = 1..k,
         \A i \in 1..k : Shape(kids[i], Append(p, i)),
         \A i \in 1..k : NumsFit(kids[i].mem)
  PROVE  NumsFit(FromList(format, kids, keys, p).mem)
<1>0. k \in Nat /\ MaxLen \in Nat
  BY MarshalAssumption
<1>1. \A I : NumsFit(KeyBlocks(keys, I, p))
  BY DEF NumsFit, KeyBlocks, Block, KeyAt, Addr
<1>2. CASE Stops(kids, keys) = {}
  <2> DEFINE own == PutList(Raws(kids, k), keys, p)
  <2>1. FromList(format, kids, keys, p).mem = Mems(kids, k) \cup own
    BY <1>2 DEF FromList, Built, Mems, Raws
  <2>2. \A i \in 1..k : kids[i].raw \in Raw
    BY <1>2 DEF Stops, Shape
  <2>3. Raws(kids, k) \in Seq(Raw) /\ DOMAIN Raws(kids, k) = 1..k
    BY <1>0, <2>2 DEF Raws
  <2>4. NumsFit(own)
    <3>1. CASE k = 0
      <4>1. own = {EmptyList(p)}
        BY <1>0, <2>3, <3>1, PutListIs
      <4> QED
        BY <1>0, <4>1 DEF NumsFit, EmptyList, Block
    <3>2. CASE k # 0
      <4>1. own = FullList(Raws(kids, k), keys, p, k)
        BY <1>0, <2>3, <3>2, PutListIs
      <4>2. \A b \in own : b.at[1] = "list" => b = ListBlock(keys, p, k)
        BY <4>1 DEF FullList, ValuesBlock, KeysBlock, KeyBlock, Block, Addr, KeyAt
      <4> HIDE DEF own
      <4> QED
        BY <4>2 DEF NumsFit, ListBlock, Block
    <3> QED
      BY <3>1, <3>2
  <2> HIDE DEF own
  <2> QED
    BY <2>1, <2>4 DEF NumsFit, Mems
<1>3. CASE Stops(kids, keys) # {}
  <2> DEFINE s == First(Stops(kids, keys))
  <2>1. Stops(kids, keys) \subseteq 1..k
    BY DEF Stops
  <2>2. s \in 1..k /\ \A i \in 1..(s-1) : i \in 1..k
    BY <1>3, <2>1, FirstIs
  <2> DEFINE last == IF BadKey(keys, s) THEN Panicked({}, FALSE) ELSE kids[s]
             made == IF BadKey(keys, s) THEN 1..(s-1) ELSE 1..s
  <2>3. FromList(format, kids, keys, p).mem
          \subseteq (UNION {kids[i].mem : i \in 1..(s-1)}) \cup KeyBlocks(keys, made, p) \cup last.mem
    BY <1>3 DEF FromList, Unwound, Panicked
  <2>4. NumsFit(last.mem)
    BY <2>2 DEF NumsFit, Panicked
  <2> HIDE DEF s, last, made
  <2> QED
    BY <1>1, <2>2, <2>3, <2>4 DEF NumsFit
<1> QED
  BY <1>2, <1>3

\* Every list that Rust makes is as long as an mpv_node_list can be, at every depth
\* and even when a panic leaves it behind.
LEMMA Nums == \A d \in 0..MaxDepth : \A n \in Nodes[d], p \in Paths : NumsFit(From[d][n][p].mem)
<1> DEFINE T == {d \in 0..MaxDepth : \A n \in Nodes[d], p \in Paths : NumsFit(From[d][n][p].mem)}
<1>1. 0 \in T
  BY NoNodes
<1>2. ASSUME NEW d \in 1..MaxDepth, d-1 \in T PROVE d \in T
  <2> SUFFICES ASSUME NEW n \in Nodes[d], NEW p \in Paths PROVE NumsFit(From[d][n][p].mem)
    BY MarshalAssumption
  <2>1. d-1 \in 0..MaxDepth
    BY MarshalAssumption
  <2>2. CASE n.kind \notin {"Array", "Map"}
    <3>1. NumsFit(Built(NoneRaw, {}).mem) /\ \A u : NumsFit(Built(RawNode("Int", u), {}).mem)
      BY DEF NumsFit, Built
    <3>2. NumsFit(FromString(n.text, p).mem)
      BY DEF NumsFit, FromString, Panicked, Built, Block, Addr
    <3>3. NumsFit(FromBytes(n.bytes, p).mem)
      BY DEF NumsFit, FromBytes, Built, Block, Addr
    <3> QED
      BY <2>2, <3>1, <3>2, <3>3, LeafIs
  <2>3. CASE n.kind \in {"Array", "Map"}
    <3>1. PICK k \in 0..MaxLen :
            /\ k \in Nat
            /\ From[d][n][p] = FromList(n.kind, KidsOf(d, n, p, k), Keys(n), p)
            /\ DOMAIN KidsOf(d, n, p, k) = 1..k
            /\ Keys(n) = <<>> \/ DOMAIN Keys(n) = 1..k
            /\ \A i \in 1..k :
                 /\ Kids(n)[i] \in Nodes[d-1] /\ Append(p, i) \in Paths
                 /\ KidsOf(d, n, p, k)[i] = From[d-1][Kids(n)[i]][Append(p, i)]
                 /\ Shape(KidsOf(d, n, p, k)[i], Append(p, i))
      BY <2>3, ListStep
    <3> DEFINE kids == KidsOf(d, n, p, k)
    <3> HIDE DEF kids
    <3>2. From[d][n][p] = FromList(n.kind, kids, Keys(n), p)
      BY <3>1 DEF kids
    <3>3. k \in Nat /\ (Keys(n) = <<>> \/ DOMAIN Keys(n) = 1..k) /\ DOMAIN kids = 1..k
      BY <3>1 DEF kids
    <3>4. \A i \in 1..k : /\ Kids(n)[i] \in Nodes[d-1] /\ Append(p, i) \in Paths
                         /\ kids[i] = From[d-1][Kids(n)[i]][Append(p, i)]
      BY <3>1 DEF kids
    <3>5. \A i \in 1..k : Shape(kids[i], Append(p, i))
      BY <3>1 DEF kids
    <3>6. \A i \in 1..k : NumsFit(kids[i].mem)
      BY <1>2, <3>4
    <3>7. NumsFit(FromList(n.kind, kids, Keys(n), p).mem)
      BY <3>3, <3>5, <3>6, ListNums
    <3> QED
      BY <3>2, <3>7
  <2> QED
    BY <2>2, <2>3
<1> HIDE DEF T
<1>3. 0..MaxDepth \subseteq T
  BY <1>1, <1>2, Levels
<1> QED
  BY <1>3 DEF T


---------------------------------------------------------------------------
(* Reading back.                                                           *)

\* Memory m has the contents of the blocks bs, whoever owns them.
Holds(m, bs) == \A x \in bs : (\E y \in m : y.at = x.at) /\ Body(m, x.at) = x.body

\* The list block of a list in memory, and what it points to.
ListIn(m, kids, keys, p, k) ==
  /\ Addr("list", p) # Null /\ Held(m, Addr("list", p), "list")
  /\ Body(m, Addr("list", p))[1].num = k
  /\ k # 0 => /\ Body(m, Addr("list", p))[1].values = Addr("values", p)
              /\ Addr("values", p) # Null
              /\ Body(m, Addr("values", p)) = Raws(kids, k)
  /\ (k # 0 /\ keys # <<>>) =>
       /\ Body(m, Addr("list", p))[1].keys = Addr("keys", p)
       /\ Addr("keys", p) # Null
       /\ Body(m, Addr("keys", p)) = [i \in 1..k |-> KeyAt(p, i)]
       /\ \A i \in 1..k : Body(m, KeyAt(p, i)) = <<keys[i]>>

\* A list that was built can be found in memory.
LEMMA ListHeld ==
  ASSUME NEW m, NEW format \in {"Array", "Map"}, NEW p \in Paths, NEW k \in Nat, NEW kids, NEW keys,
         DOMAIN kids = 1..k, keys = <<>> \/ DOMAIN keys = 1..k,
         \A i \in 1..k : Shape(kids[i], Append(p, i)),
         ~FromList(format, kids, keys, p).panic,
         Holds(m, FromList(format, kids, keys, p).mem)
  PROVE  ListIn(m, kids, keys, p, k)
<1> DEFINE b == FromList(format, kids, keys, p)
           raws == Raws(kids, k)
           own == PutList(raws, keys, p)
<1>1. b.raw = RawNode(format, Addr("list", p)) /\ own \subseteq b.mem
  <2>1. FromList(format, kids, keys, p) =
          Built(RawNode(format, Addr("list", p)), Mems(kids, k) \cup own)
    <3>1. ~FromList(format, kids, keys, p).panic /\ DOMAIN kids = 1..k /\ k \in Nat
      OBVIOUS
    <3> QED
      BY ONLY <3>1, ListBuilt
  <2> QED
    BY <2>1 DEF Built
<1>2. raws \in Seq(Raw) /\ DOMAIN raws = 1..k
  <2>1. \A i \in 1..k : ~kids[i].panic
    BY ListBuilt
  <2> QED
    BY <2>1 DEF Raws, Shape
<1>3. \A at, body : Block(at, body) \in own => (\E y \in m : y.at = at) /\ Body(m, at) = body
  <2>1. Holds(m, own)
    BY <1>1 DEF Holds
  <2>2. \A at, body : Block(at, body).at = at /\ Block(at, body).body = body
    BY DEF Block
  <2> HIDE DEF own
  <2> QED
    BY <2>1, <2>2 DEF Holds
<1>4. /\ \A what : Addr(what, p)[1] = what
      /\ Addr("list", p) # Null /\ Addr("values", p) # Null /\ Addr("keys", p) # Null
  BY DEF Addr, Null
<1> HIDE DEF raws, own, b
<1>5. CASE k = 0
  <2>1. own = {EmptyList(p)}
    BY <1>2, <1>5, PutListIs DEF own
  <2>2. /\ \E y \in m : y.at = Addr("list", p)
        /\ Body(m, Addr("list", p)) = <<[num |-> 0, values |-> Null, keys |-> Null]>>
    BY <1>3, <2>1 DEF EmptyList
  <2> QED
    BY <1>1, <1>4, <1>5, <2>2 DEF ListIn, Held, b
<1>6. CASE k # 0
  <2>1. own = FullList(raws, keys, p, k)
    BY <1>2, <1>6, PutListIs DEF own
  <2>2. ListBlock(keys, p, k) \in own /\ ValuesBlock(raws, p) \in own
    BY <2>1 DEF FullList
  <2>3. /\ \E y \in m : y.at = Addr("list", p)
        /\ Body(m, Addr("list", p)) = <<[num |-> k, values |-> Addr("values", p),
                                         keys |-> IF keys = <<>> THEN Null ELSE Addr("keys", p)]>>
    BY <1>3, <2>2 DEF ListBlock
  <2>4. Body(m, Addr("values", p)) = raws
    BY <1>3, <2>2 DEF ValuesBlock
  <2>5. ASSUME keys # <<>>
        PROVE  /\ Body(m, Addr("keys", p)) = [i \in 1..k |-> KeyAt(p, i)]
               /\ \A i \in 1..k : Body(m, KeyAt(p, i)) = <<keys[i]>>
    <3>1. KeysBlock(p, k) \in own /\ \A i \in 1..k : KeyBlock(keys, p, i) \in own
      BY <2>1, <2>5 DEF FullList
    <3>2. Body(m, Addr("keys", p)) = [i \in 1..k |-> KeyAt(p, i)]
      BY <1>3, <3>1 DEF KeysBlock
    <3>3. \A i \in 1..k : Body(m, KeyAt(p, i)) = <<keys[i]>>
      BY <1>3, <3>1 DEF KeyBlock
    <3> QED
      BY <3>2, <3>3
  <2> QED
    BY <1>1, <1>4, <1>6, <2>3, <2>4, <2>5 DEF ListIn, Held, b, raws
<1> QED
  BY <1>5, <1>6

\* A list is read as the list of what its nodes are read as.
ListRead(format, keys, k, V) ==
  IF format = "Array" THEN [kind |-> "Array", items |-> [i \in 1..k |-> V[i]]]
  ELSE [kind |-> "Map", entries |-> [i \in 1..k |-> [key |-> keys[i], node |-> V[i]]]]

ReadAsList(r, m, sub, format, n) ==
  /\ format = "Array" => ToArray(r, m, sub) = n
  /\ format = "Map" => ToMap(r, m, sub) = n
  /\ r.format = format
  /\ ValueBy(r, m, sub) = n

LEMMA ListReads ==
  ASSUME NEW m, NEW format \in {"Array", "Map"}, NEW p \in Paths, NEW k \in Nat, NEW kids, NEW keys,
         DOMAIN kids = 1..k,
         format = "Array" => keys = <<>>, format = "Map" => DOMAIN keys = 1..k,
         \A i \in 1..k : Shape(kids[i], Append(p, i)),
         ~FromList(format, kids, keys, p).panic,
         Holds(m, FromList(format, kids, keys, p).mem),
         NEW sub, NEW V, \A i \in 1..k : sub[kids[i].raw] = V[i]
  PROVE  ReadAsList(FromList(format, kids, keys, p).raw, m, sub, format, ListRead(format, keys, k, V))
<1> DEFINE a == Addr("list", p)
           r == FromList(format, kids, keys, p).raw
           l == Body(m, a)[1]
           vals == [i \in 1..k |-> V[i]]
           ents == [i \in 1..k |-> [key |-> keys[i], node |-> V[i]]]
<1>0. keys = <<>> \/ DOMAIN keys = 1..k
  OBVIOUS
<1>1. /\ r = RawNode(format, a) /\ a # Null /\ Held(m, a, "list") /\ l.num = k
      /\ k # 0 => /\ l.values = Addr("values", p) /\ Addr("values", p) # Null
                  /\ Body(m, Addr("values", p)) = Raws(kids, k)
      /\ (k # 0 /\ keys # <<>>) =>
           /\ l.keys = Addr("keys", p) /\ Addr("keys", p) # Null
           /\ Body(m, Addr("keys", p)) = [i \in 1..k |-> KeyAt(p, i)]
           /\ \A i \in 1..k : Body(m, KeyAt(p, i)) = <<keys[i]>>
  <2>1. r = RawNode(format, a)
    <3>1. ~FromList(format, kids, keys, p).panic /\ DOMAIN kids = 1..k /\ k \in Nat
      OBVIOUS
    <3> QED
      BY ONLY <3>1, ListRaw DEF r, a
  <2>2. ListIn(m, kids, keys, p, k)
    BY <1>0, ListHeld
  <2> QED
    BY <2>1, <2>2 DEF ListIn
<1> HIDE DEF a, l, r
<1>2. r.format = format /\ r.u = a
  BY <1>1 DEF RawNode
<1>3. k # 0 => [i \in 1..l.num |-> sub[Body(m, l.values)[i]]] = vals
  BY <1>1 DEF Raws
<1>4. k = 0 => [i \in 1..l.num |-> sub[Body(m, l.values)[i]]] = vals /\ vals = <<>>
  BY <1>1
<1>5. Values(l, m, sub) = vals
  BY <1>1, <1>3, <1>4 DEF Values
<1>6. ASSUME format = "Map"
      PROVE  /\ k = 0 => ents = <<>>
             /\ [i \in 1..l.num |-> [key |-> Body(m, Body(m, l.keys)[i])[1],
                                     node |-> sub[Body(m, l.values)[i]]]] = ents
             /\ Entries(l, m, sub) = ents
  <2>1. CASE k = 0
    BY <1>1, <2>1 DEF Entries
  <2>2. CASE k # 0
    <3>1. keys # <<>>
      BY <1>6, <2>2
    <3>2. \A i \in 1..k : /\ Body(m, Body(m, l.keys)[i])[1] = keys[i]
                         /\ sub[Body(m, l.values)[i]] = V[i]
      BY <1>1, <2>2, <3>1 DEF Raws
    <3> QED
      BY <1>1, <2>2, <3>1, <3>2 DEF Entries
  <2> QED
    BY <2>1, <2>2
<1>7. CASE format = "Array"
  <2>1. ToArray(r, m, sub) = [kind |-> "Array", items |-> vals]
    BY <1>1, <1>2, <1>5, <1>7 DEF ToArray, l
  <2>2. ValueBy(r, m, sub) = [kind |-> "Array", items |-> vals]
    BY <1>2, <1>3, <1>4, <1>7 DEF ValueBy, l
  <2> QED
    BY <1>2, <1>7, <2>1, <2>2 DEF ListRead, ReadAsList, r
<1>8. CASE format = "Map"
  <2>1. ToMap(r, m, sub) = [kind |-> "Map", entries |-> ents]
    BY <1>1, <1>2, <1>6, <1>8 DEF ToMap, l
  <2>2. ValueBy(r, m, sub) = [kind |-> "Map", entries |-> ents]
    BY <1>2, <1>6, <1>8 DEF ValueBy, l
  <2> QED
    BY <1>2, <1>8, <2>1, <2>2 DEF ListRead, ReadAsList, r
<1> QED
  BY <1>7, <1>8


\* A leaf is read as it was, by its format and as its type.
ReadAsLeaf(r, m, n) ==
  /\ \A sub : ToBy(r, m, sub) = n /\ ValueBy(r, m, sub) = n
  /\ n.kind = "String" => ToText(r, m) = n
  /\ n.kind = "Bytes" => ToBytes(r, m) = n
  /\ n.kind = "Int" => [kind |-> "Int", val |-> IntOf(r.u)] = n

LEMMA LeafReads ==
  ASSUME NEW m, NEW d \in 1..MaxDepth, NEW n \in Nodes[d], NEW p \in Paths,
         n.kind \notin {"Array", "Map"}, ~From[d][n][p].panic, Holds(m, From[d][n][p].mem)
  PROVE  ReadAsLeaf(From[d][n][p].raw, m, n)
<1> DEFINE b == From[d][n][p]
           r == From[d][n][p].raw
<1>1. \A at, body : Block(at, body) \in b.mem => (\E y \in m : y.at = at) /\ Body(m, at) = body
  <2>1. \A at, body : Block(at, body).at = at /\ Block(at, body).body = body
    BY DEF Block
  <2> QED
    BY <2>1 DEF Holds
<1>2. CASE n = NoneNode /\ b = Built(NoneRaw, {})
  BY <1>2 DEF ReadAsLeaf, ToBy, ValueBy, Built, NoneRaw, RawNode, NoneNode
<1>3. CASE n.val \in Int /\ n = [kind |-> "Int", val |-> n.val]
           /\ b = Built(RawNode("Int", Scalar(n.val)), {})
  <2>1. r.format = "Int" /\ r.u = Scalar(n.val) /\ n.kind = "Int"
    BY <1>3 DEF Built, RawNode
  <2>2. IntOf(Scalar(n.val)) = n.val
    BY <1>3 DEF IntOf, Scalar, Null
  <2>3. [kind |-> "Int", val |-> IntOf(r.u)] = n
    BY <1>3, <2>1, <2>2
  <2> HIDE DEF r
  <2> QED
    BY <2>1, <2>3 DEF ReadAsLeaf, ToBy, ValueBy, r
<1>4. CASE n = [kind |-> "String", text |-> n.text] /\ b = FromString(n.text, p)
  <2>1. b = Built(RawNode("String", Addr("cstr", p)), {Block(Addr("cstr", p), <<n.text>>)})
    BY <1>4 DEF FromString, Panicked
  <2>2. /\ r.format = "String" /\ r.u = Addr("cstr", p) /\ n.kind = "String"
        /\ Block(Addr("cstr", p), <<n.text>>) \in b.mem
    BY <1>4, <2>1 DEF Built, RawNode
  <2>3. /\ Held(m, Addr("cstr", p), "cstr") /\ Addr("cstr", p) # Null
        /\ Body(m, Addr("cstr", p))[1] = n.text
    BY <1>1, <2>2 DEF Held, Addr, Null
  <2> HIDE DEF r, b
  <2>4. ToText(r, m) = n
    BY <1>4, <2>2, <2>3 DEF ToText
  <2>5. \A sub : ValueBy(r, m, sub) = n
    BY <1>4, <2>2, <2>3 DEF ValueBy
  <2> QED
    BY <2>2, <2>4, <2>5 DEF ReadAsLeaf, ToBy, r
<1>5. CASE /\ n.bytes \in Seq(Int) /\ n = [kind |-> "Bytes", bytes |-> n.bytes]
           /\ b = FromBytes(n.bytes, p)
  <2> DEFINE ba == [data |-> IF n.bytes = <<>> THEN Null ELSE Addr("data", p),
                    size |-> Len(n.bytes)]
  <2>1. /\ r.format = "Bytes" /\ r.u = Addr("ba", p) /\ n.kind = "Bytes"
        /\ Block(Addr("ba", p), <<ba>>) \in b.mem
        /\ n.bytes # <<>> => Block(Addr("data", p), n.bytes) \in b.mem
    <3>1. b = Built(RawNode("Bytes", Addr("ba", p)),
                    {BaBlock(n.bytes, p)} \cup (IF n.bytes = <<>> THEN {} ELSE {DataBlock(n.bytes, p)}))
      BY <1>5, BytesAre
    <3>2. /\ b.raw = RawNode("Bytes", Addr("ba", p)) /\ BaBlock(n.bytes, p) \in b.mem
          /\ n.bytes # <<>> => DataBlock(n.bytes, p) \in b.mem
      BY <3>1 DEF Built
    <3>3. n.kind = "Bytes"
      BY <1>5
    <3> HIDE DEF b
    <3> QED
      BY <3>2, <3>3 DEF RawNode, BaBlock, DataBlock, b
  <2>2. /\ Held(m, Addr("ba", p), "ba") /\ Addr("ba", p) # Null
        /\ Body(m, Addr("ba", p)) = <<ba>>
        /\ n.bytes # <<>> => Body(m, Addr("data", p)) = n.bytes
    BY <1>1, <2>1 DEF Held, Addr, Null
  <2>3. /\ n.bytes = <<>> => ba.data = Null /\ ba.size = 0
        /\ n.bytes # <<>> => ba.data = Addr("data", p) /\ ba.data # Null /\ ba.size # 0
    BY <1>5 DEF Addr, Null
  <2> HIDE DEF r, b, ba
  <2>4. ToBytes(r, m) = [kind |-> "Bytes", bytes |-> n.bytes]
    BY <2>1, <2>2, <2>3 DEF ToBytes
  <2>5. \A sub : ValueBy(r, m, sub) = [kind |-> "Bytes", bytes |-> n.bytes]
    BY <2>1, <2>2, <2>3 DEF ValueBy
  <2> QED
    BY <1>5, <2>1, <2>4, <2>5 DEF ReadAsLeaf, ToBy, r
<1> QED
  BY <1>2, <1>3, <1>4, <1>5, LeafIs

\* What a node that was converted is read as: the node, its lists cut.  A reader of
\* one type and the reader of any node agree on it.
ReadBack(m, d, n, p, e) ==
  LET r == From[d][n][p].raw
  IN /\ Reads(m)[e][r] = Cuts[d][n]
     /\ ValuesOf(m)[e][r] = Cuts[d][n]
     /\ n.kind = "String" => ToText(r, m) = Cuts[d][n]
     /\ n.kind = "Bytes" => ToBytes(r, m) = Cuts[d][n]
     /\ n.kind = "Int" => [kind |-> "Int", val |-> IntOf(r.u)] = Cuts[d][n]
     /\ n.kind = "Array" => ToArray(r, m, Reads(m)[e]) = Cuts[d][n]
     /\ n.kind = "Map" => ToMap(r, m, Reads(m)[e]) = Cuts[d][n]

LEMMA ReadsBack ==
  ASSUME NEW m
  PROVE  \A d \in 0..MaxDepth : \A n \in Nodes[d], p \in Paths, e \in d..MaxDepth :
           ~From[d][n][p].panic /\ Holds(m, From[d][n][p].mem) => ReadBack(m, d, n, p, e)
<1> DEFINE Good(d) ==
             \A n \in Nodes[d], p \in Paths, e \in d..MaxDepth :
               ~From[d][n][p].panic /\ Holds(m, From[d][n][p].mem) => ReadBack(m, d, n, p, e)
           T == {d \in 0..MaxDepth : Good(d)}
<1>1. 0 \in T
  BY NoNodes
<1>2. ASSUME NEW d \in 1..MaxDepth, d-1 \in T PROVE d \in T
  <2> SUFFICES ASSUME NEW n \in Nodes[d], NEW p \in Paths, NEW e \in d..MaxDepth,
                      ~From[d][n][p].panic, Holds(m, From[d][n][p].mem)
               PROVE  ReadBack(m, d, n, p, e)
    BY MarshalAssumption
  <2> DEFINE b == From[d][n][p]
  <2>1. e \in 0..MaxDepth /\ e # 0 /\ e-1 \in (d-1)..MaxDepth /\ e \in (d-1)..MaxDepth
        /\ d \in 0..MaxDepth
    BY MarshalAssumption
  <2>2. b.raw \in Raw
    BY <2>1, Shapes DEF Shape
  <2>3. /\ Reads(m)[e][b.raw] = ToBy(b.raw, m, Reads(m)[e-1])
        /\ ValuesOf(m)[e][b.raw] = ValueBy(b.raw, m, ValuesOf(m)[e-1])
    <3>1. /\ Reads(m)[e] = [r \in Raw |-> ToBy(r, m, Reads(m)[e-1])]
          /\ ValuesOf(m)[e] = [r \in Raw |-> ValueBy(r, m, ValuesOf(m)[e-1])]
      BY <2>1, ReadsAre, ValuesAre
    <3> QED
      BY <2>2, <3>1
  <2>4. CASE n.kind \notin {"Array", "Map"}
    <3>1. Cuts[d][n] = n
      BY <2>4, LeafIs
    <3>2. ReadAsLeaf(b.raw, m, n)
      BY <2>4, LeafReads
    <3>3. Reads(m)[e][b.raw] = n /\ ValuesOf(m)[e][b.raw] = n
      BY <2>3, <3>2 DEF ReadAsLeaf
    <3> QED
      BY <2>4, <3>1, <3>2, <3>3 DEF ReadBack, ReadAsLeaf
  <2>5. CASE n.kind \in {"Array", "Map"}
    <3>1. PICK k \in 0..MaxLen :
            /\ k \in Nat /\ ListOf(d, n, k)
            /\ From[d][n][p] = FromList(n.kind, KidsOf(d, n, p, k), Keys(n), p)
            /\ DOMAIN KidsOf(d, n, p, k) = 1..k
            /\ \A i \in 1..k :
                 /\ Kids(n)[i] \in Nodes[d-1] /\ Append(p, i) \in Paths
                 /\ KidsOf(d, n, p, k)[i] = From[d-1][Kids(n)[i]][Append(p, i)]
                 /\ Shape(KidsOf(d, n, p, k)[i], Append(p, i))
      BY <2>5, ListStep
    <3> DEFINE kids == KidsOf(d, n, p, k)
               V == [i \in 1..k |-> Cuts[d-1][Kids(n)[i]]]
    <3> HIDE DEF kids
    <3>2. b = FromList(n.kind, kids, Keys(n), p)
      BY <3>1 DEF kids
    <3>3. k \in Nat /\ DOMAIN kids = 1..k
      BY <3>1 DEF kids
    <3>4. \A i \in 1..k : /\ Kids(n)[i] \in Nodes[d-1] /\ Append(p, i) \in Paths
                         /\ kids[i] = From[d-1][Kids(n)[i]][Append(p, i)]
      BY <3>1 DEF kids
    <3>5. \A i \in 1..k : Shape(kids[i], Append(p, i))
      BY <3>1 DEF kids
    <3>6. (n.kind = "Array" => Keys(n) = <<>>) /\ (n.kind = "Map" => DOMAIN Keys(n) = 1..k)
      BY <3>1 DEF ListOf
    <3>7. \A i \in 1..k : ~kids[i].panic /\ Holds(m, kids[i].mem)
      <4>1. ~FromList(n.kind, kids, Keys(n), p).panic
        BY <3>2
      <4>2. \A i \in 1..k : ~kids[i].panic
        BY <3>3, <4>1, ListBuilt
      <4>3. \A i \in 1..k : kids[i].mem \subseteq b.mem
        BY <3>2, <3>3, <4>1, EntriesKept
      <4> QED
        BY <4>2, <4>3 DEF Holds
    <3>8. \A i \in 1..k, f \in (d-1)..MaxDepth :
            Reads(m)[f][kids[i].raw] = V[i] /\ ValuesOf(m)[f][kids[i].raw] = V[i]
      <4> SUFFICES ASSUME NEW i \in 1..k, NEW f \in (d-1)..MaxDepth
                   PROVE  Reads(m)[f][kids[i].raw] = V[i] /\ ValuesOf(m)[f][kids[i].raw] = V[i]
        OBVIOUS
      <4>1. Good(d-1)
        BY <1>2
      <4>2. ~From[d-1][Kids(n)[i]][Append(p, i)].panic
            /\ Holds(m, From[d-1][Kids(n)[i]][Append(p, i)].mem)
        BY <3>4, <3>7
      <4>3. ReadBack(m, d-1, Kids(n)[i], Append(p, i), f)
        BY <3>4, <4>1, <4>2
      <4> QED
        BY <3>4, <4>3 DEF ReadBack
    <3>9. Cuts[d][n] = ListRead(n.kind, Keys(n), k, V)
      BY <2>5, <3>1 DEF ListOf, ListRead
    <3> HIDE DEF V, b
    <3>10. ASSUME NEW sub, \A i \in 1..k : sub[kids[i].raw] = V[i]
           PROVE  /\ n.kind = "Array" => ToArray(b.raw, m, sub) = Cuts[d][n]
                  /\ n.kind = "Map" => ToMap(b.raw, m, sub) = Cuts[d][n]
                  /\ b.raw.format = n.kind
                  /\ ValueBy(b.raw, m, sub) = Cuts[d][n]
      <4>1. ~FromList(n.kind, kids, Keys(n), p).panic
            /\ Holds(m, FromList(n.kind, kids, Keys(n), p).mem)
        BY <3>2 DEF b
      <4>2. ReadAsList(FromList(n.kind, kids, Keys(n), p).raw, m, sub, n.kind,
                       ListRead(n.kind, Keys(n), k, V))
        BY <2>5, <3>3, <3>5, <3>6, <3>10, <4>1, ListReads
      <4> QED
        BY <2>5, <3>2, <3>9, <4>2 DEF ReadAsList
    <3>11. /\ n.kind = "Array" => ToArray(b.raw, m, Reads(m)[e-1]) = Cuts[d][n]
           /\ n.kind = "Map" => ToMap(b.raw, m, Reads(m)[e-1]) = Cuts[d][n]
           /\ b.raw.format = n.kind
      BY <2>1, <3>8, <3>10
    <3>12. /\ n.kind = "Array" => ToArray(b.raw, m, Reads(m)[e]) = Cuts[d][n]
           /\ n.kind = "Map" => ToMap(b.raw, m, Reads(m)[e]) = Cuts[d][n]
      BY <2>1, <3>8, <3>10
    <3>13. ValueBy(b.raw, m, ValuesOf(m)[e-1]) = Cuts[d][n]
      BY <2>1, <3>8, <3>10
    <3>14. ToBy(b.raw, m, Reads(m)[e-1]) = Cuts[d][n]
      BY <2>5, <3>11 DEF ToBy
    <3> QED
      BY <2>3, <2>5, <3>12, <3>13, <3>14 DEF ReadBack, b
  <2> QED
    BY <2>4, <2>5
<1> HIDE DEF T
<1>3. 0..MaxDepth \subseteq T
  BY <1>1, <1>2, Levels
<1> QED
  BY <1>3 DEF T


---------------------------------------------------------------------------
(* A node that mpv kept is converted as the node it was made from.         *)

\* The keys of a map are strings, no two of them the same.
LEMMA KeysAre ==
  ASSUME NEW d \in 1..MaxDepth, NEW n \in Nodes[d], n.kind = "Map", NEW k \in 0..MaxLen,
         DOMAIN Keys(n) = 1..k
  PROVE  /\ \A i \in 1..k : Keys(n)[i] \in STRING
         /\ \A i, j \in 1..k : Keys(n)[i] = Keys(n)[j] => i = j
<1> DEFINE S == [key : STRING, node : Nodes[d-1]]
<1>1. d \in 0..MaxDepth
  BY MarshalAssumption
<1>2. n \in Maps(Nodes[d-1])
  <2>1. n \in Leaves \/ n \in Arrays(Nodes[d-1]) \/ n \in Maps(Nodes[d-1])
    BY <1>1, NodeCases
  <2> QED
    BY <2>1, Kinds
<1>3. /\ n.entries \in Seq(S)
      /\ \A i, j \in DOMAIN n.entries : n.entries[i].key = n.entries[j].key => i = j
  BY <1>2 DEF Maps
<1>4. PICK j \in 0..MaxLen : /\ j <= Len(n.entries) /\ DOMAIN Taken(n.entries) = 1..j
                             /\ \A i \in 1..j : n.entries[i] \in S
  BY <1>3, TakenIs
<1>5. Keys(n) = [i \in 1..j |-> n.entries[i].key]
  BY <1>4 DEF Keys
<1>6. k = j
  BY <1>4, <1>5, MarshalAssumption
<1>7. \A i \in 1..k : i \in DOMAIN n.entries
  BY <1>3, <1>4, <1>6, MarshalAssumption
<1> QED
  BY <1>3, <1>4, <1>5, <1>6, <1>7

\* A list no longer than MaxLen is taken whole.
LEMMA TakenWhole ==
  ASSUME NEW S, NEW k \in 0..MaxLen, NEW s, s = [i \in 1..k |-> s[i]], \A i \in 1..k : s[i] \in S
  PROVE  s \in Seq(S) /\ DOMAIN Taken(s) = 1..k
<1>1. k \in Nat /\ MaxLen \in Nat
  BY MarshalAssumption
<1>2. s \in Seq(S) /\ Len(s) = k
  BY <1>1
<1> QED
  BY <1>1, <1>2 DEF Taken

\* The cut of a list is a list of the cuts of its nodes, with the same keys.
LEMMA CutList ==
  ASSUME NEW d \in 1..MaxDepth, NEW n \in Nodes[d], n.kind \in {"Array", "Map"},
         NEW k \in 0..MaxLen, ListOf(d, n, k),
         \A i \in 1..k : Cuts[d-1][Kids(n)[i]] \in Nodes[d-1]
  PROVE  /\ Cuts[d][n] \in Nodes[d]
         /\ Cuts[d][n].kind = n.kind
         /\ Kids(Cuts[d][n]) = [i \in 1..k |-> Cuts[d-1][Kids(n)[i]]]
         /\ Keys(Cuts[d][n]) = Keys(n)
<1> DEFINE c == Cuts[d][n]
           V == [i \in 1..k |-> Cuts[d-1][Kids(n)[i]]]
<1>0. k \in Nat /\ d \in 0..MaxDepth /\ d # 0
  BY MarshalAssumption
<1>1. Nodes[d] = Leaves \cup Arrays(Nodes[d-1]) \cup Maps(Nodes[d-1])
  BY <1>0, NodesAre
<1>2. \A i \in 1..k : V[i] \in Nodes[d-1]
  OBVIOUS
<1>3. CASE n.kind = "Array"
  <2>1. c = [kind |-> "Array", items |-> V]
    BY <1>3 DEF ListOf
  <2>2. V \in Seq(Nodes[d-1]) /\ DOMAIN Taken(V) = 1..k
    <3>1. V = [i \in 1..k |-> V[i]]
      OBVIOUS
    <3> HIDE DEF V
    <3> QED
      BY <1>2, <3>1, TakenWhole
  <2>3. Keys(n) = <<>> /\ DOMAIN V = 1..k /\ V = [i \in 1..k |-> V[i]]
    BY <1>3 DEF ListOf
  <2> HIDE DEF V, c
  <2>4. c \in Arrays(Nodes[d-1])
    BY <2>1, <2>2 DEF Arrays
  <2>5. Kids(c) = V /\ Keys(c) = <<>>
    BY <2>1, <2>2, <2>3 DEF Kids, Keys
  <2> QED
    BY <1>1, <1>3, <2>1, <2>3, <2>4, <2>5 DEF c, V
<1>4. CASE n.kind = "Map"
  <2> DEFINE E == [i \in 1..k |-> [key |-> Keys(n)[i], node |-> V[i]]]
             S == [key : STRING, node : Nodes[d-1]]
  <2>1. c = [kind |-> "Map", entries |-> E]
    <3>1. c = [kind |-> "Map", entries |-> [i \in 1..k |->
                 [key |-> Keys(n)[i], node |-> Cuts[d-1][Kids(n)[i]]]]]
      BY <1>4 DEF ListOf
    <3>2. E = [i \in 1..k |-> [key |-> Keys(n)[i], node |-> Cuts[d-1][Kids(n)[i]]]]
      OBVIOUS
    <3> QED
      BY <3>1, <3>2
  <2>2. /\ DOMAIN Keys(n) = 1..k
        /\ \A i \in 1..k : Keys(n)[i] \in STRING
        /\ \A i, j \in 1..k : Keys(n)[i] = Keys(n)[j] => i = j
    <3>1. DOMAIN Keys(n) = 1..k
      BY <1>4 DEF ListOf
    <3> QED
      BY <1>4, <3>1, KeysAre
  <2>3. \A i \in 1..k : E[i] \in S /\ E[i].key = Keys(n)[i] /\ E[i].node = V[i]
    BY <1>2, <2>2
  <2>4. E = [i \in 1..k |-> E[i]] /\ DOMAIN E = 1..k
    OBVIOUS
  <2>5. V = [i \in 1..k |-> V[i]]
    OBVIOUS
  <2> HIDE DEF E, V, c
  <2>6. E \in Seq(S) /\ DOMAIN Taken(E) = 1..k
    <3> HIDE DEF S
    <3> QED
      BY <2>3, <2>4, TakenWhole
  <2>7. c \in Maps(Nodes[d-1])
    <3>1. c \in [kind : {"Map"}, entries : Seq(S)]
      BY <2>1, <2>6
    <3>2. \A i, j \in DOMAIN c.entries : c.entries[i].key = c.entries[j].key => i = j
      BY <2>1, <2>2, <2>3, <2>4
    <3> QED
      BY <3>1, <3>2 DEF Maps
  <2>8. Kids(c) = V
    BY <2>1, <2>3, <2>5, <2>6 DEF Kids
  <2>9. Keys(n) = [i \in 1..k |-> Keys(n)[i]]
    BY <1>4, <2>2 DEF Keys
  <2>10. Keys(c) = Keys(n)
    BY <2>1, <2>3, <2>6, <2>9 DEF Keys
  <2> QED
    BY <1>1, <1>4, <2>1, <2>7, <2>8, <2>10 DEF c, V
<1> QED
  BY <1>3, <1>4

\* Cutting a node leaves a node of the same level, which is converted and cut as the
\* node itself.
SameCut(d, n) ==
  /\ Cuts[d][n] \in Nodes[d]
  /\ Cuts[d][n].kind = n.kind
  /\ \A p \in Paths : From[d][Cuts[d][n]][p] = From[d][n][p]
  /\ Cuts[d][Cuts[d][n]] = Cuts[d][n]

LEMMA CutSame == \A d \in 0..MaxDepth : \A n \in Nodes[d] : SameCut(d, n)
<1> DEFINE T == {d \in 0..MaxDepth : \A n \in Nodes[d] : SameCut(d, n)}
<1>1. 0 \in T
  BY NoNodes
<1>2. ASSUME NEW d \in 1..MaxDepth, d-1 \in T PROVE d \in T
  <2> SUFFICES ASSUME NEW n \in Nodes[d] PROVE SameCut(d, n)
    BY MarshalAssumption
  <2>1. <<>> \in Paths
    BY DEF Paths
  <2>2. CASE n.kind \notin {"Array", "Map"}
    <3>1. Cuts[d][n] = n
      BY <2>1, <2>2, LeafIs
    <3> QED
      BY <3>1 DEF SameCut
  <2>3. CASE n.kind \in {"Array", "Map"}
    <3>1. PICK k \in 0..MaxLen : ListOf(d, n, k)
      BY <2>3, ListIs
    <3> DEFINE c == Cuts[d][n]
               V == [i \in 1..k |-> Cuts[d-1][Kids(n)[i]]]
    <3>2. \A i \in 1..k : Kids(n)[i] \in Nodes[d-1]
      BY <3>1 DEF ListOf
    <3>3. \A i \in 1..k : SameCut(d-1, Kids(n)[i])
      BY <1>2, <3>2
    <3>4. \A i \in 1..k : V[i] \in Nodes[d-1]
      BY <3>3 DEF SameCut
    <3>5. c \in Nodes[d] /\ c.kind = n.kind /\ Kids(c) = V /\ Keys(c) = Keys(n)
      BY <2>3, <3>1, <3>4, CutList
    <3> HIDE DEF c
    <3>6. PICK j \in 0..MaxLen : ListOf(d, c, j)
      BY <2>3, <3>5, ListIs
    <3>7. j = k
      <4>1. DOMAIN Kids(c) = 1..j /\ DOMAIN Kids(c) = 1..k
        BY <3>5, <3>6 DEF ListOf
      <4> QED
        BY <4>1, MarshalAssumption
    <3>8. \A p \in Paths : From[d][c][p] = From[d][n][p]
      <4> SUFFICES ASSUME NEW p \in Paths PROVE From[d][c][p] = From[d][n][p]
        OBVIOUS
      <4>1. From[d][c][p] =
              FromList(c.kind, [i \in 1..k |-> From[d-1][Kids(c)[i]][Append(p, i)]], Keys(c), p)
        BY <3>6, <3>7 DEF ListOf
      <4>2. From[d][n][p] =
              FromList(n.kind, [i \in 1..k |-> From[d-1][Kids(n)[i]][Append(p, i)]], Keys(n), p)
        BY <3>1 DEF ListOf
      <4>3. \A i \in 1..k : Append(p, i) \in Paths
        BY PathsAre
      <4>4. \A i \in 1..k : From[d-1][Kids(c)[i]][Append(p, i)] = From[d-1][Kids(n)[i]][Append(p, i)]
        BY <3>3, <3>5, <4>3 DEF SameCut
      <4> QED
        BY <3>5, <4>1, <4>2, <4>4
    <3>9. \A i \in 1..k : Cuts[d-1][V[i]] = V[i]
      BY <3>3 DEF SameCut
    <3>10. Cuts[d][c] = c
      <4>1. CASE n.kind = "Array"
        <5>1. Cuts[d][c] = [kind |-> "Array", items |-> [i \in 1..k |-> Cuts[d-1][Kids(c)[i]]]]
          BY <3>5, <3>6, <3>7, <4>1 DEF ListOf
        <5>2. c = [kind |-> "Array", items |-> V]
          BY <3>1, <4>1 DEF ListOf, c
        <5>3. [i \in 1..k |-> Cuts[d-1][Kids(c)[i]]] = V
          BY <3>5, <3>9
        <5> QED
          BY <5>1, <5>2, <5>3
      <4>2. CASE n.kind = "Map"
        <5>1. Cuts[d][c] = [kind |-> "Map", entries |-> [i \in 1..k |->
                              [key |-> Keys(c)[i], node |-> Cuts[d-1][Kids(c)[i]]]]]
          BY <3>5, <3>6, <3>7, <4>2 DEF ListOf
        <5>2. c = [kind |-> "Map", entries |-> [i \in 1..k |->
                     [key |-> Keys(n)[i], node |-> Cuts[d-1][Kids(n)[i]]]]]
          BY <3>1, <4>2 DEF ListOf, c
        <5>3. \A i \in 1..k : Cuts[d-1][Kids(c)[i]] = Cuts[d-1][Kids(n)[i]]
          BY <3>5, <3>9
        <5>4. [i \in 1..k |-> [key |-> Keys(c)[i], node |-> Cuts[d-1][Kids(c)[i]]]]
                = [i \in 1..k |-> [key |-> Keys(n)[i], node |-> Cuts[d-1][Kids(n)[i]]]]
          BY <3>5, <5>3
        <5> QED
          BY <5>1, <5>2, <5>4
      <4> QED
        BY <2>3, <4>1, <4>2
    <3> QED
      BY <3>5, <3>8, <3>10 DEF SameCut, c
  <2> QED
    BY <2>2, <2>3
<1> HIDE DEF T
<1>3. 0..MaxDepth \subseteq T
  BY <1>1, <1>2, Levels
<1> QED
  BY <1>3 DEF T


---------------------------------------------------------------------------
(* The node of a call.                                                     *)

LEMMA Deepest ==
  /\ MaxDepth \in 0..MaxDepth /\ MaxDepth \in 1..MaxDepth /\ MaxDepth \in MaxDepth..MaxDepth
  /\ <<>> \in Paths
BY MarshalAssumption DEF Paths

\* What the conversion of any node is.
LEMMA Converted ==
  ASSUME NEW n \in Nodes[MaxDepth]
  PROVE  Shape(FromNode(n), <<>>) /\ Clean(FromNode(n)) /\ NumsFit(FromNode(n).mem)
BY Deepest, Shapes, NeverBad, Nums DEF FromNode

\* Dropping the node of a call that set a property gives back what was made for it.
LEMMA RustDrops ==
  ASSUME NEW n \in Nodes[MaxDepth], ~FromNode(n).panic
  PROVE  Gives(DropNode(FromNode(n).raw, FromNode(n).mem), Ats(FromNode(n).mem))
<1> DEFINE b == From[MaxDepth][n][<<>>]
<1>1. Distinct(b.mem)
  BY Converted DEF Shape, FromNode
<1>2. HoldsOwn(b.mem, b.mem)
  BY <1>1, DistinctHolds
<1>3. ~b.panic
  BY DEF FromNode
<1>4. Gives(Drops(b.mem)[MaxDepth][b.raw], Ats(b.mem))
  BY <1>2, <1>3, Deepest, Dropped
<1> QED
  BY <1>4 DEF DropNode, FromNode

\* mpv's copy of a block is at the same address, with the same contents.
LEMMA FillIs ==
  ASSUME NEW n \in Nodes[MaxDepth], ~FromNode(n).panic
  PROVE  /\ \A x \in FromNode(n).mem : /\ Theirs(x) \in Fill(n) /\ Theirs(x).at = x.at
                                       /\ Theirs(x).own = "mpv" /\ Theirs(x).body = x.body
         /\ Ats(Fill(n)) = Ats(FromNode(n).mem)
         /\ \A y \in Fill(n) : y.own = "mpv"
         /\ Holds(Fill(n), FromNode(n).mem)
         /\ NumsFit(Fill(n))
<1> DEFINE bs == FromNode(n).mem
<1>1. Rusts(bs, <<>>) /\ Distinct(bs) /\ NumsFit(bs)
  BY Converted DEF Shape
<1>2. \A x \in bs : /\ Theirs(x) \in Fill(n) /\ Theirs(x).at = x.at
                    /\ Theirs(x).own = "mpv" /\ Theirs(x).body = x.body
  BY <1>1 DEF Rusts, Theirs, Fill
<1>3. \A y \in Fill(n) : \E x \in bs : y = Theirs(x)
  BY DEF Fill
<1> HIDE DEF bs
<1>4. Ats(Fill(n)) = Ats(bs) /\ \A y \in Fill(n) : y.own = "mpv"
  BY <1>2, <1>3 DEF Ats
<1>5. NumsFit(Fill(n))
  BY <1>1, <1>2, <1>3 DEF NumsFit
<1>6. Holds(Fill(n), bs)
  <2> SUFFICES ASSUME NEW x \in bs
               PROVE  (\E y \in Fill(n) : y.at = x.at) /\ Body(Fill(n), x.at) = x.body
    BY DEF Holds
  <2>1. \A y \in Fill(n) : y.at = x.at => y = Theirs(x)
    BY <1>1, <1>2, <1>3 DEF Distinct
  <2>2. At(Fill(n), x.at) = Theirs(x)
    BY <1>2, <2>1 DEF At
  <2> QED
    BY <1>2, <2>2 DEF Body
<1> QED
  BY <1>2, <1>4, <1>5, <1>6 DEF bs

\* A node without blocks is none or a scalar; any other holds the address of a block.
LEMMA RawHeld ==
  ASSUME NEW n \in Nodes[MaxDepth], ~FromNode(n).panic
  PROVE  LET b == FromNode(n)
         IN IF b.raw.format \in {"None", "Int"} THEN b.mem = {} ELSE b.raw.u \in Ats(b.mem)
<1> DEFINE b == From[MaxDepth][n][<<>>]
<1>1. b = FromNode(n) /\ ~b.panic
  BY DEF FromNode
<1>2. CASE n.kind \notin {"Array", "Map"}
  <2>1. CASE b = Built(NoneRaw, {}) \/ \E u : b = Built(RawNode("Int", u), {})
    BY <1>1, <2>1 DEF Built, NoneRaw, RawNode
  <2>2. CASE b = FromString(n.text, <<>>)
    BY <1>1, <2>2 DEF FromString, Panicked, Built, RawNode, Ats, Block
  <2>3. CASE b = FromBytes(n.bytes, <<>>)
    <3>1. b.raw = RawNode("Bytes", Addr("ba", <<>>)) /\ BaBlock(n.bytes, <<>>) \in b.mem
      BY <2>3, BytesAre DEF Built
    <3> QED
      BY <1>1, <3>1 DEF RawNode, Ats, BaBlock, Block
  <2> QED
    BY <1>2, <2>1, <2>2, <2>3, LeafIs, Deepest
<1>3. CASE n.kind \in {"Array", "Map"}
  <2>1. PICK k \in 0..MaxLen :
          /\ k \in Nat
          /\ b = FromList(n.kind, KidsOf(MaxDepth, n, <<>>, k), Keys(n), <<>>)
          /\ DOMAIN KidsOf(MaxDepth, n, <<>>, k) = 1..k
          /\ Keys(n) = <<>> \/ DOMAIN Keys(n) = 1..k
          /\ \A i \in 1..k : Shape(KidsOf(MaxDepth, n, <<>>, k)[i], Append(<<>>, i))
    BY <1>3, Deepest, ListStep
  <2> DEFINE kids == KidsOf(MaxDepth, n, <<>>, k)
             l == FromList(n.kind, kids, Keys(n), <<>>)
  <2> HIDE DEF kids
  <2>2. /\ DOMAIN kids = 1..k /\ ~l.panic /\ b = l
        /\ \A i \in 1..k : Shape(kids[i], Append(<<>>, i))
    BY <1>1, <2>1 DEF kids
  <2>3. Distinct(b.mem)
    BY <1>1, Converted DEF Shape
  <2>4. Holds(l.mem, l.mem)
    BY <2>2, <2>3 DEF Distinct, Holds, Body, At
  <2>5. ListIn(l.mem, kids, Keys(n), <<>>, k)
    BY <1>3, <2>1, <2>2, <2>4, Deepest, ListHeld
  <2>6. l.raw = RawNode(n.kind, Addr("list", <<>>))
    <3>1. k \in Nat /\ DOMAIN kids = 1..k /\ ~l.panic
      BY <2>1, <2>2
    <3> QED
      BY <3>1, ListRaw
  <2>7. \E x \in l.mem : x.at = Addr("list", <<>>)
    BY <2>5 DEF ListIn, Held
  <2> QED
    BY <1>1, <1>3, <2>2, <2>6, <2>7 DEF RawNode, Ats
<1> QED
  BY <1>2, <1>3

\* mpv gives back the node that it filled.
LEMMA MpvDrops ==
  ASSUME NEW n \in Nodes[MaxDepth], ~FromNode(n).panic
  PROVE  Gives(FreeMpv(FromNode(n).raw, Fill(n)), Ats(Fill(n)))
<1> DEFINE r == FromNode(n).raw
           theirs == {b.at : b \in {b \in Fill(n) : b.own = "mpv"}}
<1>1. theirs = Ats(Fill(n))
  BY FillIs DEF Ats
<1>2. Ats(Fill(n)) = Ats(FromNode(n).mem)
  BY FillIs
<1>3. CASE r.format \in {"None", "Int"}
  <2>1. Ats(Fill(n)) = {}
    BY <1>2, <1>3, RawHeld DEF Ats
  <2>2. FreeMpv(r, Fill(n)) = Nothing
    BY <1>3 DEF FreeMpv
  <2> QED
    BY <2>1, <2>2, NothingGiven
<1>4. CASE r.format \notin {"None", "Int"}
  <2>1. r.u \in theirs
    BY <1>1, <1>2, <1>4, RawHeld
  <2>2. FreeMpv(r, Fill(n)) = Part(theirs, r.u \in theirs)
    BY <1>4 DEF FreeMpv
  <2>3. FreeMpv(r, Fill(n)) = Part(theirs, TRUE)
    BY <2>1, <2>2
  <2> HIDE DEF theirs, r
  <2> QED
    BY <1>1, <2>3 DEF Gives, Part, r
<1> QED
  BY <1>3, <1>4

\* An empty node gives nothing back.
LEMMA EmptyDrops ==
  ASSUME NEW m
  PROVE  DropNode(NoneRaw, m) = Nothing /\ FreeMpv(NoneRaw, m) = Nothing
<1>1. Drops(m)[MaxDepth] = [r \in Raw |-> DropBy(r, m, Drops(m)[MaxDepth-1])]
  BY DropsAre, MarshalAssumption
<1>2. DropNode(NoneRaw, m) = DropBy(NoneRaw, m, Drops(m)[MaxDepth-1])
  BY <1>1, NoneIsRaw DEF DropNode
<1>3. NoneRaw.format = "None"
  BY DEF NoneRaw, RawNode
<1> QED
  BY <1>2, <1>3 DEF DropBy, FreeMpv


---------------------------------------------------------------------------
(* The inductive invariant.                                                *)

\* The call in progress has no blocks yet, or has no more.
Empty == mem = {} /\ raw = NoneRaw

\* The blocks are those Rust made of the argument, a node that did not panic.
Passed ==
  /\ arg \in Nodes[MaxDepth] /\ ~FromNode(arg).panic
  /\ mem = FromNode(arg).mem /\ raw = FromNode(arg).raw

\* The blocks are those mpv made of the property.
Filled == mem = Fill(prop) /\ raw = FromNode(prop).raw

\* The property is a node that was converted once: it has no NUL, and no list longer
\* than MaxLen.
Kept(n) == n \in Nodes[MaxDepth] /\ Cut(n) = n /\ ~FromNode(n).panic

Typed ==
  /\ pc \in {"idle", "set", "fill", "read", "drop", "panicked"}
  /\ op \in {"set", "get", "ret", "event"}
  /\ ty \in Types
  /\ res.tag \in {"Ok", "Err"}
  /\ raw \in Raw
  /\ NumsFit(mem)

\* Whose blocks are in memory at each point of a call.
Memory ==
  /\ bad = FALSE
  /\ pc = "idle" => Empty
  /\ pc = "set" => op = "set" /\ Passed
  /\ pc = "fill" => op # "set" /\ Empty
  /\ pc = "read" => op # "set" /\ Filled
  /\ (pc = "drop" /\ op = "set") => Passed \/ Empty
  /\ (pc = "drop" /\ op # "set") => Filled \/ Empty

IInv == Typed /\ Kept(prop) /\ Memory /\ RoundTrip /\ RetTyped

\* What the invariant says a property is read as.
LEMMA KeptRead ==
  ASSUME NEW n, Kept(n)
  PROVE  ReadBack(Fill(n), MaxDepth, n, <<>>, MaxDepth) /\ Cuts[MaxDepth][n] = n
<1>1. n \in Nodes[MaxDepth] /\ Cuts[MaxDepth][n] = n
  BY DEF Kept, Cut
<1>2. ~From[MaxDepth][n][<<>>].panic
  BY DEF Kept, FromNode
<1>3. ~FromNode(n).panic
  BY DEF Kept
<1>4. Holds(Fill(n), From[MaxDepth][n][<<>>].mem)
  BY <1>1, <1>3, FillIs DEF FromNode
<1> QED
  BY <1>1, <1>2, <1>4, Deepest, ReadsBack

\* What the invariant says mpv reads from a node it is passed, and keeps.
LEMMA PassedKept ==
  ASSUME NEW n \in Nodes[MaxDepth], ~FromNode(n).panic
  PROVE  /\ ValuesOf(FromNode(n).mem)[MaxDepth][FromNode(n).raw] = Cut(n)
         /\ Kept(Cut(n))
<1> DEFINE b == From[MaxDepth][n][<<>>]
<1>1. Distinct(b.mem)
  BY Converted DEF Shape, FromNode
<1>2. Holds(b.mem, b.mem)
  BY <1>1 DEF Distinct, Holds, Body, At
<1>3. ~b.panic
  BY DEF FromNode
<1>4. ReadBack(b.mem, MaxDepth, n, <<>>, MaxDepth)
  BY <1>2, <1>3, Deepest, ReadsBack
<1>5. ValuesOf(b.mem)[MaxDepth][b.raw] = Cuts[MaxDepth][n]
  BY <1>4 DEF ReadBack
<1>6. SameCut(MaxDepth, n)
  BY Deepest, CutSame
<1>7. From[MaxDepth][Cuts[MaxDepth][n]][<<>>] = b
  BY <1>6, Deepest DEF SameCut
<1>8. ~FromNode(Cut(n)).panic
  BY <1>3, <1>7 DEF FromNode, Cut
<1>9. Cut(n) \in Nodes[MaxDepth] /\ Cut(Cut(n)) = Cut(n)
  BY <1>6 DEF SameCut, Cut
<1> QED
  BY <1>5, <1>8, <1>9 DEF Kept, FromNode, Cut

LEMMA InitInv == Init => IInv
<1> SUFFICES ASSUME Init PROVE IInv
  OBVIOUS
<1> DEFINE n == [kind |-> "Int", val |-> 1]
<1>1. n \in Nodes[MaxDepth]
  <2>1. n \in Leaves
    BY DEF Leaves
  <2>2. Nodes[MaxDepth] = Leaves \cup Arrays(Nodes[MaxDepth-1]) \cup Maps(Nodes[MaxDepth-1])
    <3>1. MaxDepth \in 0..MaxDepth /\ MaxDepth # 0
      BY MarshalAssumption
    <3> QED
      BY <3>1, NodesAre
  <2> QED
    BY <2>1, <2>2
<1>2. From[MaxDepth][n][<<>>] = FromBy(n, <<>>, From[MaxDepth-1])
      /\ Cuts[MaxDepth][n] = CutBy(n, Cuts[MaxDepth-1])
  BY <1>1, Deepest, OneLevel
<1>3. Kept(n)
  <2>1. Cut(n) = n
    BY <1>2 DEF CutBy, Cut
  <2>2. FromNode(n).panic = FALSE
    BY <1>2 DEF FromBy, Built, FromNode
  <2> QED
    BY <1>1, <2>1, <2>2 DEF Kept
<1>4. NumsFit({})
  BY DEF NumsFit
<1>5. Typed
  BY <1>4, NoneIsRaw, MarshalAssumption DEF Init, Typed, Err
<1>6. Memory /\ RoundTrip /\ RetTyped
  BY DEF Init, Memory, Empty, RoundTrip, RetTyped
<1> QED
  BY <1>3, <1>5, <1>6 DEF IInv, Init

\* A call that sets the property: its blocks are those of its argument, or it has none.
LEMMA SetStep ==
  ASSUME IInv, NEW t \in Types, NEW n \in Inputs, Set(t, n)
  PROVE  IInv'
<1>1. Typed /\ Kept(prop) /\ bad = FALSE /\ Empty
  BY DEF IInv, Memory, Set, Begin
<1>2. n \in Nodes[MaxDepth]
  BY MarshalAssumption
<1>3. op' = "set" /\ ty' = t /\ arg' = n /\ prop' = prop
  BY DEF Set, Begin
<1>4. CASE t = "String" /\ n.text \in HasNul
  <2>1. res' = Err("Nul") /\ pc' = "drop" /\ UNCHANGED <<mem, bad, raw>>
    BY <1>4 DEF Set
  <2>2. res'.tag = "Err"
    BY <2>1 DEF Err
  <2>3. Typed'
    BY <1>1, <1>3, <2>1, <2>2 DEF Typed, NumsFit
  <2>4. Memory'
    BY <1>1, <1>3, <2>1 DEF Memory, Empty
  <2>5. RoundTrip' /\ RetTyped'
    BY <1>3, <2>2 DEF RoundTrip, RetTyped
  <2> QED
    BY <1>1, <1>3, <2>3, <2>4, <2>5 DEF IInv, Kept
<1>5. CASE ~(t = "String" /\ n.text \in HasNul)
  <2> DEFINE b == FromNode(n)
  <2>1. /\ mem' = mem \cup b.mem /\ bad' = (bad \/ b.bad) /\ raw' = b.raw
        /\ res' = Err("Pending") /\ pc' = IF b.panic THEN "panicked" ELSE "set"
    BY <1>5 DEF Set
  <2>2. b.raw \in Raw /\ b.panic \in BOOLEAN /\ NumsFit(b.mem) /\ b.bad = FALSE
    BY <1>2, Converted DEF Shape, Clean
  <2> HIDE DEF b
  <2>3. mem' = b.mem /\ bad' = FALSE /\ res'.tag = "Err" /\ pc' \in {"panicked", "set"}
        /\ (pc' = "set" => ~b.panic)
    BY <1>1, <2>1, <2>2 DEF Empty, Err
  <2>4. Typed'
    BY <1>3, <2>1, <2>2, <2>3 DEF Typed, NumsFit
  <2>5. pc' = "set" => Passed'
    BY <1>2, <1>3, <2>1, <2>3 DEF Passed, b
  <2>6. Memory'
    BY <1>3, <2>3, <2>5 DEF Memory
  <2>7. RoundTrip' /\ RetTyped'
    BY <2>3 DEF RoundTrip, RetTyped
  <2> QED
    BY <1>1, <1>3, <2>4, <2>6, <2>7 DEF IInv, Kept
<1> QED
  BY <1>4, <1>5

\* mpv takes the value of the argument, its lists cut.
LEMMA MpvSetStep ==
  ASSUME IInv, MpvSet
  PROVE  IInv'
<1>1. Typed /\ Kept(prop) /\ bad = FALSE /\ op = "set" /\ Passed
  BY DEF IInv, Memory, MpvSet
<1>2. pc' = "drop" /\ UNCHANGED <<mem, bad, op, ty, arg, raw>>
  BY DEF MpvSet
<1>3. ValuesOf(mem)[MaxDepth][raw] = Cut(arg) /\ Kept(Cut(arg))
  BY <1>1, PassedKept DEF Passed
<1>4. \/ prop' = Cut(arg) /\ res' = Ok(arg)
      \/ prop' = prop /\ res' = Err("Mpv")
  BY <1>3 DEF MpvSet
<1>5. Kept(prop)'
  BY <1>1, <1>3, <1>4 DEF Kept
<1>6. res'.tag \in {"Ok", "Err"} /\ (res'.tag = "Ok" => prop' = Cut(arg'))
  BY <1>2, <1>4 DEF Ok, Err
<1>7. Typed'
  BY <1>1, <1>2, <1>6 DEF Typed, NumsFit
<1>8. Memory'
  BY <1>1, <1>2 DEF Memory, Passed
<1>9. RoundTrip' /\ RetTyped'
  BY <1>1, <1>2, <1>6 DEF RoundTrip, RetTyped
<1> QED
  BY <1>5, <1>7, <1>8, <1>9 DEF IInv

LEMMA GetStep ==
  ASSUME IInv, NEW o \in {"get", "ret", "event"}, NEW t \in Types, Get(o, t)
  PROVE  IInv'
<1>1. Typed /\ Kept(prop) /\ bad = FALSE /\ Empty
  BY DEF IInv, Memory, Get, Begin
<1>2. /\ pc' = "fill" /\ op' = o /\ ty' = t /\ raw' = NoneRaw /\ res' = Err("Pending")
      /\ UNCHANGED <<mem, bad, prop>>
  BY DEF Get, Begin
<1>3. res'.tag = "Err"
  BY <1>2 DEF Err
<1>4. Typed'
  BY <1>1, <1>2, <1>3, NoneIsRaw DEF Typed, NumsFit
<1>5. Memory'
  BY <1>1, <1>2 DEF Memory, Empty
<1>6. RoundTrip' /\ RetTyped'
  BY <1>2 DEF RoundTrip, RetTyped
<1> QED
  BY <1>1, <1>2, <1>4, <1>5, <1>6 DEF IInv, Kept

LEMMA MpvFillStep ==
  ASSUME IInv, MpvFill
  PROVE  IInv'
<1>1. Typed /\ Kept(prop) /\ bad = FALSE /\ op # "set" /\ Empty
  BY DEF IInv, Memory, MpvFill
<1>2. UNCHANGED <<bad, op, ty, arg, prop>>
  BY DEF MpvFill
<1>3. Kept(prop)'
  BY <1>1, <1>2 DEF Kept
<1>4. CASE /\ mem' = mem \cup Fill(prop) /\ raw' = FromNode(prop).raw
           /\ pc' = "read" /\ UNCHANGED res
  <2>1. raw' \in Raw /\ NumsFit(Fill(prop))
    BY <1>1, <1>4, Converted, FillIs DEF Kept, Shape
  <2>2. Filled'
    BY <1>1, <1>2, <1>4 DEF Filled, Empty, Fill, FromNode
  <2>3. Typed'
    BY <1>1, <1>2, <1>4, <2>1 DEF Typed, Empty, NumsFit
  <2>4. Memory'
    BY <1>1, <1>2, <1>4, <2>2 DEF Memory
  <2>5. RoundTrip' /\ RetTyped'
    BY <1>4 DEF RoundTrip, RetTyped
  <2> QED
    BY <1>3, <2>3, <2>4, <2>5 DEF IInv
<1>5. CASE res' = Err("Mpv") /\ pc' = "drop" /\ UNCHANGED <<mem, raw>>
  <2>1. res'.tag = "Err"
    BY <1>5 DEF Err
  <2>2. Typed'
    BY <1>1, <1>2, <1>5, <2>1 DEF Typed, NumsFit
  <2>3. Memory'
    BY <1>1, <1>2, <1>5 DEF Memory, Empty
  <2>4. RoundTrip' /\ RetTyped'
    BY <2>1 DEF RoundTrip, RetTyped
  <2> QED
    BY <1>3, <2>2, <2>3, <2>4 DEF IInv
<1> QED
  BY <1>4, <1>5 DEF MpvFill

\* What is read of the property is the property, when its type can hold it.
LEMMA ReadStep ==
  ASSUME IInv, Read
  PROVE  IInv'
<1>1. Typed /\ Kept(prop) /\ bad = FALSE /\ op \in {"get", "ret", "event"} /\ Filled
  BY DEF IInv, Memory, Read, Typed
<1>2. pc' = "drop" /\ UNCHANGED <<mem, bad, op, ty, arg, raw, prop>>
  BY DEF Read
<1>3. ToNode(raw, mem) = prop
  BY <1>1, KeptRead DEF ReadBack, Filled, ToNode, FromNode
<1>4. ty \in {"Node", "Array", "Map", "Bytes", "String", "Int"}
  BY <1>1, MarshalAssumption DEF Typed
<1>5. \E v : ReadAs(ty, raw, mem) = Ok(v)
  BY <1>4 DEF ReadAs
<1>6. ty \in {"Node", prop.kind} => ReadAs(ty, raw, mem) = Ok(prop)
  <2> SUFFICES ASSUME ty \in {"Node", prop.kind} PROVE ReadAs(ty, raw, mem) = Ok(prop)
    OBVIOUS
  <2>1. /\ prop.kind = "String" => ToText(raw, mem) = prop
        /\ prop.kind = "Bytes" => ToBytes(raw, mem) = prop
        /\ prop.kind = "Int" => [kind |-> "Int", val |-> IntOf(raw.u)] = prop
        /\ prop.kind = "Array" => ToArray(raw, mem, Reads(mem)[MaxDepth]) = prop
        /\ prop.kind = "Map" => ToMap(raw, mem, Reads(mem)[MaxDepth]) = prop
    <3>1. ReadBack(mem, MaxDepth, prop, <<>>, MaxDepth) /\ Cuts[MaxDepth][prop] = prop
      BY <1>1, KeptRead DEF Filled
    <3>2. raw = From[MaxDepth][prop][<<>>].raw
      BY <1>1 DEF Filled, FromNode
    <3> QED
      BY <3>1, <3>2 DEF ReadBack
  <2> QED
    <3>1. ty = "String" => ~(raw.u = Null)
      <4>1. ASSUME ty = "String", raw.u = Null
            PROVE  FALSE
        <5>1. prop.kind = "String" /\ ToText(raw, mem) = prop
          BY <2>1, <4>1
        <5>2. prop.kind = "None"
          BY <4>1, <5>1 DEF ToText, NoneNode
        <5> QED
          BY <5>1, <5>2
      <4> QED
        BY <4>1
    <3> QED
      BY <1>3, <1>4, <2>1, <3>1 DEF ReadAs
<1>7. res'.tag \in {"Ok", "Err"} /\ (res'.tag = "Ok" /\ ty \in {"Node", prop.kind} => res'.node = prop)
      /\ (res'.tag = "Ok" /\ op = "ret" => ty \in {"Node", prop.kind})
  <2>1. CASE op = "get"
    <3>1. res' = ReadAs(ty, raw, mem)
      BY <2>1 DEF Read
    <3> QED
      BY <1>5, <1>6, <2>1, <3>1 DEF Ok
  <2>2. CASE op = "ret"
    <3>1. res' = Narrow(ty, prop)
      BY <1>3, <2>2 DEF Read
    <3> QED
      BY <2>2, <3>1 DEF Narrow, Ok, Err
  <2>3. CASE op = "event"
    <3>1. res' = IF Format(ty) = "Node" THEN ReadAs(ty, raw, mem) ELSE Err("None")
      BY <2>3 DEF Read
    <3> QED
      BY <1>5, <1>6, <2>3, <3>1 DEF Ok, Err
  <2> QED
    BY <1>1, <2>1, <2>2, <2>3
<1>8. Typed'
  BY <1>1, <1>2, <1>7 DEF Typed, NumsFit
<1>9. Memory'
  BY <1>1, <1>2 DEF Memory, Filled, Fill, FromNode
<1>10. RoundTrip' /\ RetTyped'
  BY <1>1, <1>2, <1>7 DEF RoundTrip, RetTyped
<1>11. Kept(prop)'
  BY <1>1, <1>2 DEF Kept
<1> QED
  BY <1>8, <1>9, <1>10, <1>11 DEF IInv

\* The end of a call gives back every block of it, rightly.
LEMMA DropStep ==
  ASSUME IInv, Drop
  PROVE  IInv'
<1> DEFINE drop == IF RustMade THEN DropNode(raw, mem) ELSE FreeMpv(raw, mem)
<1>1. Typed /\ Kept(prop) /\ bad = FALSE
      /\ (op = "set" => Passed \/ Empty) /\ (op # "set" => Filled \/ Empty)
  BY DEF IInv, Memory, Drop
<1>2. /\ mem' = {b \in mem : b.at \notin drop.ats} /\ bad' = (bad \/ ~drop.ok)
      /\ pc' = "idle" /\ op' = "get" /\ ty' = "Node" /\ raw' = NoneRaw
      /\ res' = Err("Pending") /\ UNCHANGED prop
  BY DEF Drop
<1>3. Gives(drop, Ats(mem))
  <2>1. CASE Empty
    <3>1. drop = Nothing
      BY <2>1, EmptyDrops DEF Empty
    <3>2. Ats(mem) = {}
      BY <2>1 DEF Empty, Ats
    <3> QED
      BY <3>1, <3>2, NothingGiven
  <2>2. CASE op = "set" /\ Passed
    BY <2>2, RustDrops DEF Passed, RustMade
  <2>3. CASE op # "set" /\ Filled
    BY <1>1, <2>3, MpvDrops DEF Filled, RustMade, Kept
  <2> QED
    BY <1>1, <2>1, <2>2, <2>3
<1> HIDE DEF drop
<1>4. mem' = {} /\ bad' = FALSE
  BY <1>1, <1>2, <1>3 DEF Gives, Ats
<1>5. res'.tag = "Err"
  BY <1>2 DEF Err
<1>6. Typed'
  BY <1>1, <1>2, <1>4, <1>5, NoneIsRaw, MarshalAssumption DEF Typed, NumsFit
<1>7. Memory'
  BY <1>2, <1>4 DEF Memory, Empty
<1>8. RoundTrip' /\ RetTyped'
  BY <1>2 DEF RoundTrip, RetTyped
<1>9. Kept(prop)'
  BY <1>1, <1>2 DEF Kept
<1> QED
  BY <1>6, <1>7, <1>8, <1>9 DEF IInv

LEMMA StepInv == IInv /\ [Next]_vars => IInv'
<1> SUFFICES ASSUME IInv, [Next]_vars PROVE IInv'
  OBVIOUS
<1>1. ASSUME NEW t \in Types, NEW n \in Inputs, Set(t, n) PROVE IInv'
  BY <1>1, SetStep
<1>2. ASSUME NEW o \in {"get", "ret", "event"}, NEW t \in Types, Get(o, t) PROVE IInv'
  BY <1>2, GetStep
<1>3. CASE MpvSet
  BY <1>3, MpvSetStep
<1>4. CASE MpvFill
  BY <1>4, MpvFillStep
<1>5. CASE Read
  BY <1>5, ReadStep
<1>6. CASE Drop
  BY <1>6, DropStep
<1>7. CASE UNCHANGED vars
  BY <1>7 DEF vars, IInv, Typed, NumsFit, Kept, Memory, Empty, Passed, Filled, Fill, FromNode,
              RoundTrip, RetTyped
<1> QED
  BY <1>1, <1>2, <1>3, <1>4, <1>5, <1>6, <1>7 DEF Next

\* The invariant holds in every reachable state.
THEOREM Invariant == Spec => []IInv
<1>1. Init => IInv
  BY InitInv
<1>2. IInv /\ [Next]_vars => IInv'
  BY StepInv
<1> QED
  BY <1>1, <1>2, PTL DEF Spec

\* The variables have their types and every list that Rust makes has a length that
\* fits an i32, at every depth and after a panic.
THEOREM TypeCorrect == Spec => []TypeOK
<1>1. IInv => TypeOK
  BY DEF IInv, Typed, TypeOK, NumsFit, Raw
<1> QED
  BY <1>1, Invariant, PTL

\* Whatever the node, no block is given back twice, to the other side's allocator or
\* with another length than it was allocated with.
THEOREM GivenBackOnce == Spec => []FreedOnce
<1>1. IInv => FreedOnce
  BY DEF IInv, Memory, FreedOnce
<1> QED
  BY <1>1, Invariant, PTL

\* Whatever the node, a call that does not panic leaves none of its blocks behind.
THEOREM AllGivenBack == Spec => []NothingLeaks
<1>1. IInv => NothingLeaks
  BY DEF IInv, Memory, Empty, NothingLeaks
<1> QED
  BY <1>1, Invariant, PTL

\* A node of any depth arrives whole in mpv, up to the length of a list, and is read
\* back as it is by every reader whose type can hold it.
THEOREM RoundTrips == Spec => []RoundTrip
<1>1. IInv => RoundTrip
  BY DEF IInv
<1> QED
  BY <1>1, Invariant, PTL

\* The result of a command is never made from a node of another kind.
THEOREM RetIsTyped == Spec => []RetTyped
<1>1. IInv => RetTyped
  BY DEF IInv
<1> QED
  BY <1>1, Invariant, PTL

=============================================================================
