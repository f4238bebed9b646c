------------------------------ MODULE Marshal ------------------------------
(***************************************************************************)
(* The conversion of Rust nodes to mpv_node trees and back (node.rs,        *)
(* format.rs), with the memory the two sides own.  A C node is a pair of a  *)
(* format and a union word, which is a scalar or the address of a block;    *)
(* blocks are allocated by Rust (Box, CString, boxed slices) or by mpv      *)
(* (talloc) and each must be given back once, to the allocator it came      *)
(* from, with the length it was allocated with.  A program sets, gets and   *)
(* observes one property and reads the result of one command.              *)
(*                                                                         *)
(* The code recurses on trees.  Here a conversion is a function of the      *)
(* number of levels of the tree, defined from the conversion of trees with  *)
(* one level less, so that it can be proved about.                         *)
(***************************************************************************)
EXTENDS Integers, Sequences

CONSTANTS
  Inputs,   \* the nodes a program passes to set_property
  HasNul,   \* the strings with an inner NUL
  MaxLen,   \* i32::MAX, the longest mpv_node_list
  MaxDepth, \* the levels of the deepest node
  Types     \* the types T of get_property::<T>

VARIABLES
  mem,      \* the live blocks
  bad,      \* whether memory was given back wrongly
  pc,       \* where the call in progress is
  op,       \* the call: set, get, ret (command_ret) or event (Property::data)
  ty,       \* its type T
  arg,      \* the node it was passed
  raw,      \* its mpv_node
  prop,     \* the property's value inside mpv
  res       \* its result

vars == <<mem, bad, pc, op, ty, arg, raw, prop, res>>

---------------------------------------------------------------------------
(* Nodes.                                                                  *)

Leaves ==
  [kind : {"None"}] \cup [kind : {"Int"}, val : Int]
    \cup [kind : {"String"}, text : STRING] \cup [kind : {"Bytes"}, bytes : Seq(Int)]

\* The lists of nodes in S; the entries of a map are in the order of its iterator.
Arrays(S) == [kind : {"Array"}, items : Seq(S)]
Maps(S) == {n \in [kind : {"Map"}, entries : Seq([key : STRING, node : S])] :
              \A i, j \in DOMAIN n.entries :
                n.entries[i].key = n.entries[j].key => i = j}

\* The nodes of at most d levels.
Nodes[d \in 0..MaxDepth] ==
  IF d = 0 THEN {} ELSE Leaves \cup Arrays(Nodes[d-1]) \cup Maps(Nodes[d-1])

ASSUME MarshalAssumption ==
  /\ MaxLen \in Nat \ {0}
  /\ MaxDepth \in Nat \ {0}
  /\ Inputs \subseteq Nodes[MaxDepth]
  /\ "Node" \in Types
  /\ Types \subseteq {"String", "Int", "Node", "Array", "Map", "Bytes"}

NoneNode == [kind |-> "None"]
Wild == [kind |-> "Wild"]   \* what following a word that is no pointer to the right block gives
Ok(n) == [tag |-> "Ok", node |-> n]
Err(e) == [tag |-> "Err", err |-> e]

---------------------------------------------------------------------------
(* Memory.  A word is a tag and a place.  The block that holds one part of  *)
(* a node is named by what it is and by the path to that node in the tree   *)
(* of the call, the names standing for the distinct addresses an allocator  *)
(* gives; the key of the i-th entry of a map is at -i.                     *)

Null == <<"null", <<>>>>
Addr(what, p) == <<what, p>>

\* A scalar in the union: zero is a null word.
Scalar(i) == IF i = 0 THEN Null ELSE <<"val", <<i>>>>
IntOf(u) == IF u = Null THEN 0 ELSE u[2][1]

Paths == Seq(Int)
Words == {"null", "val", "cstr", "data", "ba", "list", "values", "keys"} \X Paths
Raw == [format : {"None", "Int", "String", "Bytes", "Array", "Map"}, u : Words]

RawNode(format, u) == [format |-> format, u |-> u]
NoneRaw == RawNode("None", Null)

Block(at, body) == [at |-> at, own |-> "rust", body |-> body]
Held(m, a, what) == a[1] = what /\ \E b \in m : b.at = a
At(m, a) == CHOOSE b \in m : b.at = a
Body(m, a) == At(m, a).body

\* What a drop gives back: the addresses, and whether each is given back once, by
\* the allocator that made it and with the length it was made with.
Part(ats, ok) == [ats |-> ats, ok |-> ok]
Nothing == Part({}, TRUE)
Together(parts) ==
  Part(UNION {parts[i].ats : i \in DOMAIN parts},
       /\ \A i \in DOMAIN parts : parts[i].ok
       /\ \A i, j \in DOMAIN parts : i # j => parts[i].ats \cap parts[j].ats = {})

\* Rust gives back the block at address a as one of the given kind and length.
FreeRust(m, a, what, len) ==
  Part({a}, /\ Held(m, a, what)
            /\ At(m, a).own = "rust"
            /\ Len(Body(m, a)) = len)

\* mpv gives back the contents of a node it filled, the only one in flight.
FreeMpv(r, m) ==
  IF r.format \in {"None", "Int"} THEN Nothing
  ELSE LET theirs == {b.at : b \in {b \in m : b.own = "mpv"}}
       IN Part(theirs, r.u \in theirs)

---------------------------------------------------------------------------
(* Dropping a node made by Rust.  sub drops the nodes one level down.       *)

\* Mutant: the keys are left alone.
DropKeysForgotten(l, m) == Nothing

\* The keys of a list, freed with the length of the list.
DropKeys(l, m) ==
  IF l.keys = Null THEN Nothing
  ELSE Together(<<FreeRust(m, l.keys, "keys", l.num),
                  Together([i \in DOMAIN Body(m, l.keys) |->
                              FreeRust(m, Body(m, l.keys)[i], "cstr", 1)])>>)

\* A sequence of nodes.
DropNodes(raws, sub) == Together([i \in DOMAIN raws |-> sub[raws[i]]])

\* The values of a list, freed with the length of the list, and their contents.
DropValues(l, m, sub) ==
  IF l.values = Null THEN Nothing
  ELSE Together(<<FreeRust(m, l.values, "values", l.num),
                  DropNodes(Body(m, l.values), sub)>>)

DropList(a, m, sub) ==
  LET l == Body(m, a)[1]
  IN Together(<<FreeRust(m, a, "list", 1), DropKeys(l, m), DropValues(l, m, sub)>>)

DropBytes(a, m) ==
  LET ba == Body(m, a)[1]
  IN Together(<<FreeRust(m, a, "ba", 1),
                IF ba.data = Null THEN Nothing ELSE FreeRust(m, ba.data, "data", ba.size)>>)

\* Drop of MpvNodeOwned, by the format of the node.
DropBy(r, m, sub) ==
  CASE r.format = "None" \/ r.format = "Int" \/ r.u = Null -> Nothing
    [] r.format = "String" /\ r.u # Null -> FreeRust(m, r.u, "cstr", 1)
    [] r.format \in {"Array", "Map"} /\ r.u # Null -> DropList(r.u, m, sub)
    [] r.format = "Bytes" /\ r.u # Null -> DropBytes(r.u, m)

Drops(m) ==
  LET drops[d \in 0..MaxDepth] ==
        IF d = 0 THEN [r \in Raw |-> Part({}, FALSE)]
        ELSE [r \in Raw |-> DropBy(r, m, drops[d-1])]
  IN drops

DropNode(r, m) == Drops(m)[MaxDepth][r]

---------------------------------------------------------------------------
(* From a Rust node to a C node.  A panic unwinds: what the iterator has    *)
(* collected into owning values is dropped, what is held by raw pointers    *)
(* only is not.  The node is at path p; sub converts the nodes one level    *)
(* down.                                                                   *)

Built(r, m) == [raw |-> r, mem |-> m, panic |-> FALSE, bad |-> FALSE]
Panicked(m, wrong) == [raw |-> NoneRaw, mem |-> m, panic |-> TRUE, bad |-> wrong]

\* The first entries of a list, as many as an mpv_node_list holds.
Taken(items) ==
  [i \in 1..(IF Len(items) < MaxLen THEN Len(items) ELSE MaxLen) |-> items[i]]

\* The CStrings of the keys in I; an array has no keys.
KeyAt(p, i) == Addr("cstr", Append(p, -i))
KeyBlocks(keys, I, p) == {Block(KeyAt(p, i), <<keys[i]>>) : i \in I \cap DOMAIN keys}

\* A list block with its values and its keys, or nulls for an empty list.
PutList(raws, keys, p) ==
  IF raws = <<>>
  THEN {Block(Addr("list", p), <<[num |-> 0, values |-> Null, keys |-> Null]>>)}
  ELSE {Block(Addr("values", p), raws),
        Block(Addr("list", p),
              <<[num    |-> Len(raws),
                 values |-> Addr("values", p),
                 keys   |-> IF keys = <<>> THEN Null ELSE Addr("keys", p)]>>)}
       \cup (IF keys = <<>> THEN {}
             ELSE {Block(Addr("keys", p), [i \in DOMAIN keys |-> KeyAt(p, i)])}
                    \cup KeyBlocks(keys, DOMAIN keys, p))

\* The panics: a key with a NUL, before its value is converted, or a value.
BadKey(keys, i) == i \in DOMAIN keys /\ keys[i] \in HasNul
Stops(kids, keys) == {i \in DOMAIN kids : BadKey(keys, i) \/ kids[i].panic}
First(I) == CHOOSE i \in I : \A j \in I : i <= j

\* A panic at entry k drops the values before it and leaks the raw keys up to it.
Unwound(kids, keys, k, p) ==
  LET before == UNION {kids[i].mem : i \in 1..(k-1)}
      drop   == Together([i \in 1..(k-1) |-> DropNode(kids[i].raw, before)])
      made   == IF BadKey(keys, k) THEN 1..(k-1) ELSE 1..k
      last   == IF BadKey(keys, k) THEN Panicked({}, FALSE) ELSE kids[k]
  IN Panicked({b \in before : b.at \notin drop.ats} \cup KeyBlocks(keys, made, p) \cup last.mem,
              ~drop.ok \/ last.bad)

FromList(format, kids, keys, p) ==
  IF Stops(kids, keys) # {}
  THEN Unwound(kids, keys, First(Stops(kids, keys)), p)
  ELSE Built(RawNode(format, Addr("list", p)),
             (UNION {kids[i].mem : i \in DOMAIN kids})
               \cup PutList([i \in DOMAIN kids |-> kids[i].raw], keys, p))

\* Mutant: an array of any length.
FromArrayWhole(items, p, sub) ==
  FromList("Array", [i \in DOMAIN items |-> sub[items[i]][Append(p, i)]], <<>>, p)

FromArray(items, p, sub) ==
  FromList("Array", [i \in DOMAIN Taken(items) |-> sub[items[i]][Append(p, i)]], <<>>, p)

\* A key becomes a raw CString pointer before its value is converted.
FromMap(entries, p, sub) ==
  FromList("Map", [i \in DOMAIN Taken(entries) |-> sub[entries[i].node][Append(p, i)]],
           [i \in DOMAIN Taken(entries) |-> entries[i].key], p)

FromBytes(bytes, p) ==
  LET data == IF bytes = <<>> THEN Null ELSE Addr("data", p)
  IN Built(RawNode("Bytes", Addr("ba", p)),
           {Block(Addr("ba", p), <<[data |-> data, size |-> Len(bytes)]>>)}
             \cup (IF bytes = <<>> THEN {} ELSE {Block(data, bytes)}))

FromString(s, p) ==
  IF s \in HasNul THEN Panicked({}, FALSE)
  ELSE Built(RawNode("String", Addr("cstr", p)), {Block(Addr("cstr", p), <<s>>)})

\* MpvNodeOwned::from_node; Int stands for the scalars Int, Double and Bool.
FromBy(n, p, sub) ==
  CASE n.kind = "None"   -> Built(NoneRaw, {})
    [] n.kind = "Int"    -> Built(RawNode("Int", Scalar(n.val)), {})
    [] n.kind = "String" -> FromString(n.text, p)
    [] n.kind = "Bytes"  -> FromBytes(n.bytes, p)
    [] n.kind = "Array"  -> FromArray(n.items, p, sub)
    [] n.kind = "Map"    -> FromMap(n.entries, p, sub)

From[d \in 0..MaxDepth] ==
  IF d = 0 THEN <<>> ELSE [n \in Nodes[d] |-> [p \in Paths |-> FromBy(n, p, From[d-1])]]

FromNode(n) == From[MaxDepth][n][<<>>]

---------------------------------------------------------------------------
(* From a C node to a Rust node.  sub reads the nodes one level down.       *)

\* The values of a list that the reader sees: none when the pointer is null.
Values(l, m, sub) ==
  IF l.num = 0 \/ l.values = Null THEN <<>>
  ELSE [i \in 1..l.num |-> sub[Body(m, l.values)[i]]]

Entries(l, m, sub) ==
  IF l.num = 0 \/ l.values = Null \/ l.keys = Null THEN <<>>
  ELSE [i \in 1..l.num |-> [key  |-> Body(m, Body(m, l.keys)[i])[1],
                            node |-> sub[Body(m, l.values)[i]]]]

\* to_node_array, to_node_map and to_node_byte_array follow the union word
\* without looking at the format of the node.
ToArray(r, m, sub) ==
  IF r.u = Null THEN [kind |-> "Array", items |-> <<>>]
  ELSE IF Held(m, r.u, "list") THEN [kind |-> "Array", items |-> Values(Body(m, r.u)[1], m, sub)]
  ELSE Wild

ToMap(r, m, sub) ==
  IF r.u = Null THEN [kind |-> "Map", entries |-> <<>>]
  ELSE IF Held(m, r.u, "list") THEN [kind |-> "Map", entries |-> Entries(Body(m, r.u)[1], m, sub)]
  ELSE Wild

ToBytes(r, m) ==
  IF r.u = Null THEN [kind |-> "Bytes", bytes |-> <<>>]
  ELSE IF Held(m, r.u, "ba")
  THEN LET ba == Body(m, r.u)[1]
       IN [kind |-> "Bytes", bytes |-> IF ba.data = Null THEN <<>> ELSE Body(m, ba.data)]
  ELSE Wild

ToText(r, m) ==
  IF r.u = Null THEN NoneNode
  ELSE IF Held(m, r.u, "cstr") THEN [kind |-> "String", text |-> Body(m, r.u)[1]]
  ELSE Wild

\* Mutant: a map is read as an array.
ToByMapAsArray(r, m, sub) ==
  CASE r.format = "None"   -> NoneNode
    [] r.format = "Int"    -> [kind |-> "Int", val |-> IntOf(r.u)]
    [] r.format = "String" -> ToText(r, m)
    [] r.format \in {"Array", "Map"} -> ToArray(r, m, sub)
    [] r.format = "Bytes"  -> ToBytes(r, m)

\* MpvNodeRef::to_node, by the format of the node.
ToBy(r, m, sub) ==
  CASE r.format = "None"   -> NoneNode
    [] r.format = "Int"    -> [kind |-> "Int", val |-> IntOf(r.u)]
    [] r.format = "String" -> ToText(r, m)
    [] r.format = "Array"  -> ToArray(r, m, sub)
    [] r.format = "Map"    -> ToMap(r, m, sub)
    [] r.format = "Bytes"  -> ToBytes(r, m)

Reads(m) ==
  LET reads[d \in 0..MaxDepth] ==
        IF d = 0 THEN [r \in Raw |-> Wild] ELSE [r \in Raw |-> ToBy(r, m, reads[d-1])]
  IN reads

ToNode(r, m) == Reads(m)[MaxDepth][r]

\* The format that a type asks mpv for: the three list types ask for a node.
Format(t) == IF t \in {"Array", "Map", "Bytes"} THEN "Node" ELSE t

\* AsFormat::from_mpv and from_ptr: the reader of each type.  A null string, which a
\* node reads as nothing, is an empty text for a String.
ReadAs(t, r, m) ==
  CASE t = "Node"   -> Ok(ToNode(r, m))
    [] t = "Array"  -> Ok(ToArray(r, m, Reads(m)[MaxDepth]))
    [] t = "Map"    -> Ok(ToMap(r, m, Reads(m)[MaxDepth]))
    [] t = "Bytes"  -> Ok(ToBytes(r, m))
    [] t = "String" -> Ok(IF r.u = Null THEN [kind |-> "String", text |-> ""] ELSE ToText(r, m))
    [] t = "Int"    -> Ok([kind |-> "Int", val |-> IntOf(r.u)])

\* Mutant: the node is not looked at.
NarrowUnchecked(t, n) == Ok(n)

\* AsFormat::from_node: the node as a T, or the format it has instead.
Narrow(t, n) == IF t = "Node" \/ n.kind = t THEN Ok(n) ELSE Err("FormatMismatch")

---------------------------------------------------------------------------
(* The calls.                                                              *)

\* The value mpv reads from a node it is passed, by the layout of mpv_node.
ValueBy(r, m, sub) ==
  LET l == Body(m, r.u)[1]
  IN CASE r.format = "None"   -> NoneNode
       [] r.format = "Int"    -> [kind |-> "Int", val |-> IntOf(r.u)]
       [] r.format = "String" -> [kind |-> "String", text |-> l]
       [] r.format = "Bytes"  ->
            [kind |-> "Bytes", bytes |-> IF l.size = 0 THEN <<>> ELSE Body(m, l.data)]
       [] r.format = "Array"  ->
            [kind |-> "Array", items |-> [i \in 1..l.num |-> sub[Body(m, l.values)[i]]]]
       [] r.format = "Map"    ->
            [kind |-> "Map",
             entries |-> [i \in 1..l.num |-> [key  |-> Body(m, Body(m, l.keys)[i])[1],
                                              node |-> sub[Body(m, l.values)[i]]]]]

ValuesOf(m) ==
  LET values[d \in 0..MaxDepth] ==
        IF d = 0 THEN [r \in Raw |-> Wild] ELSE [r \in Raw |-> ValueBy(r, m, values[d-1])]
  IN values

\* mpv lays out the property's value in blocks of its own.
Theirs(b) == [b EXCEPT !.own = "mpv"]
Fill(n) == {Theirs(b) : b \in FromNode(n).mem}

Begin(o, t) == /\ pc = "idle"
               /\ op' = o
               /\ ty' = t

\* set_property::<T>: a String with a NUL is an error, a node with one panics.
Set(t, n) ==
  /\ t = "Node" \/ t = n.kind
  /\ Begin("set", t)
  /\ arg' = n
  /\ IF t = "String" /\ n.text \in HasNul
     THEN res' = Err("Nul") /\ pc' = "drop" /\ UNCHANGED <<mem, bad, raw>>
     ELSE LET b == FromNode(n)
          IN /\ mem' = mem \cup b.mem
             /\ bad' = (bad \/ b.bad)
             /\ raw' = b.raw
             /\ res' = Err("Pending")
             /\ pc' = IF b.panic THEN "panicked" ELSE "set"
  /\ UNCHANGED prop

\* mpv copies the value of the node, or refuses it.
MpvSet ==
  /\ pc = "set"
  /\ \/ prop' = ValuesOf(mem)[MaxDepth][raw] /\ res' = Ok(arg)
     \/ UNCHANGED prop /\ res' = Err("Mpv")
  /\ pc' = "drop"
  /\ UNCHANGED <<mem, bad, op, ty, arg, raw>>

\* get_property::<T>, command_ret::<T> and Property::data::<T> start from an empty node.
Get(o, t) ==
  /\ Begin(o, t)
  /\ pc' = "fill"
  /\ raw' = NoneRaw
  /\ arg' = NoneNode
  /\ res' = Err("Pending")
  /\ UNCHANGED <<mem, bad, prop>>

\* mpv fills the node, or fails and leaves it alone.  Asked for a string or an
\* integer it fails unless the property has one; an event always carries its data.
MpvFill ==
  /\ pc = "fill"
  /\ \/ /\ (op = "get" /\ Format(ty) # "Node") => prop.kind = ty
        /\ mem' = mem \cup Fill(prop)
        /\ raw' = FromNode(prop).raw
        /\ pc' = "read"
        /\ UNCHANGED res
     \/ /\ op # "event"
        /\ res' = Err("Mpv")
        /\ pc' = "drop"
        /\ UNCHANGED <<mem, raw>>
  /\ UNCHANGED <<bad, op, ty, arg, prop>>

\* The result: an event's data only in the format it was observed in (a node).
Read ==
  /\ pc = "read"
  /\ res' = CASE op = "get" -> ReadAs(ty, raw, mem)
              [] op = "ret" -> Narrow(ty, ToNode(raw, mem))
              [] op = "event" -> IF Format(ty) = "Node" THEN ReadAs(ty, raw, mem) ELSE Err("None")
  /\ pc' = "drop"
  /\ UNCHANGED <<mem, bad, op, ty, arg, raw, prop>>

\* Mutant: an event's data is dropped as if Rust had made it.
RustMadeOrObserved == op \in {"set", "event"}

\* Who made the node of the call.
RustMade == op = "set"

\* Drop of the call's node: Rust frees what it made, mpv_free_node_contents (or
\* mpv_free, for a string) frees what mpv made, and the data of an event is
\* freed by mpv at the next wait_event.  The call is over.
Drop ==
  /\ pc = "drop"
  /\ LET drop == IF RustMade THEN DropNode(raw, mem) ELSE FreeMpv(raw, mem)
     IN /\ mem' = {b \in mem : b.at \notin drop.ats}
        /\ bad' = (bad \/ ~drop.ok)
  /\ pc' = "idle" /\ op' = "get" /\ ty' = "Node"
  /\ arg' = NoneNode /\ raw' = NoneRaw /\ res' = Err("Pending")
  /\ UNCHANGED prop

\* The property starts as an integer.
Init ==
  /\ mem = {} /\ bad = FALSE
  /\ pc = "idle" /\ op = "get" /\ ty = "Node"
  /\ arg = NoneNode /\ raw = NoneRaw /\ res = Err("Pending")
  /\ prop = [kind |-> "Int", val |-> 1]

Next ==
  \/ \E t \in Types, n \in Inputs : Set(t, n)
  \/ \E o \in {"get", "ret", "event"}, t \in Types : Get(o, t)
  \/ MpvSet
  \/ MpvFill
  \/ Read
  \/ Drop

Spec == Init /\ [][Next]_vars

---------------------------------------------------------------------------
(* What the conversion promises.                                           *)

\* The variables have their types, and the num of every list Rust makes fits an i32.
TypeOK ==
  /\ pc \in {"idle", "set", "fill", "read", "drop", "panicked"}
  /\ op \in {"set", "get", "ret", "event"}
  /\ ty \in Types
  /\ res.tag \in {"Ok", "Err"}
  /\ raw.format \in {"None", "Int", "String", "Bytes", "Array", "Map"}
  /\ \A b \in mem : b.at[1] = "list" => b.body[1].num \in 0..MaxLen

\* Every block is given back at most once, to the allocator that made it and with
\* the length it was made with: MpvNodeOwned, MpvNodeCloned and MpvNodeRef agree
\* with mpv on who owns what (node.rs 103-104, 291-292, 322-323).
FreedOnce == ~bad

\* No block outlives the call it was made for, whether mpv accepted the call or not.
NothingLeaks == pc = "idle" => mem = {}

\* What mpv keeps of a node: its lists cut at MaxLen entries, at every depth.
CutBy(n, sub) ==
  CASE n.kind \in {"None", "Int", "String", "Bytes"} -> n
    [] n.kind = "Array" ->
         [kind |-> "Array", items |-> [i \in DOMAIN Taken(n.items) |-> sub[n.items[i]]]]
    [] n.kind = "Map" ->
         [kind |-> "Map", entries |-> [i \in DOMAIN Taken(n.entries) |->
            [key |-> n.entries[i].key, node |-> sub[n.entries[i].node]]]]

Cuts[d \in 0..MaxDepth] ==
  IF d = 0 THEN <<>> ELSE [n \in Nodes[d] |-> CutBy(n, Cuts[d-1])]
Cut(n) == Cuts[MaxDepth][n]

\* A node passed to set_property arrives whole, up to the length of a list, and a
\* property read by any call into a type that can hold it is the property's value.
RoundTrip ==
  /\ (pc = "drop" /\ op = "set" /\ res.tag = "Ok") => prop = Cut(arg)
  /\ (pc = "drop" /\ op # "set" /\ ty \in {"Node", prop.kind} /\ res.tag = "Ok")
       => res.node = prop

\* command_ret::<T> gives a T made from a node of that kind or an error, never a T
\* made from another kind (lib.rs 298-302).
RetTyped ==
  (pc = "drop" /\ op = "ret" /\ res.tag = "Ok") => ty \in {"Node", prop.kind}

\* get_property::<T> "returns an mpv error ... if the format doesn't match the
\* internal format" (lib.rs 442-444): what it returns is never made from another kind.
GetTyped ==
  (pc = "drop" /\ op = "get" /\ res.tag = "Ok") => ty \in {"Node", prop.kind}

===========================================================================
