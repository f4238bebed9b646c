--------------------------- MODULE OptionsProofs ---------------------------
(***************************************************************************)
(* Theorems about module Options for any struct, any .conf file and any     *)
(* script-opts: what read_options returns does not depend on the order in   *)
(* which the two hash maps are walked.                                     *)
(***************************************************************************)
EXTENDS Options, SequenceTheorems, TLAPS

Fields == DOMAIN Types
Tokens == STRING \cup {"plugin", "-"}

-----------------------------------------------------------------------------
(* The operators of the model.                                             *)

\* A line does to any map what it does to the empty one.
LEMMA LineAdds ==
  ASSUME NEW text, NEW map
  PROVE  /\ DOMAIN ParseLine(text, map) = DOMAIN map \cup DOMAIN ParseLine(text, Empty)
         /\ \A k \in DOMAIN ParseLine(text, map) :
              ParseLine(text, map)[k] = IF k \in DOMAIN ParseLine(text, Empty)
                                        THEN ParseLine(text, Empty)[k] ELSE map[k]
<1> DEFINE l == TrimStart(text)
           eq == SelectInSeq(l, LAMBDA c : c = "=")
           skip == l = <<>> \/ l[1] = "#" \/ eq = 0
           key == Trim(SubSeq(l, 1, eq - 1))
           v == SubSeq(l, eq + 1, Len(l))
<1>1. /\ ParseLine(text, map) = IF skip THEN map ELSE Inserted(map, key, v)
      /\ ParseLine(text, Empty) = IF skip THEN Empty ELSE Inserted(Empty, key, v)
  BY DEF ParseLine
<1> HIDE DEF skip, key, v
<1>2. DOMAIN Empty = {}
  BY DEF Empty
<1>3. CASE skip
  BY <1>1, <1>2, <1>3
<1>4. CASE ~skip
  <2> DEFINE a == Inserted(map, key, v)
             b == Inserted(Empty, key, v)
  <2>1. ParseLine(text, map) = a /\ ParseLine(text, Empty) = b
    BY <1>1, <1>4
  <2>2. DOMAIN a = DOMAIN map \cup {key} /\ a[key] = v /\ \A k \in DOMAIN map : k # key => a[k] = map[k]
    BY DEF Inserted
  <2>3. DOMAIN b = {key} /\ b[key] = v
    BY <1>2 DEF Inserted
  <2> HIDE DEF a, b
  <2> QED
    BY <2>1, <2>2, <2>3
<1> QED
  BY <1>3, <1>4

\* A key of script-opts is taken for the field k exactly if it is k with the plugin's
\* prefix.
LEMMA PrefixIs ==
  ASSUME NEW o \in Seq(Tokens), NEW k \in Seq(Tokens)
  PROVE  IsPrefix(Prefix, o) /\ SubSeq(o, Len(Prefix) + 1, Len(o)) = k <=> o = Prefix \o k
<1>1. Prefix \in Seq(Tokens) /\ Len(Prefix) = 2
  BY DEF Prefix, Tokens
<1>2. Len(o) \in Nat /\ Len(k) \in Nat
  BY LenProperties
<1>3. SubSeq(Prefix, 1, Len(Prefix)) = Prefix
  BY <1>1, SubSeqFull
<1>4. ASSUME IsPrefix(Prefix, o), SubSeq(o, Len(Prefix) + 1, Len(o)) = k
      PROVE  o = Prefix \o k
  <2>1. 2 <= Len(o) /\ SubSeq(o, 1, 2) = Prefix /\ SubSeq(o, 2 + 1, Len(o)) = k
    BY <1>1, <1>3, <1>4 DEF IsPrefix
  <2>2. 1 \in 1..Len(o) + 1 /\ 2 \in 1 - 1..Len(o) /\ Len(o) \in 2..Len(o)
    BY <1>2, <2>1
  <2>3. SubSeq(o, 1, 2) \o SubSeq(o, 2 + 1, Len(o)) = SubSeq(o, 1, Len(o))
    BY <2>2, ConcatAdjacentSubSeq
  <2>4. SubSeq(o, 1, Len(o)) = o
    BY SubSeqFull
  <2> QED
    BY <2>1, <2>3, <2>4
<1>5. ASSUME o = Prefix \o k
      PROVE  IsPrefix(Prefix, o) /\ SubSeq(o, Len(Prefix) + 1, Len(o)) = k
  <2>1. Len(o) = 2 + Len(k) /\ \A i \in 1..2 + Len(k) : o[i] = IF i <= 2 THEN Prefix[i] ELSE k[i - 2]
    <3>1. /\ Len(Prefix \o k) = Len(Prefix) + Len(k)
          /\ \A i \in 1..Len(Prefix) + Len(k) :
               (Prefix \o k)[i] = IF i <= Len(Prefix) THEN Prefix[i] ELSE k[i - Len(Prefix)]
      BY <1>1, ConcatProperties
    <3> QED
      BY <1>1, <1>5, <3>1
  <2>2. SubSeq(o, 1, 2) = Prefix
    <3>1. SubSeq(Prefix \o k, 1, 2) = SubSeq(Prefix, 1, 2)
      <4>1. 1 \in 1..Len(Prefix) /\ 2 \in 1..Len(Prefix)
        BY <1>1
      <4> QED
        BY <1>1, <4>1, SubSeqOfConcat1
    <3> QED
      BY <1>1, <1>3, <1>5, <3>1
  <2>3. SubSeq(o, 3, Len(o)) = k
    <3> DEFINE r == SubSeq(o, 3, Len(o))
    <3>1. \A i \in 3..Len(o) : o[i] \in Tokens
      <4>1. \A i \in 3..Len(o) : i \in 1..Len(o)
        BY <1>2
      <4> QED
        BY <4>1, ElementOfSeq
    <3>2. /\ r \in Seq(Tokens) /\ Len(r) = IF 3 <= Len(o) THEN Len(o) - 3 + 1 ELSE 0
          /\ \A i \in 1..Len(o) - 3 + 1 : r[i] = o[3 + i - 1]
      BY <1>2, <3>1, SubSeqProperties
    <3> HIDE DEF r
    <3>3. Len(o) - 3 + 1 = Len(k) /\ Len(r) = Len(k)
      BY <1>2, <2>1, <3>2
    <3>4. ASSUME NEW i \in 1..Len(k)
          PROVE  r[i] = k[i]
      <4>1. 3 + i - 1 \in 1..2 + Len(k) /\ ~(3 + i - 1 <= 2) /\ (3 + i - 1) - 2 = i
        BY <1>2
      <4> QED
        BY <2>1, <3>2, <3>3, <4>1
    <3>5. r = k
      BY <3>2, <3>3, <3>4, SeqEqual
    <3> QED
      BY <3>5 DEF r
  <2>4. 2 <= Len(o)
    BY <1>2, <2>1
  <2> QED
    BY <1>1, <1>3, <2>2, <2>3, <2>4 DEF IsPrefix
<1> QED
  BY <1>4, <1>5

\* A text that coerces gives a value of the type.
LEMMA CoerceTyped ==
  ASSUME NEW k \in Fields, NEW v, NEW x \in Coerce(Types[k], v)
  PROVE  Typed(k, x)
<1>1. Types[k] \in {"bool", "u8", "option", "enum", "data"}
  BY OptionsAssumption DEF Fields
<1>2. CASE Types[k] = "bool"
  BY <1>2 DEF Coerce, Typed
<1>3. CASE Types[k] = "u8"
  BY <1>3 DEF Coerce, Typed, InRange
<1>4. CASE Types[k] = "option"
  <2>1. x = <<v>>
    BY <1>4 DEF Coerce
  <2>2. Len(<<v>>) = 1
    OBVIOUS
  <2> QED
    BY <1>4, <2>1, <2>2 DEF Typed
<1>5. CASE Types[k] = "enum"
  BY <1>5 DEF Coerce, Typed, Variants
<1>6. CASE Types[k] = "data"
  BY <1>6 DEF Coerce, Typed
<1> QED
  BY <1>1, <1>2, <1>3, <1>4, <1>5, <1>6

-----------------------------------------------------------------------------
(* Types.                                                                  *)

\* TypeOK, and that the struct keeps its fields.
TypeInv ==
  /\ DOMAIN struct = Fields
  /\ TypeOK

LEMMA TypeStep == TypeInv /\ [Next]_vars => TypeInv'
<1> SUFFICES ASSUME TypeInv, [Next]_vars PROVE TypeInv'
  OBVIOUS
<1>1. ASSUME NEW k, ReadField(k)
      PROVE  TypeInv'
  <2>1. CASE k \notin Fields
    BY <1>1, <2>1 DEF ReadField, TypeInv, TypeOK, Fields
  <2>2. CASE k \in Fields /\ Coerce(Types[k], rawMap[k]) = {}
    <3>1. result' = <<Default>> /\ pc' = "done" /\ struct' = struct
      BY <1>1, <2>2 DEF ReadField, Fields
    <3>2. Len(<<Default>>) = 1 /\ <<Default>>[1] = Default
      OBVIOUS
    <3>3. \A j \in Fields : Typed(j, Default[j])
      BY OptionsAssumption DEF Fields
    <3> QED
      BY <3>1, <3>2, <3>3 DEF TypeInv, TypeOK, Fields
  <2>3. CASE k \in Fields /\ Coerce(Types[k], rawMap[k]) # {}
    <3> DEFINE x == CHOOSE x \in Coerce(Types[k], rawMap[k]) : TRUE
    <3>1. struct' = [struct EXCEPT ![k] = x] /\ pc' = pc /\ pc = "fields"
      BY <1>1, <2>3 DEF ReadField, Fields
    <3>2. x \in Coerce(Types[k], rawMap[k])
      BY <2>3
    <3>3. Typed(k, x)
      BY <2>3, <3>2, CoerceTyped
    <3> HIDE DEF x
    <3>4. DOMAIN struct' = Fields /\ \A j \in Fields : struct'[j] = IF j = k THEN x ELSE struct[j]
      BY <3>1 DEF TypeInv
    <3>5. \A j \in Fields : Typed(j, struct'[j])
      BY <3>3, <3>4 DEF TypeInv, TypeOK, Fields
    <3> QED
      BY <3>1, <3>4, <3>5 DEF TypeInv, TypeOK, Fields
  <2> QED
    BY <2>1, <2>2, <2>3
<1>2. CASE Finish
  <2>1. result' = <<struct>> /\ struct' = struct /\ pc' = "done"
    BY <1>2 DEF Finish
  <2>2. Len(<<struct>>) = 1 /\ <<struct>>[1] = struct
    OBVIOUS
  <2> QED
    BY <2>1, <2>2 DEF TypeInv, TypeOK, Fields
<1>3. ASSUME NEW k, MergeOpt(k)
      PROVE  TypeInv'
  BY <1>3 DEF MergeOpt, TypeInv, TypeOK
<1>4. CASE OpenFile \/ ReadLine \/ GetScriptOpts \/ StartDeserialize
  BY <1>4 DEF OpenFile, ReadLine, GetScriptOpts, StartDeserialize, TypeInv, TypeOK
<1>5. CASE UNCHANGED vars
  BY <1>5 DEF vars, TypeInv, TypeOK
<1> QED
  BY <1>1, <1>2, <1>3, <1>4, <1>5 DEF Next

\* Where read_options starts, for any file and any script-opts.
Start ==
  /\ pc = "file" /\ line = 1 /\ left = {} /\ rawMap = Empty /\ struct = Default /\ result = <<>>

LEMMA StartType == Start => TypeInv
BY OptionsAssumption DEF Start, TypeInv, TypeOK, Fields

\* The struct holds values of the types of its fields whatever the texts are.
THEOREM TypeCorrect == Spec => []TypeOK
<1>1. Init => TypeInv
  BY StartType DEF Init, Start
<1>2. TypeInv => TypeOK
  BY DEF TypeInv
<1> QED
  BY <1>1, <1>2, TypeStep, PTL DEF Spec

-----------------------------------------------------------------------------
(* What the map holds on the way.                                          *)

\* What one line of the file says, what the map has for a field, and what the whole file
\* has for it.
Said(i) == ParseLine(file[i], Empty)
Entry(k) == IF k \in DOMAIN rawMap THEN {rawMap[k]} ELSE {}
FromFile(k) == IF LinesFor(k) # {} THEN {ParseLine(file[LastLine(k)], Empty)[k]} ELSE {}

\* After n lines the map has for a field what the last of them said that names it.
UpTo(k, n) ==
  \/ Entry(k) = {} /\ \A i \in 1..n : k \notin DOMAIN Said(i)
  \/ \E i \in 1..n : /\ k \in DOMAIN Said(i) /\ Entry(k) = {Said(i)[k]}
                     /\ \A j \in 1..n : k \in DOMAIN Said(j) => j <= i

InputsInv ==
  /\ file = NoFile \/ file \in Seq(Seq(STRING))
  /\ \A o \in DOMAIN opts : o \in Seq(STRING)

\* Where the map stands at every point of read_options.
MapInv ==
  /\ pc = "file" => line = 1 /\ rawMap = Empty
  /\ pc \in {"file", "lines", "opts", "merge"} => struct = Default
  /\ pc = "lines" => /\ file # NoFile
                     /\ line \in 1..Len(file) + 1
                     /\ \A k \in Fields : UpTo(k, line - 1)
  /\ pc = "opts" => \A k \in Fields : Entry(k) = FromFile(k)
  /\ pc = "merge" =>
       /\ left \subseteq DOMAIN opts
       /\ \A k \in Fields : Entry(k) = IF Prefix \o k \in Texts \ left
                                      THEN {opts[Prefix \o k]} ELSE FromFile(k)
  /\ pc = "fields" =>
       /\ left \subseteq DOMAIN rawMap
       /\ \A k \in Fields :
            /\ Entry(k) = Given(k)
            /\ k \in DOMAIN rawMap \ left =>
                 /\ Coerce(Types[k], rawMap[k]) # {}
                 /\ struct[k] = CHOOSE x \in Coerce(Types[k], rawMap[k]) : TRUE
            /\ k \notin DOMAIN rawMap \ left => struct[k] = Default[k]
  /\ Resolved

LEMMA SameInputs ==
  ASSUME UNCHANGED <<file, opts>>, NEW k
  PROVE  /\ (FromFile(k))' = FromFile(k)
         /\ (Given(k))' = Given(k)
         /\ (Meant(k))' = Meant(k)
         /\ (Valid(k))' <=> Valid(k)
<1>1. (LinesFor(k))' = LinesFor(k) /\ Texts' = Texts
  BY DEF LinesFor, Texts
<1>2. (LastLine(k))' = LastLine(k)
  BY <1>1 DEF LastLine
<1>3. (FromFile(k))' = FromFile(k)
  BY <1>1, <1>2 DEF FromFile
<1>4. (Given(k))' = Given(k)
  BY <1>1, <1>2 DEF Given
<1>5. (Meant(k))' = Meant(k)
  BY <1>4 DEF Meant
<1>6. (Valid(k))' <=> Valid(k)
  BY <1>4, <1>5 DEF Valid
<1> QED
  BY <1>3, <1>4, <1>5, <1>6

LEMMA MeantIs ==
  ASSUME NEW k
  PROVE  /\ Given(k) = {} => Meant(k) = {}
         /\ \A v : Given(k) = {v} => Meant(k) = Coerce(Types[k], v)
BY DEF Meant

\* After the last line the map has what the file says.
LEMMA WholeFile ==
  ASSUME InputsInv, file # NoFile, NEW k, UpTo(k, Len(file))
  PROVE  Entry(k) = FromFile(k)
<1>1. file \in Seq(Seq(STRING)) /\ Len(file) \in Nat /\ DOMAIN file = 1..Len(file)
  BY LenProperties DEF InputsInv
<1>2. LinesFor(k) = {i \in 1..Len(file) : k \in DOMAIN Said(i)}
  BY <1>1 DEF LinesFor, Said
<1>3. CASE Entry(k) = {} /\ \A i \in 1..Len(file) : k \notin DOMAIN Said(i)
  BY <1>2, <1>3 DEF FromFile
<1>4. ASSUME NEW i \in 1..Len(file), k \in DOMAIN Said(i), Entry(k) = {Said(i)[k]},
             \A j \in 1..Len(file) : k \in DOMAIN Said(j) => j <= i
      PROVE  Entry(k) = FromFile(k)
  <2>1. i \in LinesFor(k) /\ \A m \in LinesFor(k) : m <= i
    BY <1>2, <1>4
  <2>2. LastLine(k) \in LinesFor(k) /\ \A m \in LinesFor(k) : m <= LastLine(k)
    BY <2>1 DEF LastLine
  <2>3. LastLine(k) <= i /\ i <= LastLine(k) /\ LastLine(k) \in 1..Len(file)
    BY <1>2, <2>1, <2>2
  <2>4. LastLine(k) = i
    BY <1>1, <2>3
  <2> QED
    BY <1>4, <2>1, <2>4 DEF FromFile, Said
<1> QED
  BY <1>3, <1>4 DEF UpTo

LEMMA OpenFileStep == InputsInv /\ MapInv /\ OpenFile => MapInv'
<1> SUFFICES ASSUME InputsInv, MapInv, OpenFile PROVE MapInv'
  OBVIOUS
<1>1. /\ pc = "file" /\ line = 1 /\ rawMap = Empty /\ struct = Default
      /\ pc' \in {"opts", "lines"} /\ (pc' = "opts" <=> file = NoFile)
      /\ UNCHANGED <<file, opts, line, left, rawMap, struct, result>>
  BY DEF OpenFile, MapInv
<1>2. ASSUME NEW k \in Fields
      PROVE  (Entry(k))' = {}
  BY <1>1 DEF Entry, Empty
<1>3. ASSUME pc' = "lines"
      PROVE  line' \in 1..Len(file') + 1 /\ \A k \in Fields : (UpTo(k, line - 1))'
  <2>1. file \in Seq(Seq(STRING))
    BY <1>1, <1>3 DEF InputsInv
  <2>2. Len(file) \in Nat
    BY <2>1, LenProperties
  <2>3. 1 \in 1..Len(file) + 1 /\ 1..1 - 1 = {}
    BY <2>2
  <2>4. ASSUME NEW k \in Fields
        PROVE  (UpTo(k, line - 1))'
    BY <1>1, <1>2, <2>3 DEF UpTo
  <2> QED
    BY <1>1, <2>3, <2>4
<1>4. ASSUME pc' = "opts"
      PROVE  \A k \in Fields : (Entry(k))' = (FromFile(k))'
  BY <1>1, <1>2, <1>4 DEF FromFile, LinesFor
<1>5. Resolved'
  BY <1>1 DEF Resolved
<1> QED
  BY <1>1, <1>3, <1>4, <1>5 DEF MapInv

LEMMA ReadLineStep == InputsInv /\ MapInv /\ ReadLine => MapInv'
<1> SUFFICES ASSUME InputsInv, MapInv, ReadLine PROVE MapInv'
  OBVIOUS
<1>1. /\ pc = "lines" /\ file # NoFile /\ line \in 1..Len(file) + 1 /\ struct = Default
      /\ \A k \in Fields : UpTo(k, line - 1)
      /\ UNCHANGED <<file, opts, left, struct, result>>
  BY DEF ReadLine, MapInv
<1>2. Len(file) \in Nat
  BY <1>1, LenProperties DEF InputsInv
<1>3. CASE line <= Len(file)
  <2>1. pc' = "lines" /\ rawMap' = ParseLine(file[line], rawMap) /\ line' = line + 1
    BY <1>1, <1>3 DEF ReadLine
  <2>2. /\ line' \in 1..Len(file) + 1 /\ line' - 1 = line /\ line \in 1..line /\ 1..line - 1 \subseteq 1..line
        /\ \A j \in 1..line : j <= line /\ (j \in 1..line - 1 \/ j = line)
    BY <1>1, <1>2, <1>3, <2>1
  <2>3. \A i : (Said(i))' = Said(i)
    BY <1>1 DEF Said
  <2>0. /\ DOMAIN rawMap' = DOMAIN rawMap \cup DOMAIN Said(line)
        /\ \A x \in DOMAIN rawMap' :
             rawMap'[x] = IF x \in DOMAIN Said(line) THEN Said(line)[x] ELSE rawMap[x]
    <3> DEFINE map == ParseLine(file[line], rawMap)
    <3>1. /\ DOMAIN map = DOMAIN rawMap \cup DOMAIN ParseLine(file[line], Empty)
          /\ \A x \in DOMAIN map :
               map[x] = IF x \in DOMAIN ParseLine(file[line], Empty)
                        THEN ParseLine(file[line], Empty)[x] ELSE rawMap[x]
      BY LineAdds
    <3> HIDE DEF map
    <3>2. rawMap' = map
      BY <2>1 DEF map
    <3> QED
      BY <3>1, <3>2 DEF Said
  <2>4. ASSUME NEW k \in Fields
        PROVE  (UpTo(k, line - 1))'
    <3>1. CASE k \in DOMAIN Said(line)
      <4>1. (Entry(k))' = {Said(line)[k]}
        BY <2>0, <3>1 DEF Entry
      <4> QED
        BY <1>1, <2>2, <2>3, <3>1, <4>1 DEF UpTo
    <3>2. CASE k \notin DOMAIN Said(line)
      <4>1. (Entry(k))' = Entry(k)
        BY <2>0, <3>2 DEF Entry
      <4>2. UpTo(k, line - 1)
        BY <1>1
      <4> QED
        BY <1>1, <2>2, <2>3, <3>2, <4>1, <4>2 DEF UpTo
    <3> QED
      BY <3>1, <3>2
  <2>5. Resolved'
    BY <2>1 DEF Resolved
  <2> QED
    BY <1>1, <2>1, <2>2, <2>4, <2>5 DEF MapInv
<1>4. CASE ~(line <= Len(file))
  <2>1. pc' = "opts" /\ UNCHANGED <<line, rawMap>>
    BY <1>1, <1>4 DEF ReadLine
  <2>2. line - 1 = Len(file)
    BY <1>1, <1>2, <1>4
  <2>3. ASSUME NEW k \in Fields
        PROVE  (Entry(k))' = (FromFile(k))'
    <3>1. Entry(k) = FromFile(k)
      BY <1>1, <2>2, WholeFile
    <3>2. (FromFile(k))' = FromFile(k)
      BY <1>1, SameInputs
    <3> QED
      BY <2>1, <3>1, <3>2 DEF Entry
  <2>4. Resolved'
    BY <2>1 DEF Resolved
  <2> QED
    BY <1>1, <2>1, <2>3, <2>4 DEF MapInv
<1> QED
  BY <1>3, <1>4

LEMMA GetScriptOptsStep == MapInv /\ GetScriptOpts => MapInv'
<1> SUFFICES ASSUME MapInv, GetScriptOpts PROVE MapInv'
  OBVIOUS
<1>1. /\ pc = "opts" /\ pc' = "merge" /\ left' = DOMAIN opts /\ struct = Default
      /\ \A k \in Fields : Entry(k) = FromFile(k)
      /\ UNCHANGED <<file, opts, line, rawMap, struct, result>>
  BY DEF GetScriptOpts, MapInv
<1>2. ASSUME NEW k \in Fields
      PROVE  (Entry(k))' = (FromFile(k))'
  <2>1. (FromFile(k))' = FromFile(k)
    BY <1>1, SameInputs
  <2> QED
    BY <1>1, <2>1 DEF Entry
<1>3. Resolved'
  BY <1>1 DEF Resolved
<1> QED
  BY <1>1, <1>2, <1>3 DEF MapInv, Texts

LEMMA MergeOptStep ==
  ASSUME InputsInv, MapInv, NEW o, MergeOpt(o)
  PROVE  MapInv'
<1>1. /\ pc = "merge" /\ pc' = "merge" /\ o \in left /\ left' = left \ {o} /\ struct = Default
      /\ left \subseteq DOMAIN opts
      /\ UNCHANGED <<file, opts, line, struct, result>>
  BY DEF MergeOpt, MapInv
<1>2. o \in DOMAIN opts /\ o \in Seq(Tokens)
  <2>1. o \in Seq(STRING) /\ STRING \subseteq Tokens
    BY <1>1 DEF InputsInv, Tokens
  <2> QED
    BY <1>1, <2>1, SeqMonotonic
<1> DEFINE key == SubSeq(o, Len(Prefix) + 1, Len(o))
<1>3. rawMap' = IF IsPrefix(Prefix, o) /\ o \in Texts THEN Inserted(rawMap, key, opts[o]) ELSE rawMap
  BY DEF MergeOpt, Merge
<1>4. ASSUME NEW k \in Fields
      PROVE  (Entry(k))' = IF Prefix \o k \in Texts' \ left'
                           THEN {opts'[Prefix \o k]} ELSE (FromFile(k))'
  <2>1. Entry(k) = IF Prefix \o k \in Texts \ left THEN {opts[Prefix \o k]} ELSE FromFile(k)
    BY <1>1 DEF MapInv
  <2>2. (FromFile(k))' = FromFile(k) /\ Texts' = Texts
    BY <1>1, SameInputs DEF Texts
  <2>3. k \in Seq(Tokens)
    <3>1. k \in Seq(STRING) /\ STRING \subseteq Tokens
      BY OptionsAssumption DEF Fields, Tokens
    <3> QED
      BY <3>1, SeqMonotonic
  <2>4. IsPrefix(Prefix, o) /\ key = k <=> o = Prefix \o k
    BY <1>2, <2>3, PrefixIs
  <2> HIDE DEF key
  <2> DEFINE p == Prefix \o k
  <2> HIDE DEF p
  <2>5. CASE o = Prefix \o k /\ o \in Texts
    <3>1. rawMap' = Inserted(rawMap, k, opts[o])
      BY <1>3, <2>4, <2>5
    <3>2. (Entry(k))' = {opts[o]}
      BY <3>1 DEF Entry, Inserted
    <3> QED
      BY <1>1, <2>2, <2>5, <3>2
  <2>6. CASE ~(o = Prefix \o k /\ o \in Texts)
    <3>1. (Entry(k))' = Entry(k)
      <4>1. CASE IsPrefix(Prefix, o) /\ o \in Texts
        <5>1. key # k /\ rawMap' = Inserted(rawMap, key, opts[o])
          BY <1>3, <2>4, <2>6, <4>1
        <5> QED
          BY <5>1 DEF Entry, Inserted
      <4>2. CASE ~(IsPrefix(Prefix, o) /\ o \in Texts)
        BY <1>3, <4>2 DEF Entry
      <4> QED
        BY <4>1, <4>2
    <3>2. p \in Texts' \ left' <=> p \in Texts \ left
      BY <1>1, <2>2, <2>6 DEF p
    <3> QED
      BY <1>1, <2>1, <2>2, <3>1, <3>2 DEF p
  <2> QED
    BY <2>5, <2>6
<1>5. Resolved'
  BY <1>1 DEF Resolved
<1> QED
  BY <1>1, <1>4, <1>5 DEF MapInv

LEMMA StartDeserializeStep == MapInv /\ StartDeserialize => MapInv'
<1> SUFFICES ASSUME MapInv, StartDeserialize PROVE MapInv'
  OBVIOUS
<1>1. /\ pc = "merge" /\ pc' = "fields" /\ left = {} /\ left' = DOMAIN rawMap /\ struct = Default
      /\ UNCHANGED <<file, opts, line, rawMap, struct, result>>
  BY DEF StartDeserialize, MapInv
<1>2. ASSUME NEW k \in Fields
      PROVE  (Entry(k))' = (Given(k))'
  <2>1. Entry(k) = IF Prefix \o k \in Texts \ left THEN {opts[Prefix \o k]} ELSE FromFile(k)
    BY <1>1 DEF MapInv
  <2>2. Entry(k) = Given(k)
    BY <1>1, <2>1 DEF FromFile, Given
  <2>3. (Given(k))' = Given(k)
    BY <1>1, SameInputs
  <2> QED
    BY <1>1, <2>2, <2>3 DEF Entry
<1>3. Resolved'
  BY <1>1 DEF Resolved
<1> QED
  BY <1>1, <1>2, <1>3 DEF MapInv

\* One field that does not coerce is not valid, however far the others are.
LEMMA ReadFieldStep ==
  ASSUME TypeInv, MapInv, NEW k, ReadField(k)
  PROVE  MapInv'
<1>1. /\ pc = "fields" /\ k \in left /\ left' = left \ {k} /\ left \subseteq DOMAIN rawMap
      /\ UNCHANGED <<file, opts, line, rawMap>>
  BY DEF ReadField, MapInv
<1>2. \A j \in Fields : /\ Entry(j) = Given(j) /\ (Entry(j))' = Entry(j) /\ (Given(j))' = Given(j)
                        /\ (Meant(j))' = Meant(j) /\ ((Valid(j))' <=> Valid(j))
  <2>1. ASSUME NEW j \in Fields
        PROVE  /\ Entry(j) = Given(j) /\ (Entry(j))' = Entry(j) /\ (Given(j))' = Given(j)
               /\ (Meant(j))' = Meant(j) /\ ((Valid(j))' <=> Valid(j))
    BY <1>1, SameInputs DEF MapInv, Entry
  <2> QED
    BY <2>1
<1>3. CASE k \notin Fields
  <2>1. UNCHANGED <<pc, struct, result>>
    BY <1>3 DEF ReadField, Fields
  <2>2. Resolved'
    BY <1>1, <2>1 DEF Resolved
  <2> QED
    BY <1>1, <1>2, <1>3, <2>1, <2>2 DEF MapInv
<1>4. CASE k \in Fields /\ Coerce(Types[k], rawMap[k]) = {}
  <2>1. result' = <<Default>> /\ pc' = "done" /\ struct' = struct
    BY <1>4 DEF ReadField, Fields
  <2>2. Entry(k) = {rawMap[k]}
    BY <1>1 DEF Entry
  <2>3. Given(k) = {rawMap[k]} /\ Meant(k) = {}
    BY <1>2, <1>4, <2>2, MeantIs
  <2>4. ~(Valid(k))'
    BY <1>2, <1>4, <2>3 DEF Valid
  <2>5. Resolved'
    BY <1>4, <2>1, <2>4 DEF Resolved, Fields
  <2> QED
    BY <2>1, <2>5 DEF MapInv
<1>5. CASE k \in Fields /\ Coerce(Types[k], rawMap[k]) # {}
  <2> DEFINE x == CHOOSE x \in Coerce(Types[k], rawMap[k]) : TRUE
  <2>1. struct' = [struct EXCEPT ![k] = x] /\ UNCHANGED <<pc, result>>
    BY <1>5 DEF ReadField, Fields
  <2>2. \A j \in Fields : struct'[j] = IF j = k THEN x ELSE struct[j]
    BY <2>1 DEF TypeInv
  <2>3. ASSUME NEW j \in Fields
        PROVE  /\ j \in DOMAIN rawMap' \ left' =>
                    /\ Coerce(Types[j], rawMap'[j]) # {}
                    /\ struct'[j] = CHOOSE y \in Coerce(Types[j], rawMap'[j]) : TRUE
               /\ j \notin DOMAIN rawMap' \ left' => struct'[j] = Default[j]
    <3>1. CASE j = k
      BY <1>1, <1>5, <2>2, <3>1
    <3>2. CASE j # k
      <4>1. struct'[j] = struct[j] /\ (j \in DOMAIN rawMap' \ left' <=> j \in DOMAIN rawMap \ left)
        BY <1>1, <2>2, <3>2
      <4> QED
        BY <1>1, <4>1 DEF MapInv
    <3> QED
      BY <3>1, <3>2
  <2>4. Resolved'
    BY <1>1, <2>1 DEF Resolved
  <2> QED
    BY <1>1, <1>2, <2>1, <2>3, <2>4 DEF MapInv
<1> QED
  BY <1>3, <1>4, <1>5

LEMMA FinishStep == MapInv /\ Finish => MapInv'
<1> SUFFICES ASSUME MapInv, Finish PROVE MapInv'
  OBVIOUS
<1>1. /\ pc = "fields" /\ left = {} /\ result' = <<struct>> /\ pc' = "done"
      /\ UNCHANGED <<file, opts, line, left, rawMap, struct>>
  BY DEF Finish
<1>2. ASSUME NEW k \in Fields
      PROVE  /\ Valid(k)
             /\ struct[k] = IF Meant(k) # {} THEN CHOOSE x \in Meant(k) : TRUE ELSE Default[k]
  <2>1. /\ Entry(k) = Given(k)
        /\ k \in DOMAIN rawMap => /\ Coerce(Types[k], rawMap[k]) # {}
                                  /\ struct[k] = CHOOSE x \in Coerce(Types[k], rawMap[k]) : TRUE
        /\ k \notin DOMAIN rawMap => struct[k] = Default[k]
    BY <1>1 DEF MapInv
  <2>2. CASE k \in DOMAIN rawMap
    <3>1. Given(k) = {rawMap[k]}
      BY <2>1, <2>2 DEF Entry
    <3>2. Meant(k) = Coerce(Types[k], rawMap[k])
      BY <3>1, MeantIs
    <3> QED
      BY <2>1, <2>2, <3>2 DEF Valid
  <2>3. CASE k \notin DOMAIN rawMap
    <3>1. Given(k) = {} /\ Meant(k) = {}
      BY <2>1, <2>3, MeantIs DEF Entry
    <3> QED
      BY <2>1, <2>3, <3>1 DEF Valid
  <2> QED
    BY <2>2, <2>3
<1>3. \A k \in Fields : (Meant(k))' = Meant(k) /\ ((Valid(k))' <=> Valid(k))
  <2>1. ASSUME NEW k \in Fields
        PROVE  (Meant(k))' = Meant(k) /\ ((Valid(k))' <=> Valid(k))
    BY <1>1, SameInputs
  <2> QED
    BY <2>1
<1>4. <<struct>>[1] = struct
  OBVIOUS
<1>5. Resolved'
  BY <1>1, <1>2, <1>3, <1>4 DEF Resolved, Fields
<1> QED
  BY <1>1, <1>5 DEF MapInv

LEMMA MapStep == InputsInv /\ TypeInv /\ MapInv /\ [Next]_vars => InputsInv' /\ MapInv'
<1> SUFFICES ASSUME InputsInv, TypeInv, MapInv, [Next]_vars PROVE InputsInv' /\ MapInv'
  OBVIOUS
<1>1. CASE UNCHANGED vars
  <2>1. \A k \in Fields : /\ (Entry(k))' = Entry(k) /\ (FromFile(k))' = FromFile(k)
                          /\ (Given(k))' = Given(k)
    <3>1. ASSUME NEW k \in Fields
          PROVE  /\ (Entry(k))' = Entry(k) /\ (FromFile(k))' = FromFile(k)
                 /\ (Given(k))' = Given(k)
      BY <1>1, SameInputs DEF vars, Entry
    <3> QED
      BY <3>1
  <2>2. \A k \in Fields : UpTo(k, line - 1) => (UpTo(k, line - 1))'
    <3>1. \A i : (Said(i))' = Said(i)
      BY <1>1 DEF vars, Said
    <3> QED
      BY <1>1, <2>1, <3>1 DEF vars, UpTo
  <2>3. Resolved'
    <3>1. \A k \in Fields : (Meant(k))' = Meant(k) /\ ((Valid(k))' <=> Valid(k))
      <4>1. ASSUME NEW k \in Fields
            PROVE  (Meant(k))' = Meant(k) /\ ((Valid(k))' <=> Valid(k))
        BY <1>1, SameInputs DEF vars
      <4> QED
        BY <4>1
    <3> QED
      BY <1>1, <3>1 DEF MapInv, Resolved, vars, Fields
  <2> QED
    BY <1>1, <2>1, <2>2, <2>3 DEF vars, MapInv, InputsInv, Texts
<1>2. ASSUME Next
      PROVE  MapInv'
  BY <1>2, OpenFileStep, ReadLineStep, GetScriptOptsStep, MergeOptStep, StartDeserializeStep,
     ReadFieldStep, FinishStep DEF Next
<1>3. ASSUME Next
      PROVE  InputsInv'
  BY <1>3 DEF Next, OpenFile, ReadLine, GetScriptOpts, MergeOpt, StartDeserialize, ReadField, Finish, InputsInv
<1> QED
  BY <1>1, <1>2, <1>3

LEMMA StartMap == Start => MapInv
BY DEF Start, MapInv, Resolved

\* In whatever order the hash maps are walked, every field gets the text of the command
\* line, else that of the file's last line for it, or one bad text gives the defaults
\* (lib.rs 923-954).
THEOREM OrderDoesNotMatter == Spec => []Resolved
<1>1. Init => InputsInv /\ TypeInv /\ MapInv
  BY OptionsAssumption, StartType, StartMap DEF Init, Start, InputsInv
<1>2. MapInv => Resolved
  BY DEF MapInv
<1> QED
  BY <1>1, <1>2, TypeStep, MapStep, PTL DEF Spec

=============================================================================
