------------------------------ MODULE Options ------------------------------
(***************************************************************************)
(* Handle::read_options (lib.rs) and the coercion of strings (options.rs):  *)
(* the lines of the plugin's .conf file, overridden by the plugin's part of *)
(* mpv's script-opts, are gathered in a hash map that is read back in any   *)
(* order into a struct with #[serde(default)] fields.  Text is a sequence   *)
(* of tokens; "_" is a blank.                                              *)
(***************************************************************************)
EXTENDS Integers, SequencesExt

CONSTANTS
  Types,       \* the struct: a function from field names to types
  Default,     \* T::default(), a function from field names to values
  Files,       \* the .conf files, sequences of lines; NoFile when it cannot be read
  ScriptOpts,  \* values of the script-opts property, functions from keys to text or NoText
  NoFile,
  NoText       \* a value that is no Node::String

VARIABLES
  file,     \* the .conf file
  opts,     \* the script-opts property
  pc,       \* where read_options is
  line,     \* the next line of the file
  left,     \* the keys of the hash map being walked that were not visited yet
  rawMap,   \* raw_map
  struct,   \* the fields deserialized so far
  result    \* what read_options returned, or none yet

vars == <<file, opts, pc, line, left, rawMap, struct, result>>

\* The variants of the enum without data, by their names in the file.
Variants == {"default", "compact", "expanded"}

\* v is a value of the type of field k.
Typed(k, v) ==
  CASE Types[k] = "bool"   -> v \in BOOLEAN
    [] Types[k] = "u8"     -> v \in 0..255
    [] Types[k] = "option" -> Len(v) <= 1
    [] Types[k] = "enum"   -> v \in Variants
    [] Types[k] = "data"   -> v = "unset"

\* A struct with a default of its type for every field; texts are sequences of tokens.
ASSUME OptionsAssumption ==
  /\ DOMAIN Default = DOMAIN Types
  /\ \A k \in DOMAIN Types :
       /\ k \in Seq(STRING)
       /\ Types[k] \in {"bool", "u8", "option", "enum", "data"}
       /\ Typed(k, Default[k])
  /\ \A f \in Files : f = NoFile \/ f \in Seq(Seq(STRING))
  /\ \A o \in ScriptOpts : \A k \in DOMAIN o : k \in Seq(STRING)

Empty == [k \in {} |-> <<>>]
Prefix == <<"plugin", "-">>

\* HashMap::insert replaces the value of a key that is there.
Inserted(map, key, v) == [k \in DOMAIN map \cup {key} |-> IF k = key THEN v ELSE map[k]]

---------------------------------------------------------------------------
(* Text.                                                                   *)

\* The text without its leading blanks, and without those at both ends.
TrimStart(s) ==
  LET k == SelectInSeq(s, LAMBDA c : c # "_") IN IF k = 0 THEN <<>> ELSE SubSeq(s, k, Len(s))
Trim(s) == Reverse(TrimStart(Reverse(TrimStart(s))))

\* The map with the key and value of a line, if it is neither blank, nor a comment,
\* nor without an "=".  The key is trimmed, the value is not.
ParseLine(text, map) ==
  LET l  == TrimStart(text)
      eq == SelectInSeq(l, LAMBDA c : c = "=")
  IN IF l = <<>> \/ l[1] = "#" \/ eq = 0 THEN map
     ELSE Inserted(map, Trim(SubSeq(l, 1, eq - 1)), SubSeq(l, eq + 1, Len(l)))

Digits == ("0" :> 0) @@ ("5" :> 5) @@ ("300" :> 300)
Number(v) == IF Len(v) = 1 /\ v[1] \in DOMAIN Digits THEN {Digits[v[1]]} ELSE {}

\* Mutant: a wider integer type.
InRangeWide(n) == n \in 0..65535

\* parse::<u8> refuses what does not fit.
InRange(n) == n \in 0..255

\* What a text is as a value of a type: one value, or none for an error.  Words in
\* any case stand for a boolean, a string is anything, an enum is a variant's name
\* unless its variants hold data.
Coerce(type, v) ==
  CASE type = "bool"   -> IF v \in {<<"yes">>, <<"YES">>, <<"true">>} THEN {TRUE}
                          ELSE IF v \in {<<"no">>, <<"false">>} THEN {FALSE} ELSE {}
    [] type = "u8"     -> {n \in Number(v) : InRange(n)}
    [] type = "option" -> {<<v>>}
    [] type = "enum"   -> {s \in Variants : v = <<s>>}
    [] type = "data"   -> {}

---------------------------------------------------------------------------
(* read_options.                                                           *)

\* The .conf file, if it exists and is text.
OpenFile ==
  /\ pc = "file"
  /\ IF file = NoFile THEN pc' = "opts" ELSE pc' = "lines"
  /\ UNCHANGED <<file, opts, line, left, rawMap, struct, result>>

ReadLine ==
  /\ pc = "lines"
  /\ IF line <= Len(file)
     THEN /\ rawMap' = ParseLine(file[line], rawMap)
          /\ line' = line + 1
          /\ UNCHANGED pc
     ELSE pc' = "opts" /\ UNCHANGED <<line, rawMap>>
  /\ UNCHANGED <<file, opts, left, struct, result>>

GetScriptOpts ==
  /\ pc = "opts"
  /\ left' = DOMAIN opts
  /\ pc' = "merge"
  /\ UNCHANGED <<file, opts, line, rawMap, struct, result>>

\* Mutant: the file wins.
MergeUnder(map, key, v) == IF key \in DOMAIN map THEN map ELSE Inserted(map, key, v)

\* An option of the command line replaces the file's.
Merge(map, key, v) == Inserted(map, key, v)

\* The options that are texts; any other is passed over.
Texts == {k \in DOMAIN opts : opts[k] # NoText}

MergeOpt(k) ==
  /\ pc = "merge"
  /\ k \in left
  /\ left' = left \ {k}
  /\ rawMap' = IF IsPrefix(Prefix, k) /\ k \in Texts
               THEN Merge(rawMap, SubSeq(k, Len(Prefix) + 1, Len(k)), opts[k])
               ELSE rawMap
  /\ UNCHANGED <<file, opts, pc, line, struct, result>>

StartDeserialize ==
  /\ pc = "merge" /\ left = {}
  /\ left' = DOMAIN rawMap
  /\ pc' = "fields"
  /\ UNCHANGED <<file, opts, line, rawMap, struct, result>>

\* A field that does not coerce ends the deserialization, and unwrap_or_default
\* returns the default struct; a key that is no field is ignored.
ReadField(k) ==
  /\ pc = "fields"
  /\ k \in left
  /\ left' = left \ {k}
  /\ IF k \notin DOMAIN Types THEN UNCHANGED <<pc, struct, result>>
     ELSE LET v == Coerce(Types[k], rawMap[k])
          IN IF v = {}
             THEN result' = <<Default>> /\ pc' = "done" /\ UNCHANGED struct
             ELSE /\ struct' = [struct EXCEPT ![k] = CHOOSE x \in v : TRUE]
                  /\ UNCHANGED <<pc, result>>
  /\ UNCHANGED <<file, opts, line, rawMap>>

\* A field that is not there keeps its default.
Finish ==
  /\ pc = "fields" /\ left = {}
  /\ result' = <<struct>>
  /\ pc' = "done"
  /\ UNCHANGED <<file, opts, line, left, rawMap, struct>>

Init ==
  /\ file \in Files
  /\ opts \in ScriptOpts
  /\ pc = "file"
  /\ line = 1
  /\ left = {}
  /\ rawMap = Empty
  /\ struct = Default
  /\ result = <<>>

Next ==
  \/ OpenFile
  \/ ReadLine
  \/ GetScriptOpts
  \/ \E k \in left : MergeOpt(k) \/ ReadField(k)
  \/ StartDeserialize
  \/ Finish

Spec == Init /\ [][Next]_vars

---------------------------------------------------------------------------
(* What read_options promises.                                             *)

\* The struct only ever holds values of the types of its fields.
TypeOK ==
  /\ pc \in {"file", "lines", "opts", "merge", "fields", "done"}
  /\ \A k \in DOMAIN Types : Typed(k, struct[k])
  /\ pc = "done" => Len(result) = 1 /\ \A k \in DOMAIN Types : Typed(k, result[1][k])

\* The text a field is given: the command line's, else that of the file's last line
\* for it, else none.
LinesFor(k) ==
  IF file = NoFile THEN {}
  ELSE {n \in DOMAIN file : k \in DOMAIN ParseLine(file[n], Empty)}
LastLine(k) == CHOOSE n \in LinesFor(k) : \A m \in LinesFor(k) : m <= n
Given(k) ==
  IF Prefix \o k \in Texts THEN {opts[Prefix \o k]}
  ELSE IF LinesFor(k) # {} THEN {ParseLine(file[LastLine(k)], Empty)[k]} ELSE {}
Meant(k) == UNION {Coerce(Types[k], v) : v \in Given(k)}
Valid(k) == Given(k) = {} \/ Meant(k) # {}

\* In whatever order the hash maps are walked, the options of the command line are
\* "merged" (README.md 13) over the file's, or one bad value gives the defaults.
Resolved == pc = "done" => \A k \in DOMAIN Types :
  result[1][k] = IF (\A f \in DOMAIN Types : Valid(f)) /\ Meant(k) # {}
                 THEN CHOOSE x \in Meant(k) : TRUE ELSE Default[k]

===========================================================================
