---------------------------- MODULE PluginProofs ----------------------------
(***************************************************************************)
(* Theorems about module Plugin for any targets, any header of libmpv and   *)
(* any mpv that offers a part of it, with the theorems of OptionsProofs     *)
(* about the options that the plugin reads.                                *)
(***************************************************************************)
EXTENDS Plugin, OptionsProofs

-----------------------------------------------------------------------------
(* The bindings.                                                           *)

\* Whether they are generated or taken from the repository, the bindings declare every
\* function of the header once: as pointers on the targets without global symbols, as
\* symbols elsewhere.
LEMMA BindingsAre ==
  ASSUME NEW target, NEW bindgen
  PROVE  Bindings(target, bindgen) = IF DynSym(target) THEN [symbols |-> {}, pointers |-> Functions]
                                     ELSE [symbols |-> Functions, pointers |-> {}]
<1> DEFINE cs == {[abi |-> "C", fn |-> f, variadic |-> FALSE] : f \in Functions}
           other == [abi |-> "none", fn |-> "mpv_error", variadic |-> FALSE]
           moved == {i \in Header : i.abi = "C" /\ ~i.variadic}
<1>1. Header = cs \cup {other}
  BY DEF Header
<1>2. moved = cs /\ Header \ moved = {other}
  BY <1>1
<1>3. {i.fn : i \in cs} = Functions
  <2>1. \A f \in Functions : [abi |-> "C", fn |-> f, variadic |-> FALSE].fn = f
    OBVIOUS
  <2> QED
    BY <2>1
<1>4. {j \in Header : j.abi # "none"} = cs
  BY <1>1
<1>5. Declared(Header) = Functions
  BY <1>3, <1>4 DEF Declared
<1>6. {j \in {other} : j.abi # "none"} = {}
  OBVIOUS
<1>7. Declared(Header \ moved) = {}
  BY <1>2, <1>6 DEF Declared
<1>8. Rewritten(Header) = [symbols |-> {}, pointers |-> Functions]
  BY <1>2, <1>3, <1>7 DEF Rewritten
<1> QED
  BY <1>5, <1>8, PregeneratedAssumption DEF Bindings, PregeneratedBindings, PregeneratedDynSym

\* What the stages say of the plugin: the bindings are those of its target, a pointer
\* that is not set is one that the mpv has not or that nobody sets, and only a program
\* creates its client.
StageInv ==
  /\ stage \in Stages
  /\ build \in Builds
  /\ offers \in Versions
  /\ logger \in BOOLEAN
  /\ IF stage = "source" THEN bindings = NoBindings
     ELSE bindings = Bindings(build.target, build.bindgen)
  /\ unset \subseteq bindings.pointers
  /\ \A f \in unset : build.program \/ f \notin offers
  /\ stage = "create" => build.program
  /\ PluginStarts

\* A call of functions a plugin is linked with leads on, or to an end that PluginStarts
\* allows.
LEMMA CallsSafely ==
  ASSUME StageInv, stage # "source", NEW fs, fs \subseteq Linked(build.program), NEW next,
         Calls(fs, next), UNCHANGED loadVars
  PROVE  \/ stage' = next
         \/ stage' = "panicked" /\ build.program /\ DynSym(build.target)
         \/ stage' = "aborted" /\ ~Complete
<1>1. CASE fs \cap unset = {}
  BY <1>1 DEF Calls
<1>2. CASE fs \cap unset # {}
  <2>1. PICK f \in fs : f \in unset
    BY <1>2
  <2>2. f \in bindings.pointers /\ (build.program \/ f \notin offers)
    BY <2>1 DEF StageInv
  <2>3. DynSym(build.target)
    BY <2>2, BindingsAre DEF StageInv
  <2>4. CASE build.program
    BY <1>2, <2>3, <2>4 DEF Calls
  <2>5. CASE ~build.program
    BY <1>2, <2>1, <2>2, <2>5 DEF Calls, Complete
  <2> QED
    BY <2>4, <2>5
<1> QED
  BY <1>1, <1>2

LEMMA StageStep == StageInv /\ [PluginNext]_pluginVars => StageInv'
<1> SUFFICES ASSUME StageInv, [PluginNext]_pluginVars PROVE StageInv'
  OBVIOUS
<1>1. CASE UNCHANGED pluginVars
  BY <1>1 DEF pluginVars, loadVars, StageInv, PluginStarts, Complete
<1>2. CASE Build
  <2>1. bindings' = Bindings(build.target, build.bindgen) /\ stage = "source" /\ stage' = "built"
        /\ UNCHANGED <<build, offers, unset, logger>>
    BY <1>2 DEF Build
  <2>2. unset = {}
    BY <2>1 DEF StageInv, NoBindings
  <2> QED
    BY <2>1, <2>2 DEF StageInv, PluginStarts, Stages
<1>3. CASE Load
  <2>1. stage = "built" /\ UNCHANGED <<build, offers, bindings, logger>>
    BY <1>3 DEF Load, loadVars
  <2>2. CASE \E f \in Linked(build.program) \cap bindings.symbols : ~Resolves(f)
    <3>1. stage' = "refused" /\ unset' = unset
      BY <1>3, <2>2 DEF Load
    <3>2. PICK f \in Linked(build.program) \cap bindings.symbols : ~Resolves(f)
      BY <2>2
    <3>3. ~DynSym(build.target)
      BY <2>1, <3>2, BindingsAre DEF StageInv
    <3>4. f \notin offers
      BY <3>2, <3>3 DEF Resolves, NoGlobalSymbols, DynSym
    <3>5. ~Complete
      BY <3>2, <3>4 DEF Complete
    <3> QED
      BY <2>1, <3>1, <3>5 DEF StageInv, PluginStarts, Complete, Stages
  <2>3. CASE ~\E f \in Linked(build.program) \cap bindings.symbols : ~Resolves(f)
    <3>1. stage' = IF build.program THEN "create" ELSE "open"
      BY <1>3, <2>3 DEF Load
    <3>2. unset' = {f \in bindings.pointers : build.program \/ f \notin offers}
      BY <1>3, <2>3 DEF Load
    <3> QED
      BY <2>1, <3>1, <3>2 DEF StageInv, PluginStarts, Stages
  <2> QED
    BY <2>2, <2>3
\* A step that leaves the load alone keeps the invariant if the stage it leads to is fine.
<1>4. ASSUME stage # "source", stage' \in Stages, stage' \notin {"source", "create"},
             UNCHANGED <<loadVars, unset>>, logger' \in BOOLEAN,
             stage' \in {"refused", "aborted"} => ~Complete,
             stage' = "panicked" => build.program /\ DynSym(build.target)
      PROVE  StageInv'
  BY <1>4 DEF StageInv, PluginStarts, Complete, loadVars
<1>5. ASSUME stage # "source", NEW fs, fs \subseteq Linked(build.program), NEW next, Calls(fs, next),
             next \in Stages \ {"refused", "aborted", "panicked", "source", "create"},
             UNCHANGED <<loadVars, unset>>, logger' \in BOOLEAN
      PROVE  StageInv'
  <2>1. \/ stage' = next
        \/ stage' = "panicked" /\ build.program /\ DynSym(build.target)
        \/ stage' = "aborted" /\ ~Complete
    BY <1>5, CallsSafely
  <2> QED
    BY <1>4, <1>5, <2>1 DEF Stages
<1>6. CASE Create
  <2>1. build.program /\ {"mpv_create", "mpv_client_id"} \subseteq Linked(build.program)
    BY <1>6 DEF Create, StageInv, Linked
  <2>2. Calls({"mpv_create", "mpv_client_id"}, "created") /\ stage # "source"
        /\ UNCHANGED <<loadVars, unset>> /\ logger' \in BOOLEAN
    BY <1>6 DEF Create, StageInv
  <2>3. "created" \in Stages \ {"refused", "aborted", "panicked", "source", "create"}
    BY DEF Stages
  <2> QED
    BY <1>5, <2>1, <2>2, <2>3
<1>7. CASE Open
  <2>1. {"mpv_client_id"} \subseteq Linked(build.program)
    BY DEF Linked
  <2>2. Calls({"mpv_client_id"}, "logging") /\ stage # "source"
        /\ UNCHANGED <<loadVars, unset>> /\ logger' \in BOOLEAN
    BY <1>7 DEF Open, StageInv
  <2>3. "logging" \in Stages \ {"refused", "aborted", "panicked", "source", "create"}
    BY DEF Stages
  <2> QED
    BY <1>5, <2>1, <2>2, <2>3
<1>8. CASE InitializeLogging
  <2>1. stage # "source" /\ UNCHANGED <<loadVars, unset>> /\ logger' \in BOOLEAN
    BY <1>8 DEF InitializeLogging, StageInv
  <2>2. CASE Panics
    BY <1>4, <2>1, <2>2 DEF Panics, Stages
  <2>3. CASE ~Panics
    <3>1. PICK p \in {"", "mpv.log", "~/mpv.log"} :
            Calls({"mpv_client_name", "mpv_get_property", "mpv_free"}
                    \cup (IF p = "~/mpv.log" THEN {"mpv_command_ret", "mpv_free_node_contents"} ELSE {})
                    \cup (IF p = "" THEN {} ELSE {"mpv_get_time_us"}),
                  IF logger THEN "taken" ELSE "main")
      BY <1>8, <2>3 DEF InitializeLogging
    <3> DEFINE fs == {"mpv_client_name", "mpv_get_property", "mpv_free"}
                    \cup (IF p = "~/mpv.log" THEN {"mpv_command_ret", "mpv_free_node_contents"} ELSE {})
                    \cup (IF p = "" THEN {} ELSE {"mpv_get_time_us"})
               next == IF logger THEN "taken" ELSE "main"
    <3>2. fs \subseteq Linked(build.program)
      BY DEF Linked
    <3>3. next \in Stages \ {"refused", "aborted", "panicked", "source", "create"}
      BY DEF Stages
    <3>4. Calls(fs, next)
      BY <3>1
    <3> HIDE DEF fs, next
    <3> QED
      BY <1>5, <2>1, <3>2, <3>3, <3>4
  <2> QED
    BY <2>2, <2>3
<1>9. CASE ReadOptions
  <2>1. stage = "main" /\ stage' = "options" /\ UNCHANGED <<loadVars, unset, logger>>
    BY <1>9 DEF ReadOptions, loadVars
  <2> QED
    BY <1>4, <2>1 DEF Stages, StageInv
<1>10. CASE OptionsStep
  <2>1. stage # "source" /\ UNCHANGED <<loadVars, unset>> /\ logger' \in BOOLEAN
    BY <1>10 DEF OptionsStep, StageInv, loadVars
  <2>2. CASE Panics
    BY <1>4, <2>1, <2>2 DEF Panics, Stages
  <2>3. CASE ~Panics
    <3>1. Calls(Asked, "options")
      BY <1>10, <2>3 DEF OptionsStep
    <3>2. Asked \subseteq Linked(build.program)
      BY DEF Asked, Linked
    <3>3. "options" \in Stages \ {"refused", "aborted", "panicked", "source", "create"}
      BY DEF Stages
    <3> QED
      BY <1>5, <2>1, <3>1, <3>2, <3>3
  <2> QED
    BY <2>2, <2>3
<1>11. CASE Wait
  <2>1. {"mpv_client_id", "mpv_wait_event"} \subseteq Linked(build.program)
    BY DEF Linked
  <2>2. Calls({"mpv_client_id", "mpv_wait_event"}, "loop") /\ stage # "source"
        /\ UNCHANGED <<loadVars, unset>> /\ logger' \in BOOLEAN
    BY <1>11 DEF Wait, StageInv
  <2>3. "loop" \in Stages \ {"refused", "aborted", "panicked", "source", "create"}
    BY DEF Stages
  <2> QED
    BY <1>5, <2>1, <2>2, <2>3
<1>12. CASE Stopped
  BY <1>1, <1>12 DEF Stopped
<1> QED
  BY <1>1, <1>2, <1>3, <1>6, <1>7, <1>8, <1>9, <1>10, <1>11, <1>12 DEF PluginNext

LEMMA StageStart == PluginInit => StageInv
BY DEF PluginInit, StageInv, PluginStarts, Stages, NoBindings

\* Types, and every function of the header declared exactly once, as a symbol or as a
\* pointer.
THEOREM BindingsAreComplete == PluginSpec => []PluginTypeOK
<1>1. StageInv => PluginTypeOK
  <2> SUFFICES ASSUME StageInv PROVE PluginTypeOK
    OBVIOUS
  <2>1. CASE stage = "source"
    BY <2>1 DEF StageInv, PluginTypeOK, NoBindings
  <2>2. CASE stage # "source"
    BY <2>2, BindingsAre DEF StageInv, PluginTypeOK
  <2> QED
    BY <2>1, <2>2
<1> QED
  BY <1>1, StageStart, StageStep, PTL DEF PluginSpec

\* A plugin that an mpv with every function it uses opens is neither refused nor brings
\* the player down for a pointer that is not set (README.md 10-12).
THEOREM PluginsStart == PluginSpec => []PluginStarts
<1>1. StageInv => PluginStarts
  BY DEF StageInv
<1> QED
  BY <1>1, StageStart, StageStep, PTL DEF PluginSpec

-----------------------------------------------------------------------------
(* The options of the plugin.                                              *)

\* The options are read once main has begun, from what they are then.
OptionsInv ==
  /\ stage \in {"source", "built", "open", "logging", "main"} => Start
  /\ InputsInv
  /\ TypeInv
  /\ MapInv

LEMMA OptionsInvStep == OptionsInv /\ [PluginNext]_pluginVars => OptionsInv'
<1>1. ASSUME OptionsInv, ReadOptions
      PROVE  Start' /\ InputsInv'
  BY <1>1, OptionsAssumption DEF OptionsInv, ReadOptions, Start, InputsInv
<1>2. ASSUME OptionsInv, [PluginNext]_pluginVars, ~ReadOptions
      PROVE  [Next]_vars
  BY <1>2 DEF PluginNext, Build, Load, Create, Open, InitializeLogging, OptionsStep, Wait, Stopped,
              pluginVars, optionVars
<1>3. ASSUME OptionsInv, [PluginNext]_pluginVars
      PROVE  stage' \in {"source", "built", "open", "logging", "main"} => Start'
  <2> SUFFICES ASSUME stage' \in {"source", "built", "open", "logging", "main"}
               PROVE  Start'
    OBVIOUS
  <2>1. UNCHANGED optionVars /\ stage \in {"source", "built", "open", "logging", "main"}
    BY <1>3 DEF PluginNext, Build, Load, Create, Open, InitializeLogging, ReadOptions, OptionsStep, Wait,
                Stopped, Calls, Panics, pluginVars
  <2> QED
    BY <1>3, <2>1 DEF OptionsInv, Start, optionVars, vars
<1>4. Start' => TypeInv' /\ MapInv'
  BY StartType, StartMap, PTL
<1> QED
  BY <1>1, <1>2, <1>3, <1>4, TypeStep, MapStep DEF OptionsInv

LEMMA OptionsInvStart == PluginInit => OptionsInv
<1>1. PluginInit => Start /\ InputsInv
  BY DEF PluginInit, Init, Start, InputsInv, Empty
<1> QED
  BY <1>1, StartType, StartMap DEF OptionsInv

\* The plugin gets a struct of its type.
THEOREM OptionsTyped == PluginSpec => []TypeOK
<1>1. OptionsInv => TypeOK
  BY DEF OptionsInv, TypeInv
<1> QED
  BY <1>1, OptionsInvStart, OptionsInvStep, PTL DEF PluginSpec

\* The plugin gets the options of the command line, merged over those of its file, or its
\* defaults, however the maps are walked (lib.rs 905-955).
THEOREM OptionsResolved == PluginSpec => []Resolved
<1>1. OptionsInv => Resolved
  BY DEF OptionsInv, MapInv
<1> QED
  BY <1>1, OptionsInvStart, OptionsInvStep, PTL DEF PluginSpec

=============================================================================
