------------------------------- MODULE Plugin -------------------------------
(***************************************************************************)
(* From the bindings of libmpv to a running plugin: the build script of     *)
(* mpv-client-sys, which declares the functions of libmpv as symbols or as  *)
(* pointers, the load by mpv, the entry point that #[mpv_client::main]      *)
(* generates, and the README's main, which reads its options (module        *)
(* Options) and then waits for events.                                     *)
(***************************************************************************)
EXTENDS Options

CONSTANTS
  Targets,    \* operating systems a plugin is built for
  Functions,  \* the functions of include/client.h
  PregenSymbols,   \* what pregenerated_bindings.rs declares
  PregenPointers,  \* what pregenerated_bindings_dyn_sym.rs has a pointer for
  Versions    \* what an mpv offers of them, a set of sets

\* The two files that bindgen made once are those of the header beside them: nothing in
\* the build compares them.
ASSUME PregeneratedAssumption == PregenSymbols = Functions /\ PregenPointers = Functions

ASSUME PluginAssumption == \A offered \in Versions : offered \subseteq Functions

VARIABLES
  stage,     \* how far the plugin, or the standalone program, has come
  build,     \* what it is built from and for
  offers,    \* the functions the mpv offers that loads it
  bindings,  \* the functions declared as symbols and as pointers
  unset,     \* the functions without a definition after the load
  logger     \* the log crate has a logger

optionVars == vars
loadVars == <<build, offers, bindings>>
pluginVars == <<optionVars, stage, loadVars, unset, logger>>

Builds == [target : Targets, bindgen : BOOLEAN, program : BOOLEAN]
NoBindings == [symbols |-> {}, pointers |-> {}]

---------------------------------------------------------------------------
(* The build script.                                                       *)

\* Mutant: the dynamic table is for Windows only, as in client.h.
WindowsOnly(target) == target = "windows"

\* DYN_SYM_TARGETS.
DynSym(target) == target \in {"windows", "android"}

\* What bindgen makes of the header: one block of foreign functions, none of them
\* variadic, and items that are no functions.
Header == {[abi |-> "C", fn |-> f, variadic |-> FALSE] : f \in Functions}
            \cup {[abi |-> "none", fn |-> "mpv_error", variadic |-> FALSE]}

Declared(items) == {i.fn : i \in {j \in items : j.abi # "none"}}

\* Mutant: what was moved is left over as well.
RewrittenTwice(items) ==
  [symbols |-> Declared(items), pointers |-> {i.fn : i \in {j \in items : j.abi = "C" /\ ~j.variadic}}]

\* rewrite_dynamic_sym_bindings: a C function becomes a pointer, set to None, and
\* a wrapper that calls it; everything else is left over as it was.
Rewritten(items) ==
  LET moved == {i \in items : i.abi = "C" /\ ~i.variadic}
  IN [symbols |-> Declared(items \ moved), pointers |-> {i.fn : i \in moved}]

\* The two files that are used without bindgen.
PregeneratedBindings == [symbols |-> PregenSymbols, pointers |-> {}]
PregeneratedDynSym == [symbols |-> {}, pointers |-> PregenPointers]

\* main of build.rs.
Bindings(target, bindgen) ==
  IF bindgen
  THEN IF DynSym(target) THEN Rewritten(Header)
       ELSE [symbols |-> Declared(Header), pointers |-> {}]
  ELSE IF DynSym(target) THEN PregeneratedDynSym ELSE PregeneratedBindings

Build ==
  /\ stage = "source"
  /\ bindings' = Bindings(build.target, build.bindgen)
  /\ stage' = "built"
  /\ UNCHANGED <<optionVars, build, offers, unset, logger>>

---------------------------------------------------------------------------
(* The load, by mpv or by the linker.                                      *)

\* Functions a plugin or program like the README's is linked with.
Linked(program) ==
  {"mpv_client_id", "mpv_client_name", "mpv_get_property", "mpv_free", "mpv_command_ret",
   "mpv_free_node_contents", "mpv_get_time_us", "mpv_wait_event"}
    \cup (IF program THEN {"mpv_create"} ELSE {})

\* Loaders that do not show a plugin the symbols of the process that opens it.
NoGlobalSymbols(target) == target \in {"windows", "android"}

\* A standalone program is linked with a libmpv by its own build.
Resolves(f) == f \in offers /\ (build.program \/ ~NoGlobalSymbols(build.target))

\* A symbol in use that is not found ends the load.  Pointers are set by an mpv
\* that opens a plugin, as far as it offers them, and by nobody for a program.
Load ==
  /\ stage = "built"
  /\ IF \E f \in Linked(build.program) \cap bindings.symbols : ~Resolves(f)
     THEN stage' = "refused" /\ UNCHANGED unset
     ELSE /\ stage' = IF build.program THEN "create" ELSE "open"
          /\ unset' = {f \in bindings.pointers : build.program \/ f \notin offers}
  /\ UNCHANGED <<optionVars, loadVars, logger>>

---------------------------------------------------------------------------
(* The entry point, and main.                                              *)

\* The calls fs, then stage next.  The wrapper of a pointer that is not set panics,
\* which ends the process when it reaches mpv_open_cplugin.
Calls(fs, next) ==
  stage' = IF fs \cap unset = {} THEN next
           ELSE IF build.program THEN "panicked" ELSE "aborted"

\* Client::create of a standalone program.
Create ==
  /\ stage = "create"
  /\ Calls({"mpv_create", "mpv_client_id"}, "created")
  /\ UNCHANGED <<optionVars, loadVars, unset, logger>>

\* mpv_open_cplugin: Handle::from_ptr.
Open ==
  /\ stage = "open"
  /\ Calls({"mpv_client_id"}, "logging")
  /\ UNCHANGED <<optionVars, loadVars, unset, logger>>

\* One of the expects on the way: mpv refuses a call, or a file cannot be created.
Panics == stage' = "failed"

\* initialize_logging and its expect; the clock of mpv is read when there is a log
\* file, whose path is expanded when it starts with a tilde.
InitializeLogging ==
  /\ stage = "logging"
  /\ \/ \E path \in {"", "mpv.log", "~/mpv.log"} :
          Calls({"mpv_client_name", "mpv_get_property", "mpv_free"}
                  \cup (IF path = "~/mpv.log" THEN {"mpv_command_ret", "mpv_free_node_contents"} ELSE {})
                  \cup (IF path = "" THEN {} ELSE {"mpv_get_time_us"}),
                IF logger THEN "taken" ELSE "main")
     \/ Panics
  /\ logger' = (logger \/ stage' = "main")
  /\ UNCHANGED <<optionVars, loadVars, unset>>

\* main asks for its options; the file and the property are what they are then.
ReadOptions ==
  /\ stage = "main"
  /\ stage' = "options"
  /\ file' \in Files /\ opts' \in ScriptOpts
  /\ UNCHANGED <<pc, line, left, rawMap, struct, result, loadVars, unset, logger>>

\* The functions read_options calls on its way.
Asked == CASE pc = "file" -> {"mpv_client_name", "mpv_command_ret", "mpv_free_node_contents"}
           [] pc = "opts" -> {"mpv_get_property", "mpv_free_node_contents"}
           [] OTHER       -> {}

OptionsStep ==
  /\ stage = "options"
  /\ pc # "done"
  /\ Calls(Asked, "options") \/ (Asked # {} /\ Panics)
  /\ IF stage' = "options" THEN Next ELSE UNCHANGED optionVars
  /\ UNCHANGED <<loadVars, unset, logger>>

\* wait_event, in the loop.
Wait ==
  /\ stage = "options"
  /\ pc = "done"
  /\ Calls({"mpv_client_id", "mpv_wait_event"}, "loop")
  /\ UNCHANGED <<optionVars, loadVars, unset, logger>>

Stopped ==
  /\ stage \in {"refused", "aborted", "panicked", "failed", "taken", "created", "loop"}
  /\ UNCHANGED pluginVars

PluginInit ==
  /\ Init /\ file = NoFile /\ opts = Empty
  /\ stage = "source"
  /\ build \in Builds
  /\ offers \in Versions
  /\ bindings = NoBindings /\ unset = {}
  /\ logger \in BOOLEAN

PluginNext ==
  \/ Build \/ Load \/ Create \/ Open \/ InitializeLogging
  \/ ReadOptions \/ OptionsStep \/ Wait \/ Stopped

PluginSpec == PluginInit /\ [][PluginNext]_pluginVars

---------------------------------------------------------------------------
(* What the bindings and the macro promise.                                *)

Stages == {"source", "built", "refused", "create", "created", "open", "logging", "taken",
           "main", "options", "loop", "panicked", "failed", "aborted"}

\* Every variable holds a value of its type, and once they are built the bindings
\* declare every function of the header exactly once: what build.rs generates does
\* (lines 43-140), given that the files of PregeneratedAssumption do.
PluginTypeOK ==
  /\ stage \in Stages
  /\ build \in Builds
  /\ offers \in Versions
  /\ logger \in BOOLEAN
  /\ unset \subseteq bindings.pointers
  /\ bindings.symbols \cap bindings.pointers = {}
  /\ stage # "source" => bindings.symbols \cup bindings.pointers = Functions

Complete == Linked(build.program) \subseteq offers

\* A plugin that is opened by an mpv with every function it uses is neither refused
\* nor does it bring the player down for a pointer that is not set, on any target
\* and with either kind of bindings (README.md 10-12); a program panics for want of
\* a pointer only where libmpv is called through pointers.
PluginStarts ==
  /\ stage \in {"refused", "aborted"} => ~Complete
  /\ stage = "panicked" => build.program /\ DynSym(build.target)

=============================================================================
