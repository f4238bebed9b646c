SPECIFICATION PluginSpec
CONSTANTS
  Targets <- MCTargets
  Functions <- MCFunctions
  PregenSymbols <- MCPregenSymbols
  PregenPointers <- MCPregenPointers
  Versions <- MCVersions
  Types <- MCTypes
  Default <- MCDefault
  Files <- MCFiles
  ScriptOpts <- MCScriptOpts
  NoFile = NoFile
  NoText = NoText
INVARIANTS TypeOK Resolved PluginTypeOK PluginStarts
