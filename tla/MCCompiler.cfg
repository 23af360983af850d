CONSTANTS
  File <- MCFile
  NoFile = "none"
  Main = "main"
  Dir <- MCDir
  Rel <- MCRel
  Resolve <- MCResolve
  DirOf <- MCDirOf
  LibDir = "/lib"
  Macro = {"A", "K"}
  Options = {}
  Contents <- MCContents
  Sub = {"u", "v"}
  Calls <- MCCalls
  Uses <- MCUses
  Basic = {"p", "cu", "cv", "t1", "end"}
  Module <- MCModule
  Runtime = {"/lib/rt", "/lib/rt2"}
  Guarded <- MCGuarded
SPECIFICATION Spec
INVARIANTS
  TypeOK
  ConditionsMatch
  ExpandedAsWritten
  RequiredOnce
  ConfiguredAsAsked
CHECK_DEADLOCK FALSE
