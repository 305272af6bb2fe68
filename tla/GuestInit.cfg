\* Every module with two hooks, in every order of its exports, and every level
\* and filter, so that every arm of every match between the two sides is used.
CONSTANTS
  None = None
  Hooks = {"_edgedb_sdk_init_hook", "_edgedb_sdk_init_web_handler_f"}
  HostFilters = {"Off", "Error", "Warn", "Info", "Debug", "Trace"}
  RecordLevels = {"Error", "Warn", "Info", "Debug", "Trace"}
SPECIFICATION Spec
INVARIANTS
  TypeOK
  StartedInOrder
  NoRecordLost
  AnsweredByTheHandler
