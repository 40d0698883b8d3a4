CONSTANTS
  a = a
  b = b
  v = v
  nil = nil
  blank = blank
  on = on
  off = off
  project = project
  n1 = n1
  none = none
  Field = {a, b}
  Kind <- Strings
  Input <- AnyText
  Nil = nil
  Blank = blank
  True = on
  False = off
  Project = project
  Related <- BByA
  Resolved = {b}
  Reads <- NoFields
  Needs <- BNeedsA
  Required = {}
  Relations <- NoRelations
  Default <- NoDefault
  Name = {n1}
  NoName = none
  Pipelines <- OneStage
  MaxId = 2
  MaxTasks = 1
SPECIFICATION FairEditorSpec
INVARIANTS
  SelectedIsLoading
PROPERTIES
  StoreSpec
  TypedNameKept
  LoadingEnds
CHECK_DEADLOCK FALSE
