CONSTANTS
  a = a
  b = b
  c = c
  v = v
  nil = nil
  blank = blank
  on = on
  off = off
  project = project
  other = other
  n1 = n1
  n2 = n2
  none = none
  Field = {}
  Kind <- Strings
  Input <- AnyText
  Nil = nil
  Blank = blank
  True = on
  False = off
  Project = project
  Related <- NoRelated
  Resolved = {}
  Reads <- NoFields
  Needs <- NoFields
  Required = {}
  Relations <- NoRelations
  Default <- NoDefault
  Name = {n1}
  NoName = none
  Pipelines <- OnePipeline
  MaxId = 4
  MaxTasks = 1
SPECIFICATION Spec
INVARIANTS
  TypeOK
  EntitiesInStep
  EveryStageInOneFork
  SelectedExists
PROPERTY DiagramSpec
CHECK_DEADLOCK FALSE
