CONSTANTS
  a = a
  b = b
  c = c
  v = v
  nil = nil
  blank = blank
  on = on
  off = off
  project = project
  other = other
  n1 = n1
  n2 = n2
  none = none
  Field = {a, b}
  Kind <- SwitchAndRepository
  Input <- SwitchAndRepositoryInput
  Nil = nil
  Blank = blank
  True = on
  False = off
  Project = project
  Related <- NoRelated
  Resolved = {}
  Reads <- NoFields
  Needs <- NoFields
  Required = {}
  Relations <- NoRelations
  Default <- OnByDefault
  Name = {n1, n2}
  NoName = none
  Pipelines <- SavedPipelines
  MaxId = 2
  MaxTasks = 2
SPECIFICATION Spec
INVARIANTS
  SavedUnderOwnName
  RoundTrip
CHECK_DEADLOCK FALSE
