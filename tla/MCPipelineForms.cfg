CONSTANTS
  a = a
  b = b
  c = c
  v = v
  nil = nil
  blank = blank
  on = on
  off = off
  project = project
  other = other
  n1 = n1
  n2 = n2
  none = none
  Field = {a, b, c}
  Kind <- Strings
  Input <- AnyText
  Nil = nil
  Blank = blank
  True = on
  False = off
  Project = project
  Related <- Chain
  Resolved = {b, c}
  Reads <- ChainReads
  Needs <- ChainNeeds
  Required = {a}
  Relations <- NoRelations
  Default <- NoDefault
  Name = {n1}
  NoName = none
  Pipelines <- OnePipeline
  MaxId = 2
  MaxTasks = 1
SPECIFICATION Spec
INVARIANT OptionsFresh
CHECK_DEADLOCK FALSE
