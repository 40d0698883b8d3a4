CONSTANTS
  a = a
  b = b
  c = c
  v = v
  nil = nil
  blank = blank
  on = on
  off = off
  project = project
  other = other
  n1 = n1
  n2 = n2
  none = none
  Field = {a, b}
  Kind <- SwitchAndText
  Input <- SwitchAndTextInput
  Nil = nil
  Blank = blank
  True = on
  False = off
  Project = project
  Related <- NoRelated
  Resolved = {}
  Reads <- NoFields
  Needs <- NoFields
  Required = {b}
  Relations <- BWhenA
  Default <- NoDefault
  Name = {n1}
  NoName = none
  Pipelines <- OnePipeline
  MaxId = 2
  MaxTasks = 1
SPECIFICATION Spec
INVARIANT RequiredFilled
CHECK_DEADLOCK FALSE
