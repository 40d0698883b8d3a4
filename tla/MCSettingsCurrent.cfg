CONSTANTS
  Client = {u1, u2}
  Value = {v, w}
  Default = v
  Nothing = nothing
  MaxVersion = 3
SPECIFICATION Spec
INVARIANT GetsCurrent
