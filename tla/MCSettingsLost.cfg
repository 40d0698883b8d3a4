CONSTANTS
  Client = {u1, u2}
  Value = {v, w}
  Default = v
  Nothing = nothing
  MaxVersion = 4
SPECIFICATION UndisturbedSpec
INVARIANT ConcurrentChangeRefused
