CONSTANTS
  Client = {u1, u2}
  Value = {v, w}
  Default = v
  Nothing = nothing
  MaxVersion = 3
  p1 = p1
  p2 = p2
  x = x
  y = y
  Binding = {b1, b2}
  Registry = {g1, g2}
  Project = {p1, p2}
  Suffix = {x, y}
  Offer <- Offers
  Listing <- Answered
  Repos = {{}, {p2}}
  Nowhere = nowhere
  Spare = {1}
  k1 = k1
  k2 = k2
  Container = {k1, k2}
  LOG_PER_VIEW = 2
  lineReadLimit = 5
  MaxLines <- Lines
  MaxTime = 3
  NoRequest = NoRequest
SPECIFICATION RequestsSpec
INVARIANTS
  ProjectsOnce
  CompleteInTurn
PROPERTIES
  SaveKeepsOtherKeys
  PagesAdjoin
SYMMETRY Alike
