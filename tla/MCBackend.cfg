CONSTANTS
  small = small
  large = large
  none = none
  Shells = 2
  Size = {small, large}
  NoSize = none
  Buffer = 2
  Paste = 2
  MaxTyped = 2
  MaxQueue = 2
  r1 = r1
  r2 = r2
  k1 = k1
  k2 = k2
  tampered = tampered
  nothing = nothing
  failed = failed
  Replica = {r1, r2}
  Key = {k1, k2}
  Tampered = tampered
  Nothing = nothing
  Failed = failed
  Pollers = 1
  MaxTrouble = 1
SPECIFICATION BackendSpec
INVARIANTS
  TypeOK
  KeysArrive
  KeysInOrder
  FirstShellSized
  KeyTypeOK
PROPERTIES
  DeadConnectionCloses
  EndIsShown
  StoredKeyStays
  KeysConverge
CHECK_DEADLOCK FALSE
