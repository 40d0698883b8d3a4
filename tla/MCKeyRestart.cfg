CONSTANTS
  r1 = r1
  r2 = r2
  k1 = k1
  k2 = k2
  tampered = tampered
  nothing = nothing
  failed = failed
  Replica = {r1, r2}
  Key = {k1, k2}
  Tampered = tampered
  Nothing = nothing
  Failed = failed
  Pollers = 1
  MaxTrouble = 1
SPECIFICATION KeyFairSpec
PROPERTY RestartedPolls
CHECK_DEADLOCK FALSE
