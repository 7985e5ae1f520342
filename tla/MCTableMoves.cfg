\* Two tables for two, two users who ask for another seat without standing up.
CONSTANTS
  Users = {u1, u2}
  Tables = {t1, t2}
  Configs <- PairConfigs
  Moves = TRUE
  NoUser = NoUser
  NoTable = NoTable
  NoChair = NoChair
SPECIFICATION Spec
INVARIANTS SeatsAgree
