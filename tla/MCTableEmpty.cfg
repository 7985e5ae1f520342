\* The end of a game that both players have left starts the next without players.
CONSTANTS
  Users = {u1, u2, u3, u4}
  Tables = {t1}
  Configs <- JoinedConfigs
  Moves = FALSE
  NoUser = NoUser
  NoTable = NoTable
  NoChair = NoChair
SPECIFICATION Spec
SYMMETRY UserSymmetry
INVARIANTS GamesHavePlayers
