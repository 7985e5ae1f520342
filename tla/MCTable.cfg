\* One table, four users, every start mode, and games that may be joined late: the
\* end of a game that both players have left may start the next for two who joined.
CONSTANTS
  Users = {u1, u2, u3, u4}
  Tables = {t1}
  Configs <- MCConfigs
  Moves = FALSE
  NoUser = NoUser
  NoTable = NoTable
  NoChair = NoChair
SPECIFICATION Spec
SYMMETRY UserSymmetry
INVARIANTS SeatsAgree GamePlayed NoMissedStart
PROPERTIES StartPlayed
