\* Up to three players, cards of nothing and of the highest type; the bet of the
\* timer, an eighth of the limit, is not 0.
CONSTANTS
  Players = 3
  Scores = {80}
  Types = {0, 105}
  NoChair = NoChair
SPECIFICATION OxSpec
INVARIANTS WaitsForPlayer BetsCovered Conserved
PROPERTY GameEnds
