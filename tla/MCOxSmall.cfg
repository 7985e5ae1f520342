\* A score of which an eighth of the limit, the bet of the timer, is 0.
CONSTANTS
  Players = 2
  Scores = {20}
  Types = {0, 105}
  NoChair = NoChair
SPECIFICATION OxSpec
PROPERTY GameEnds
