\* Players who leave after the deal.
CONSTANTS
  Players = 3
  Scores = {80}
  Types = {0, 105}
  NoChair = NoChair
SPECIFICATION OxSpec
INVARIANT LeaversPay
