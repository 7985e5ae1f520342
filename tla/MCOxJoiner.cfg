\* Three chairs, one of which a user leaves and another one takes.
CONSTANTS
  Players = 3
  Scores = {80}
  Types = {0, 105}
  NoChair = NoChair
SPECIFICATION OxSpec
INVARIANT JoinerUntouched
