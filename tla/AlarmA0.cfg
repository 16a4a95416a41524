SPECIFICATION AlarmSpec
CONSTANTS
  Points = {p1, p2}
  handler = handler
  Values = {0, 1}
  Intervals = {0, 1, 2, 3}
  MaxTicks = 3
  NoFrame = NoFrame
PROPERTY RestoresA0
CHECK_DEADLOCK FALSE
