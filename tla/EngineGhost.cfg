SPECIFICATION MCSpec
CONSTANTS
  Height = 3
  Width = 3
  Pieces = {1, 2, 3}
  Color <- MCColor
  MsPerSquare = 2
  TickMs = 1
  ShortRestMs = 1
  LongRestMs = 2
  JumpMs = 2
  Setups <- RookSetups
  Modes = {TRUE}
  MaxRequests = 3
PROPERTY CollisionVictimsWereMoving
