SPECIFICATION MCSpec
CONSTANTS
  Shards = {s1, s2}
  Clients = {1, 2, 3}
  Allocators = {a1}
  TypedNames = {1}
  MaxMatches = 1
  MaxRestarts = 0
  MaxLoad = 0
  NoShard = NoShard
  NoRoom = NoRoom
INVARIANT MatchRoomListed
CHECK_DEADLOCK FALSE
