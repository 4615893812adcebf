SPECIFICATION MCSpec
CONSTANTS
  Shards = {s1, s2}
  Clients = {1, 2, 3}
  Allocators = {a1}
  TypedNames = {lobby, 1}
  MaxMatches = 1
  MaxRestarts = 1
  MaxLoad = 0
  NoShard = NoShard
  NoRoom = NoRoom
INVARIANTS TypeOK LoneRoomListed ListedRoomIsOpen ToldRoomIsOpen
PROPERTY HandlersReturn
CHECK_DEADLOCK FALSE
