SPECIFICATION MCSpec
CONSTANTS
  Rooms = {r1}
  Conns = {1, 2, 3}
  Users = {alice, bob}
  MaxSessions = 2
  GraceSeconds = 1
  NoRoom = NoRoom
  NoConn = NoConn
  Nobody = Nobody
  MaxRequests = 6
INVARIANT OneRecordPerGame
CHECK_DEADLOCK FALSE
