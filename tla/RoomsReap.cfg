SPECIFICATION MCSpec
CONSTANTS
  Rooms = {r1}
  Conns = {1, 2}
  Users = {alice}
  MaxSessions = 2
  GraceSeconds = 1
  NoRoom = NoRoom
  NoConn = NoConn
  Nobody = Nobody
  MaxRequests = 6
PROPERTY RoomsGoWhenLeft
CHECK_DEADLOCK FALSE
