SPECIFICATION MCSpec
CONSTANTS
  Rooms = {r1}
  Conns = {1, 2, 3}
  Users = {alice}
  MaxSessions = 2
  GraceSeconds = 1
  NoRoom = NoRoom
  NoConn = NoConn
  Nobody = Nobody
  MaxRequests = 5
INVARIANTS TypeOK WorkerKeepsSession OneResult BannerHasCountdown
PROPERTIES KingCaptureStands GamesDecided KingCaptureReported SeatSettled MarkedRoomGoes
CHECK_DEADLOCK FALSE
