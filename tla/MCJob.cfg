\* Two jobs, one of which has a track in its room, of an agent or not.
CONSTANTS
  job1 = job1
  job2 = job2
  room1 = room1
  room2 = room2
  track1 = track1
  Job = {job1, job2}
  Conference = {room1, room2}
  RoomOf <- RoomOfJob
  Track = {track1}
  JobOf <- JobOfTrack
  None = None
SPECIFICATION Spec
INVARIANTS
  TypeOK
  NoTrackMissed
  PanicOnlyAfterFailedStart
PROPERTIES
  LastJobObeys
