\* Two jobs and no tracks.
CONSTANTS
  job1 = job1
  job2 = job2
  room1 = room1
  room2 = room2
  track1 = track1
  Job = {job1, job2}
  Conference = {room1, room2}
  RoomOf <- RoomOfJob
  Track = {}
  JobOf <- JobOfTrack
  None = None
SPECIFICATION Spec
PROPERTIES
  OpcodeObeyed
