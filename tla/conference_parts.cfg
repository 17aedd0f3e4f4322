\* Two members who want the floor; one person and two recordings.
SPECIFICATION PartsSpec
CONSTANTS
  FloorMembers = {1, 2}
  Persons = {p1}
  Recs = {1, 2}
  Files = {"f", "g"}
  auto_file = "f"
  min_recording_participants = 1
  auto_restart = TRUE
INVARIANTS
  PartsTypeOK
  FloorHolderThere
  VideoFloorThere
  ListIsLive
  FileWrittenOnce
  OneAutoRecording
  RecordingsAreCounted
PROPERTIES
  FloorIsTaken
  RoomGoes
CHECK_DEADLOCK FALSE
