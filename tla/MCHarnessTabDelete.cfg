CONSTANTS
  good = good
  pair = pair
  broken = broken
  NoFile = NoFile
  Files <- MCFiles
  Contents <- MCContents
  Sources <- MCSources
  Worlds <- MCWorlds
  MaxFetches = 2
SPECIFICATION TabSpec
INVARIANT DeletedGamesLeaveThePicker
CHECK_DEADLOCK FALSE
