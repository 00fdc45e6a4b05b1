SPECIFICATION DriverSpec
CONSTANTS
  Commands <- MCCommands
  atoi <- MCatoi
  NoWord = NoWord
  MaxSignals = 3
INVARIANTS LevelFollowsSignals OptionsOfSynopsis
PROPERTY MainEnds
CHECK_DEADLOCK FALSE
