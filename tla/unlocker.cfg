CONSTANTS
  Args <- MixedArgs
  MaxArgs = 3
  MaxFiles = 2
  Actions <- AllActions
  Frames = 3
SPECIFICATION UnlockerSpec
INVARIANTS UnlockerTypeOK AnswerAsMeant WatchedAsGiven HelpAsAsked SplashInOrder
PROPERTIES StartEnds SplashPlays
