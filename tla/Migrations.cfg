CONSTANTS
  Runners = {1, 2}
  Commands <- MCCommands
  Last = 3
  NoRunner = 0
SPECIFICATION Spec
INVARIANTS CleanVersionIsTrue DirtyIsOneFileAway
PROPERTIES OkTellsSchema
