SPECIFICATION Spec
CONSTANTS
  Null = Null
  SubtreeCap = 1
  TarBlock = 21
  TarChecksum <- SomeTarChecksum
  TarSize <- SomeTarSize
  TarTypeFlag = 17
  Names <- SomeNames
  Glob <- SomeGlob
  Remote <- SomeRemote
  NoPaths <- SomeNoPaths
  Sessions <- SomeSessions
INVARIANTS
  RefusedForItsForm
  PipesAreOpenedOnce
  HintIsRight
  SniffedAreRead
PROPERTIES
  FilesAreTheMatches
