SPECIFICATION Spec
CONSTANTS
  Dynamic = {"{{$guid}}"}
  Queries = {"?q=1", "k=1"}
  Json = {"{a: 1}"}
  Xml = {"<x/>"}
  Pairs <- MCPairs
  Parts <- MCParts
  References <- MCReferences
  FieldLines <- MCFields
  YamlLines <- MCYaml
  Files <- MCFiles
  FileTypes <- MCTypes
  FileNames <- MCFileNames
  EnvVars <- MCEnv
  Marked <- MCMarked
  Segments <- MCSegments
  Closing <- MCClosing
  BraceOpen = {"{open"}
  StartDisks <- MCDisks
  Odd <- MCOdd
  MaxCommands = 3
PROPERTIES SplitAndMergeKeep RequestsSurvive CodeSurvives
CHECK_DEADLOCK FALSE
