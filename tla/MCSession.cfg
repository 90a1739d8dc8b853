SPECIFICATION Spec
CONSTANTS
  Blank = ""
  Form = "form"
  Delimiter = "--b"
  End = "--b--"
  Disposition <- Lines
  Typed = {"--b"}
  Collections <- AllCollections
  Name = "name"
  Values = {"", "given"}
  Verdicts = {"passed"}
  DirectoryOf <- Disk
  Capacity = 1
  MaxRuns = 2
  MaxInputs = 3
INVARIANTS ResultsLand StatusesFit CursorsInRange SavedIsReadBack
PROPERTY RunsEnd
CHECK_DEADLOCK FALSE
