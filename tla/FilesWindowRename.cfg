SPECIFICATION FilesSpec
CONSTANTS
  FileNames = {"a", "b"}
  TableSize = 2
PROPERTY RenameKeepsRow
CHECK_DEADLOCK FALSE
