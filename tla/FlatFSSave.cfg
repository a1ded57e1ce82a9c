CONSTANTS
  DEV = DEV
  Names = {A, DEV}
  FS_MAX_FILES = 2
  SECTOR = 2
  LIMIT = 5
  Byte = {b1}
  MaxSize = 2
  MaxDepth = 1

SPECIFICATION Spec
VIEW DiskView
CONSTRAINT NotHurt

PROPERTIES SaveFailsToNoOp
