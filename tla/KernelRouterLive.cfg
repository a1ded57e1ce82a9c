CONSTANTS
  KERNEL_WINDOW_MAX = 2
  Task = {d, a}
  NoTask = NoTask
  Desktop = d
  QLen = 2
  Rows = 1
  MaxApps = 2
  MaxCalls = 2
  MaxZ = 6
  MaxDepth = 0

SPECIFICATION Spec

INVARIANTS StrictZOrder  FocusLive
PROPERTY CloseEnds
