CONSTANTS
  KERNEL_WINDOW_MAX = 2
  Task = {d, a, b}
  NoTask = NoTask
  Desktop = d
  QLen = 1
  Rows = 2
  MaxApps = 3
  MaxCalls = 1
  MaxZ = 1000
  MaxDepth = 1000

SPECIFICATION Spec
VIEW ZView
SYMMETRY Handles
CONSTRAINT NotTorn

INVARIANTS
  TypeOK OneGesture StrictZOrder  FocusLive  TitlesReachable
