SPECIFICATION Spec
CONSTANTS
  MaxPrograms = 2  GraceFrames = 2  SplashFrames = 1  MaxLaunches = 3
  KbdSize = 4  MouseSize = 3  CursorMax = 300  MaxPackets = 3  MaxKeyEvents = 4
  Motions <- MCMotions  KeyMoves <- MCKeyMoves
  DStackSize = 1  CodeSize = 4  MaxWords = 2  RStackSize = 1  CtrlSize = 1
  MemSize = 1  CellBits = 2  Literals = {0}  Names = {"A", "B"}
  Typed = {"DROP"}  Compiled = {"DROP"}
  NumVoices = 1  ArpNotes = 2  EnvFull = 2  EnvUnit = 2  SampleRate = 1000
  MaxMs = 5  MaxArpMs = 2  NumPitches = 1  FilterShift = 2  FilterMax = 4
  History = 2  FCoeff <- MCFCoeff  QCoeff <- MCQCoeff  Durations = {0, 9}
  Levels = {40}  Inputs <- MCInputs  MaxCommands = 3  RestSamples = 12
  Kinds = {"shell", "editor", "ring3"}  Piles <- MCPiles  BootOrder <- MCBootOrder
  FileNames = {"a", "b"}  TableSize = 2
  Wins = {"x", "y"}  ScreenW = 4  ScreenH = 3  WinW = 2  WinH = 1
  BootPlace <- MCBootPlace  BootStack <- MCBootStack
  Pointers <- MCPointers  Drags <- MCDrags
  Chars = {"x"}  InputMax = 2  HistoryMax = 2  OutputMax = 3  VisibleRows = 2
  Replies <- MCReplies  Greeting <- MCGreeting  Answers <- MCAnswers  MaxSubmitted = 3
INVARIANTS
  RefillBehindCard StaleOnce TypedAsPressed CursorWhereAimed TearsBounded WordsClosed
  FilterRests FocusSound ClosedIsTold ListingFresh  ConsoleInOrder
PROPERTIES
  RunsAgain CloseTakesEffect  EnvelopeMoves
CHECK_DEADLOCK FALSE
