SPECIFICATION Spec
CONSTANTS
  SystemTick = 1
  TimerTicks = 5
  ConsoleTime = 5
  RotationTime = 2
  SeekTime = 3
  SectorsPerTrack = 3
  NumSectors = 6
  Typed <- MCTyped
  MaxTicks = 20
INVARIANTS InterruptsExact EchoExact
PROPERTY LatencyExact
CHECK_DEADLOCK FALSE
