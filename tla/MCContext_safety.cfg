SPECIFICATION Spec
CONSTANTS
  Ctx = {r, a, b}
  Root = r
  None = None
  SpawnFlags <- AllFlags
  Signals = {"INTERRUPTED"}
  MaxNotes = 1
SYMMETRY Symmetry
INVARIANTS
  NoLostNote
  NoMissedJoin
  NoFreeWhileActive
PROPERTY
  InterruptsWake
\* The program may stop: every context can finish.
CHECK_DEADLOCK FALSE
