SPECIFICATION Spec
CONSTANTS
  Ctx = {a, b, c, d}
  None = None
  Half = 8
  Calls = {"shared", "unique", "upgrade", "promote", "try_unique", "try_shared", "try_upgrade", "shared_unique", "shared_upgrade", "upgrade_unique", "unique_upgrade", "upgrade_shared", "unique_shared", "until", "interrupt"}
SYMMETRY Symmetry
INVARIANTS Exclusive Counted
CHECK_DEADLOCK FALSE
