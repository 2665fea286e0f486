SPECIFICATION Spec
CONSTANTS
  Apps = {a1, a2}
  NKeys = 2
  Variants = {"atomic"}
INVARIANTS
  OpenAppHasInterrupts
