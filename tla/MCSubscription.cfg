SPECIFICATION Spec
CONSTANTS
  EventNames = {"A", "a", "B", "X", "CUSTOM", "custom", "ALL", "all", "s"}
  Types = {"A", "B"}
  Subclasses = {"s", "u"}
  Reserved = {"s"}
  Spelling <- MCSpelling
  Filters = {"f", "g"}
  Subs <- MCSubs
INVARIANTS
  InstalledExactly
  LossWindows
