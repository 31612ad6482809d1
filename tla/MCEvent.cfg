SPECIFICATION Spec
CONSTANTS
  Events = {e1, e2}
  ModCbs = {a, b}
  CoreCbs = {k}
  None = none
  MaxNodes = 4
  MaxDepth = 2
INVARIANT ListsKept
INVARIANT CacheFresh
SYMMETRY Symmetry
