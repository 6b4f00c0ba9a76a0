SPECIFICATION Spec
CONSTANTS
  MAX_BLOCKS = 4
  Handles = {a, b}
  Bytes = {0, 1}
INVARIANT ListsApart
PROPERTY ImplementsByteArrays
SYMMETRY Symmetry
