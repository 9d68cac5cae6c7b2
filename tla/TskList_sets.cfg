SPECIFICATION Spec
CONSTANTS
  Width = 8
INVARIANTS Descending FindsExactlyTheAdded
