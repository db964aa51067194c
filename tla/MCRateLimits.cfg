SPECIFICATION Spec
CONSTANTS
  Interval = 3
  Horizon = 14
INVARIANTS
  PyNoBurst
  PyNoDrift
  GoNoBurst
