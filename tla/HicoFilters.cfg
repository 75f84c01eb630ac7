SPECIFICATION FiltersSpec
CONSTANTS
  Ids = {1, 2, 3, 5, 6}
  Bits = {0, 1, 2}
  Drivers = {"maskAndRange"}
  MaxFilters = 2
INVARIANTS SuccessMeansHeard
