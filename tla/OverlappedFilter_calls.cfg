\* Three ranks on a line, two calls of the filter of order 3 in either form.
CONSTANTS
  Size = 3
  Ranks <- MCRanks
  Ghosts <- MCGhosts
  Order = 3
  Variants = {"plain", "reformulated"}
  MaxCalls = 2
SPECIFICATION Spec
INVARIANTS
  TypeOK
  FilterExact
PROPERTIES
  IsBlockFilter
  BuffersLeftAlone
  FiltersReturn
CHECK_DEADLOCK FALSE
