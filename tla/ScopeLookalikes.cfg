SPECIFICATION WalkSpec
CONSTANTS
  Modules <- MCLookalikes
  Filters <- MCFilters
  ResourceTypes <- MCResourceTypes
INVARIANT LookalikesOrdinary
CHECK_DEADLOCK FALSE
