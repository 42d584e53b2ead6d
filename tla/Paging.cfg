SPECIFICATION FairSpec
CONSTANTS
  HourLen = 2
  CursorTTL = 1
  MaxQueryWindow = 3
  MaxPageSize = 2
  DefaultLimit = 2
  ListWindow = 3
  DefaultFacets = 1
  MaxFacets = 2
  Rows <- MCRows
  Requests <- MCRequests
  MaxNow = 4
INVARIANTS TypeOK  NoRowTwice OneQueryPerToken FacetsMatchPages
PROPERTY PagingEnds
