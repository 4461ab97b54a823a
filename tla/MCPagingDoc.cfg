CONSTANTS
  MAX_PSYC_PAGES = 2
  MAX_TOTAL_PAGES = 4
  Images = {1}
  MaxPages = 6
  Val = {0, 1}
SPECIFICATION PagingSpec
INVARIANT ContentsKept
CHECK_DEADLOCK FALSE
