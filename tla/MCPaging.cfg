CONSTANTS
  MAX_PSYC_PAGES = 2
  MAX_TOTAL_PAGES = 4
  Images = {1, 2, 5}
  MaxPages = 6
  Val = {0, 1}
SPECIFICATION PagingSpec
INVARIANTS PagingInv UnshrunkKeepsContents
CHECK_DEADLOCK FALSE
