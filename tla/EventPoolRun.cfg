SPECIFICATION FairSpec
CONSTANTS
  Strands = {parser, sync, book}
  Parsers = {parser}
  Blocks = {b1, b2, b3}
  Nil = Nil
  Messages <- MCMessages
  Lists <- MCLists
  MaxMessages = 4
  MaxCopies = 1
INVARIANTS
  RefsAreHolders
  NoBlockTwice
  NothingLost
PROPERTIES
  EverythingReturns
CHECK_DEADLOCK FALSE
